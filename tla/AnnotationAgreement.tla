------------------------- MODULE AnnotationAgreement -------------------------
(***************************************************************************)
(* The corpus commands over the annotators' files (cli/main.py):           *)
(* `template` writes an empty file, `validate` checks some, `agreement`    *)
(* compares two (agreement/report.py).  In between the annotators work on  *)
(* their files in ELAN.                                                    *)
(***************************************************************************)
EXTENDS AnnotationMeasures

VARIABLES
    files,      \* the files, by annotator
    outcome     \* what the last command printed, and its exit status

vars == <<files, outcome>>

NoFile == [written |-> FALSE]
Nothing == [command |-> "none"]

Init == files = [f \in Annotators |-> NoFile] /\ outcome = Nothing

Written == {f \in Annotators : files[f].written}

-----------------------------------------------------------------------------
(* The report of two recordings: agreement/report.py *)

Figures(values) == [median |-> TwiceMedian(values), p95 |-> Percentile(values, 95)]

BoundaryError(pairs) ==
    [starts |-> Figures([k \in DOMAIN pairs |-> Distance(pairs[k][1].start, pairs[k][2].start)]),
     ends   |-> Figures([k \in DOMAIN pairs |-> Distance(pairs[k][1].end, pairs[k][2].end)])]

\* Variant: an event only one annotator found counts against no class.
PerClassMatchedOnly(matrix, matching) == [c \in LabelsOf(matrix) |-> ForLabel(matrix, c)]

\* Unmatched events count against their class.
PerClass(matrix, matching) ==
    LET left(c)  == Cardinality({m \in matching.leftOnly : m.class = c})
        right(c) == Cardinality({m \in matching.rightOnly : m.class = c})
        used     == LabelsOf(matrix)
                    \union {m.class : m \in matching.leftOnly \union matching.rightOnly}
    IN  [c \in used |-> [ForLabel(matrix, c) EXCEPT !.leftOnly  = @ + left(c),
                                                   !.rightOnly = @ + right(c)]]

\* Acoustic pairs have no role on either side; a missing role is its own label.
RoleLabels(pairs) ==
    LET roles == [k \in DOMAIN pairs |-> <<pairs[k][1].role, pairs[k][2].role>>]
    IN  SelectSeq(roles, LAMBDA p : p # <<Absent, Absent>>)

Notes(left, right, matching) ==
    {n \in {"versions_differ", "few_matched", "nothing_matched"} :
        \/ n = "versions_differ" /\ left.taxonomy # right.taxonomy
        \/ n = "few_matched" /\ Len(matching.pairs) < 20
        \/ /\ n = "nothing_matched" /\ matching.pairs = <<>>
           /\ matching.leftOnly \union matching.rightOnly # {}}

\* Two recordings of one session by two people: else MismatchedRecordings.
Comparable(left, right) ==
    left.recording = right.recording /\ left.annotator # right.annotator

Compare(left, right, criterion) ==
    LET matching == Match(left.marks, right.marks, criterion)
        classes  == Confusion([k \in DOMAIN matching.pairs |->
                        <<matching.pairs[k][1].class, matching.pairs[k][2].class>>])
        roles    == Confusion(RoleLabels(matching.pairs))
    IN  [matched   |-> Len(matching.pairs),
         leftOnly  |-> Cardinality(matching.leftOnly),
         rightOnly |-> Cardinality(matching.rightOnly),
         agreement |-> PositiveSpecificAgreement(matching),
         boundary  |-> BoundaryError(matching.pairs),
         kappa     |-> CohensKappa(classes),
         alpha     |-> KrippendorffsAlpha(classes),
         classes   |-> classes,
         perClass  |-> PerClass(classes, matching),
         roleKappa |-> CohensKappa(roles),
         perRole   |-> [r \in LabelsOf(roles) |-> SpecificAgreement(ForLabel(roles, r))],
         uncertain |-> <<UncertainCount(left), UncertainCount(right)>>,
         notes     |-> Notes(left, right, matching)]

-----------------------------------------------------------------------------
(* The annotators, in ELAN *)

Place(f, m) ==
    /\ f \in Written /\ m \notin files[f].marks
    /\ Cardinality(files[f].marks) < MaxMarks[f]
    /\ files' = [files EXCEPT ![f].marks = @ \union {m}]
    /\ outcome' = Nothing

Transcribe(f, words) ==
    /\ f \in Written /\ files[f].words # words
    /\ files' = [files EXCEPT ![f].words = words]
    /\ outcome' = Nothing

-----------------------------------------------------------------------------
(* The commands: cli/main.py *)

\* A template overwrites the file it is written to.
Template(f, header) ==
    /\ files' = [files EXCEPT ![f] = [annotator |-> header.annotator, recording |-> header.recording,
                                      speaker |-> header.speaker, pass |-> header.pass,
                                      taxonomy |-> header.taxonomy, written |-> TRUE,
                                      marks |-> {}, words |-> {}]]
    /\ outcome' = [command |-> "template", exit |-> 0]

Reads(F) == \A f \in F : Verdict(files[f]) = "read"

Read(f) == ReadBack(f, files[f])

\* All files are read before any is checked; errors fail the command.
Validate(F) ==
    /\ F # {} /\ F \subseteq Written
    /\ LET reports == [f \in F |-> ValidationOf(Read(f))]
       IN  outcome' = IF ~Reads(F)
                      THEN [command |-> "validate", exit |-> 1]
                      ELSE [command |-> "validate", reports |-> reports,
                            exit |-> IF \A f \in F : IsUsable(reports[f]) THEN 0 ELSE 1]
    /\ UNCHANGED files

Agreement(f, g, criterion) ==
    /\ {f, g} \subseteq Written
    /\ outcome' = IF Reads({f, g}) /\ Comparable(Read(f), Read(g))
                  THEN [command |-> "agreement", left |-> f, right |-> g, criterion |-> criterion,
                        exit |-> 0, report |-> Compare(Read(f), Read(g), criterion)]
                  ELSE [command |-> "agreement", exit |-> 1]
    /\ UNCHANGED files

Next ==
    \/ \E f \in Annotators : \/ \E header \in Headers[f] : Template(f, header)
                             \/ \E m \in RawMarks : Place(f, m)
                             \/ \E words \in WordTiers : Transcribe(f, words)
    \/ \E F \in SUBSET Annotators : Validate(F)
    \/ \E f, g \in Annotators, criterion \in {"iou", "midpoint_tolerance"} :
           Agreement(f, g, criterion)

Spec == Init /\ [][Next]_vars

-----------------------------------------------------------------------------
(***************************************************************************)
(* Properties.                                                             *)
(***************************************************************************)

Validated == outcome.command = "validate" /\ "reports" \in DOMAIN outcome
Compared == outcome.command = "agreement" /\ "report" \in DOMAIN outcome

NonCrossing(pairs) == \A p, q \in pairs : p = q \/ (p[1] < q[1] /\ p[2] < q[2])
                                                \/ (q[1] < p[1] /\ q[2] < p[2])

ScoreOf(weights, pairs) == SumFunctionOnSet(weights, pairs)

(* The matching is optimal under the non-crossing constraint (matching.py):*)
(* it pairs admissible events, in time order, and no set of admissible     *)
(* pairs that does not cross scores more, whatever the dynamic program and *)
(* its walk back did with ties.                                            *)
MatchingIsOptimal ==
    Compared =>
        LET left    == Ordered(files[outcome.left].marks)
            right   == Ordered(files[outcome.right].marks)
            weights == Weights(left, right, outcome.criterion)
            pairs   == Match(files[outcome.left].marks, files[outcome.right].marks,
                             outcome.criterion).pairs
            chosen  == {p \in DOMAIN weights :
                           \E k \in DOMAIN pairs : pairs[k] = <<left[p[1]], right[p[2]]>>}
        IN  /\ Cardinality(chosen) = Len(pairs) /\ NonCrossing(chosen)
            /\ \A other \in SUBSET DOMAIN weights :
                   NonCrossing(other) => ScoreOf(weights, other) <= ScoreOf(weights, chosen)

(* Every event is counted once for its class and its annotator: matched    *)
(* with the class, matched with another, or found by one of them only.  A  *)
(* class one annotator never noticed does not look agreed (report.py).     *)
EveryEventIsCounted ==
    Compared =>
        \A c \in Published :
            LET row == IF c \in DOMAIN outcome.report.perClass
                       THEN outcome.report.perClass[c]
                       ELSE [both |-> 0, leftOnly |-> 0, rightOnly |-> 0]
                placed(f) == Cardinality({m \in files[f].marks : m.class = c})
            IN  /\ row.both + row.leftOnly = placed(outcome.left)
                /\ row.both + row.rightOnly = placed(outcome.right)

(* The coefficients are undefined, not zero, where they cannot say how     *)
(* much is chance; defined, they never exceed 1, and they are 1 exactly    *)
(* when every matched event has one label (measures.py).                   *)
CoefficientsAreSound ==
    Compared =>
        LET matrix == outcome.report.classes
            sound(c) == c # Undefined =>
                            /\ c[2] > 0 /\ c[1] <= c[2]
                            /\ c[1] = c[2] <=> Agreements(matrix) = Total(matrix)
            single == Total(matrix) < 2 \/ Cardinality(LabelsOf(matrix)) = 1
        IN  /\ sound(outcome.report.kappa) /\ sound(outcome.report.alpha)
            /\ (outcome.report.kappa = Undefined) = single
            /\ (outcome.report.alpha = Undefined) = single

(* What the report of a file says of overlaps within a class. *)
Reported(f) == {e[2] : e \in {x \in outcome.reports[f].errors : x[1] = "overlapping_same_class"}}

\* Two annotations that cannot both be right, in time order.
Clash(m, n) == m.class = n.class /\ InTime(m, n) /\ Overlaps(m, n)

(* Only neighbours in time are compared, and yet no class with an overlap  *)
(* passes: two annotations of one class that share an instant are reported *)
(* where the second starts, or an earlier pair of the class is, so that    *)
(* the first overlap of a class is always named; and every pair reported   *)
(* does overlap within its class (validation.py, _same_class_overlaps).    *)
OverlapsAreFound ==
    Validated =>
        \A f \in DOMAIN outcome.reports :
            /\ \A p \in Reported(f) : Clash(p[1], p[2])
            /\ \A m, n \in files[f].marks :
                   Clash(m, n) =>
                       \E p \in Reported(f) :
                           p[2].class = n.class /\ (p[2] = n \/ InTime(p[2], n))

-----------------------------------------------------------------------------
(***************************************************************************)
(* What the code's comments and tests say and the code does not do.        *)
(***************************************************************************)

(* matching.py: the agreement on finding events is "symmetric under        *)
(* swapping them"; its test: "swapping them cannot change it".             *)
AgreementIsSymmetric ==
    Compared =>
        Compare(Read(outcome.right), Read(outcome.left), outcome.criterion).agreement
            = outcome.report.agreement

(* validation.py: "Two annotations of one class cannot occupy the same     *)
(* instant".  Of one from 0 to 4, one from 1 to 2 and one from 2 to 4 the  *)
(* overlap of the first and the third is not reported.                     *)
EveryOverlapIsReported ==
    Validated =>
        \A f \in DOMAIN outcome.reports :
            \A m, n \in files[f].marks : Clash(m, n) => \E p \in Reported(f) : p[2] = n

(* records.py: an adjudicated file "is excluded from agreement computation *)
(* by construction".                                                       *)
AdjudicatedIsExcluded ==
    Compared => "adjudicated" \notin {files[outcome.left].pass, files[outcome.right].pass}

=============================================================================
