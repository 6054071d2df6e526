---------------------------- MODULE AnnotationFiles ----------------------------
(***************************************************************************)
(* The files annotators keep and what the corpus package makes of one:     *)
(* the ELAN reader (io/elan.py), the rules of the canonical record         *)
(* (schema/records.py) and the validator (schema/validation.py).           *)
(*                                                                         *)
(* A file is what its tiers hold: marks on the disfluency tier, each with  *)
(* what the role and text tiers attach to it, and words.  An edge whose    *)
(* time slot carries no value is NoTime.  Texts are sets of tokens.        *)
(***************************************************************************)
EXTENDS Orderings, FiniteSetsExt, SequencesExt

CONSTANTS
    Annotators,    \* one file each, named for its annotator
    Headers,       \* the header `corpus template` is asked for, by file
    Pseudonyms,    \* the speaker names that do not look like an identifier
    RawMarks,      \* what an annotator may place on the disfluency tier
    WordTiers,     \* what an annotator may transcribe on the words tier
    Punctuated,    \* the tokens that hold an orthographic mark
    MaxMarks       \* bound: marks in a file

NoTime == -1    \* a time slot without TIME_VALUE
Absent == "absent"

ASSUME MarksAssumption ==
    \A m \in RawMarks : {m.start, m.end} \subseteq Nat \union {NoTime}

Lexical == {"lexical_filler", "repetition", "false_start", "self_repair"}

\* The published classes, in the order of their values: what a sort compares.
ClassOrder == <<"cut_off", "false_start", "filled_pause", "lexical_filler", "prolongation",
                "repetition", "self_repair", "silent_pause", "unintelligible">>

Published == ToSet(ClassOrder)

Rank(class) == CHOOSE n \in DOMAIN ClassOrder : ClassOrder[n] = class

Passes == {"first", "second", "adjudicated"}

ContextualRoles == {"filler", "semantic", "discourse_marker", "uncertain"}

-----------------------------------------------------------------------------
(* Spans and annotations: schema/records.py *)

IsSpan(s) == s.start >= 0 /\ s.end > s.start

Length(s) == s.end - s.start

Overlaps(s, t) == s.start < t.end /\ t.start < s.end

Intersection(s, t) == Max({0, Min({s.end, t.end}) - Max({s.start, t.start})})

Union(s, t) == Length(s) + Length(t) - Intersection(s, t)

\* A role is required of the lexical classes, with their text, and forbidden to the rest.
RoleRules(m) ==
    IF m.class \in Lexical THEN m.text # {} /\ m.role # Absent ELSE m.role = Absent

IsUncertain(m) == m.role = "uncertain"

UncertainCount(recording) == Cardinality({m \in recording.marks : IsUncertain(m)})

-----------------------------------------------------------------------------
(* Reading: io/elan.py.  "refused" is an ElanError, which the command      *)
(* reports; "raised" is any other exception, which ends it in a traceback. *)

Aligned(items) == \A x \in items : x.start # NoTime /\ x.end # NoTime

\* What _to_disfluency accepts: a published class, a known role, the rules.
IsDisfluency(m) ==
    /\ m.class \in Published
    /\ m.role \in ContextualRoles \union {Absent}
    /\ IsSpan(m)
    /\ RoleRules(m)

IsWord(w) == w.text # Absent /\ IsSpan(w)

\* Every time slot that has a value is the edge of something on a tier.
DurationOf(file) ==
    Max({0} \union UNION {{x.start, x.end} : x \in file.marks \union file.words})

\* The first check that fails decides.
Verdict(file) ==
    IF file.annotator = Absent \/ ~Aligned(file.words) THEN "refused"
    ELSE IF \E w \in file.words : ~IsWord(w) THEN "raised"
    ELSE IF \/ ~Aligned(file.marks) \/ \E m \in file.marks : ~IsDisfluency(m)
            \/ DurationOf(file) = 0 \/ file.speaker = Absent
    THEN "refused"
    ELSE IF file.speaker \notin Pseudonyms \/ file.pass \notin Passes \union {Absent} THEN "raised"
    ELSE "read"

\* The canonical record; a file without a recording id is its own recording, and one
\* without a pass is a first one.
ReadBack(f, file) ==
    [recording |-> IF file.recording = Absent THEN f ELSE file.recording,
     annotator |-> file.annotator,
     speaker   |-> file.speaker,
     pass      |-> IF file.pass = Absent THEN "first" ELSE file.pass,
     taxonomy  |-> file.taxonomy,
     duration  |-> DurationOf(file),
     words     |-> file.words,
     marks     |-> file.marks]

-----------------------------------------------------------------------------
(* Validating: schema/validation.py *)

\* sorted(..., key=(start, end)), of one class or of words
InTime(s, t) == s.start < t.start \/ (s.start = t.start /\ s.end < t.end)

\* pairwise(sorted(spans))
Neighbours(spans) ==
    LET ordered == Sorted(spans, InTime)
    IN  {<<ordered[n], ordered[n + 1]>> : n \in 1 .. Cardinality(spans) - 1}

Colliding(spans) == {p \in Neighbours(spans) : Overlaps(p[1], p[2])}

OfClass(recording, class) == {m \in recording.marks : m.class = class}

\* Variant: the annotations are not grouped by class.
AnyOverlaps(recording) == Colliding(recording.marks)

SameClassOverlaps(recording) == UNION {Colliding(OfClass(recording, c)) : c \in Published}

\* The quoted tokens that no word overlapping the annotation holds.
Unattested(recording, m) ==
    LET spoken == {w.text : w \in {v \in recording.words : Overlaps(v, m)}}
    IN  IF m.class \in Lexical /\ spoken # {} THEN m.text \ spoken ELSE {}

\* LOW_COVERAGE_RATIO is a fifth.
LowCoverage(recording) ==
    5 * MapThenSumSet(Length, recording.words) < recording.duration

\* A code with each thing it is found of: a pair, a word, a mark or the tier.
Findings(code, subjects) == {code} \X subjects

\* The words tier, where there is something to say of it.
Tier(condition) == IF condition THEN {"words"} ELSE {}

\* The findings by severity.
ErrorsOf(recording) ==
    Findings("overlapping_same_class", SameClassOverlaps(recording))
    \union Findings("no_transcription", Tier(recording.words = {}))

WarningsOf(recording) ==
    Findings("overlapping_words", Colliding(recording.words))
    \union Findings("orthographic_marks", {w \in recording.words : w.text \in Punctuated})
    \union Findings("unattested_expression", {m \in recording.marks : Unattested(recording, m) # {}})
    \union Findings("low_coverage", Tier(recording.words # {} /\ LowCoverage(recording)))

\* None where there is nothing lexical to abstain from.
Abstention(recording) ==
    LET lexical == {m \in recording.marks : m.class \in Lexical}
    IN  IF lexical = {} THEN <<>> ELSE <<UncertainCount(recording), Cardinality(lexical)>>

ValidationOf(recording) ==
    [errors     |-> ErrorsOf(recording),
     warnings   |-> WarningsOf(recording),
     abstention |-> Abstention(recording)]

IsUsable(report) == report.errors = {}

=============================================================================
