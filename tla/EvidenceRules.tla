---------------------------- MODULE EvidenceRules ----------------------------
(***************************************************************************)
(* What turns the hypotheses of the runtimes into published evidence:      *)
(* intervals, calibrated confidence, the rules of speech and visual        *)
(* events, the gate of the optional classes, the availability of windows   *)
(* and the pairing of events that happened together.                       *)
(*                                                                         *)
(* Scores, probabilities and thresholds are percentages.                   *)
(***************************************************************************)
EXTENDS Orderings, SequencesExt, FiniteSetsExt

CONSTANTS
    Curves,     \* the fitted curve of a class, where it has one: points
                \* <<raw score, probability>>
    Bucket,     \* POSITION_BUCKET_MS
    DigestOf    \* where the hash of an identifier sorts

\* Two identifiers that collide would share a row before they shared an order.
ASSUME IdentifiersAssumption ==
    /\ Bucket \in Nat \ {0}
    /\ \A i, j \in DOMAIN DigestOf :
          DigestOf[i] \in Int /\ (DigestOf[i] = DigestOf[j] => i = j)

GazeClasses     == {"gaze_toward_camera", "gaze_away_from_camera"}
OptionalClasses == {"self_touch", "repetitive_hand_movement"}
LexicalClasses  == {"lexical_filler", "repetition", "false_start", "self_repair"}

OptionalMinimum == 75    \* OPTIONAL_CLASS_MIN_CONFIDENCE
MinFaceVisibility == 50
MinLuminance == 15
MinFraming == 60

Absent == "absent"

-----------------------------------------------------------------------------
(* Intervals: domain/shared/timeline.py *)

IsInterval(x) == 0 <= x.start /\ x.start <= x.end

Overlap(x, y) == x.start < y.end /\ y.start < x.end

\* Variant: the distance is taken between the beginnings.
GapBetweenStarts(x, y) == IF x.start < y.start THEN y.start - x.start ELSE x.start - y.start

GapTo(x, y) ==
    IF Overlap(x, y) THEN 0
    ELSE IF x.end <= y.start THEN y.start - x.end
    ELSE x.start - y.end

-----------------------------------------------------------------------------
(* Confidence and its calibration *)

Within(low, high, value) == Min({Max({low, value}), high})

\* The points bracket the clamped score: piecewise linear between them.
ApplyCurve(points, raw) ==
    LET x == Within(points[1][1], Last(points)[1], raw)
        k == Min({n \in 1 .. Len(points) - 1 : points[n][1] <= x /\ x <= points[n + 1][1]})
        run  == points[k + 1][1] - points[k][1]
        rise == points[k + 1][2] - points[k][2]
    IN  IF run = 0 THEN points[k + 1][2]
        ELSE points[k][2] + ((x - points[k][1]) * rise) \div run

\* CalibrationCurve.__post_init__
IsCurve(points) ==
    /\ Len(points) >= 2
    /\ \A n \in 1 .. Len(points) - 1 :
           points[n][1] <= points[n + 1][1] /\ points[n][2] <= points[n + 1][2]
    /\ \A n \in DOMAIN points : points[n][2] \in 0 .. 100

ASSUME CurvesAreFitted ==
    \A class \in DOMAIN Curves : Curves[class] \in Seq(Int \X Int) /\ IsCurve(Curves[class])

\* A class without a curve keeps its raw score, and says so.
Calibrate(class, score) ==
    IF class \in DOMAIN Curves
    THEN [value |-> Within(0, 100, ApplyCurve(Curves[class], score)), calibrated |-> TRUE]
    ELSE [value |-> Within(0, 100, score), calibrated |-> FALSE]

\* Variant: a raw score clears a threshold like any other.
MeetsRaw(confidence, threshold) == confidence.value >= threshold

Meets(confidence, threshold) == confidence.calibrated /\ confidence.value >= threshold

-----------------------------------------------------------------------------
(* Events: their identifiers, and what their constructors accept *)

EventId(class, start, discriminator) == <<class, start \div Bucket, discriminator>>

\* A lexical class arriving without a role is uncertain; others have none.
RoleFor(h) ==
    IF h.class \notin LexicalClasses THEN Absent
    ELSE IF h.role = Absent THEN "uncertain"
    ELSE h.role

SpeechEventOf(h) ==
    [id |-> EventId(h.class, h.start, h.text), class |-> h.class, start |-> h.start,
     end |-> h.end, confidence |-> Calibrate(h.class, h.score), text |-> h.text,
     role |-> RoleFor(h)]

IsSpeechEvent(e) == IsInterval(e) /\ (e.class \in LexicalClasses => e.text # "")

VisualEventOf(h) ==
    [id |-> EventId(h.class, h.start, ""), class |-> h.class, start |-> h.start,
     end |-> h.end, confidence |-> Calibrate(h.class, h.score), direction |-> h.direction]

IsVisualEvent(e) ==
    /\ IsInterval(e)
    /\ e.class \in GazeClasses <=> e.direction # Absent
    /\ e.class \in OptionalClasses => Meets(e.confidence, OptionalMinimum)

-----------------------------------------------------------------------------
(* The gate and the availability of windows: services/visual_assembly.py *)

PassesGate(h, gate) ==
    h.class \in OptionalClasses => Meets(Calibrate(h.class, h.score), gate)

\* Most specific first: the reason is the one that can be acted on.
AvailabilityOf(signal) ==
    [start  |-> signal.start,
     end    |-> signal.end,
     reason |-> IF signal.face < MinFaceVisibility THEN "subject_not_observable"
                ELSE IF signal.luminance < MinLuminance \/ signal.framing < MinFraming
                     THEN "quality_below_threshold"
                ELSE Absent]

IsUnusable(record) == record.reason # Absent

(* What assemble makes of one result.  A constructor that refuses an event *)
(* or a window lets nothing of the batch through.                          *)
AssembleVisual(result, gate) ==
    LET passing == Those(result.events, {n \in DOMAIN result.events : PassesGate(result.events[n], gate)})
        events  == [n \in DOMAIN passing |-> VisualEventOf(passing[n])]
    IN  [raises   |-> \/ \E n \in DOMAIN events : ~IsVisualEvent(events[n])
                      \/ \E n \in DOMAIN result.quality : ~IsInterval(result.quality[n]),
         events   |-> events,
         windows  |-> [n \in DOMAIN result.quality |-> AvailabilityOf(result.quality[n])],
         gatedOut |-> Len(result.events) - Len(passing)]

-----------------------------------------------------------------------------
(* The quality report: domain/quality/assessment.py.  An availability      *)
(* record is of the video, the only modality that writes them.             *)

Overlapping(records, window) == {n \in DOMAIN records : Overlap(records[n], window)}

\* Variant: one usable record speaks for the window.
IsUsableSomewhere(records, window) ==
    \E n \in Overlapping(records, window) : ~IsUnusable(records[n])

IsUsable(records, window) ==
    /\ Overlapping(records, window) # {}
    /\ \A n \in Overlapping(records, window) : ~IsUnusable(records[n])

\* The first record that refuses gives the reason.
UnavailabilityFor(records, window) ==
    LET refusing == {n \in Overlapping(records, window) : IsUnusable(records[n])}
    IN  IF refusing # {} THEN records[Min(refusing)].reason
        ELSE IF records = <<>> THEN "modality_not_captured"
        ELSE Absent

-----------------------------------------------------------------------------
(* Fusion: services/fusion.py, domain/evidence/cooccurrence.py *)

InOrder(e, f) ==
    \/ e.start < f.start
    \/ e.start = f.start /\ e.end < f.end
    \/ e.start = f.start /\ e.end = f.end /\ DigestOf[e.id] < DigestOf[f.id]

\* The order of one loop inside another.
Lexicographic(p, q) == p[1] < q[1] \/ (p[1] = q[1] /\ p[2] < q[2])

Pair(e, f, width) ==
    [speech |-> e.id, visual |-> f.id, distance |-> GapTo(e, f), width |-> width]

\* Every admissible pair, by the speech event and then by the visual event.
Correlate(speech, visual, width) ==
    LET outer == Sorted(speech, InOrder)
        inner == Sorted(visual, InOrder)
        admitted == {p \in (1 .. Cardinality(speech)) \X (1 .. Cardinality(visual)) :
                        GapTo(outer[p[1]], inner[p[2]]) <= width}
        steps == Sorted(admitted, Lexicographic)
    IN  [n \in 1 .. Cardinality(admitted) |-> Pair(outer[steps[n][1]], inner[steps[n][2]], width)]

=============================================================================
