-------------------------- MODULE SessionLifecycle --------------------------
(***************************************************************************)
(* The AnalysisSession aggregate: its state machine, its clock and its     *)
(* consent receipt, as pure operators on a session record.                 *)
(*                                                                         *)
(* The aggregate is immutable in the code: an operation returns a new      *)
(* session or raises.  Each operation is therefore a pair of operators     *)
(* here: May<Op>(s), true exactly when the method does not raise, and      *)
(* <Op>(s, w), the session it returns at wall-clock reading w.             *)
(* Identifiers, tenant, locale, capabilities and configuration never       *)
(* change after creation and are left out.                                 *)
(***************************************************************************)
EXTENDS Integers

States == {"created", "capturing", "paused", "completing", "completed",
           "failed", "evidence_deleted"}

(* The transition table. *)
Allowed ==
    [created          |-> {"capturing", "failed", "evidence_deleted"},
     capturing        |-> {"paused", "completing", "failed"},
     paused           |-> {"capturing", "completing", "failed"},
     completing       |-> {"completed", "failed"},
     completed        |-> {"evidence_deleted"},
     failed           |-> {"evidence_deleted"},
     evidence_deleted |-> {}]

CanTransition(source, target) == target \in Allowed[source]

(***************************************************************************)
(* The session clock: captured milliseconds of the segments that ended,    *)
(* and the reading at which the running segment began (None in the code,   *)
(* Suspended here, while capture is suspended).                            *)
(***************************************************************************)
Suspended == -1

Clock == [accumulated : Nat, segment : Nat \cup {Suspended}]

IsRunning(c) == c.segment # Suspended

(* Variant: a resumed clock starts again from zero. *)
StartClockFromZero(c, w) == [accumulated |-> 0, segment |-> w]

StartClock(c, w) ==
    IF IsRunning(c) THEN c ELSE [c EXCEPT !.segment = w]

(* Variant: the operands of the difference swapped. *)
CapturedMsSwapped(c, w) ==
    IF IsRunning(c) THEN c.accumulated + (c.segment - w) ELSE c.accumulated

(* Total captured at reading w: max(0, _) as in the code. *)
CapturedMs(c, w) ==
    IF IsRunning(c) /\ w > c.segment THEN c.accumulated + (w - c.segment)
    ELSE c.accumulated

(* Variant: the segment is folded into the total and left open. *)
PauseClockLeftOpen(c, w) == [c EXCEPT !.accumulated = CapturedMs(c, w)]

PauseClock(c, w) == [accumulated |-> CapturedMs(c, w), segment |-> Suspended]

(***************************************************************************)
(* The aggregate.  Every session is stored with its receipt attached, so   *)
(* the receipt is "active" or "withdrawn" and never absent.                *)
(***************************************************************************)
Sessions == [state : States, clock : Clock, consent : {"active", "withdrawn"}]

NewSession ==
    [state   |-> "created",
     clock   |-> [accumulated |-> 0, segment |-> Suspended],
     consent |-> "active"]

ConsentActive(s) == s.consent = "active"

(* Variant: consent is checked, the transition is not. *)
MayBeginCaptureAnywhere(s) == ConsentActive(s)

MayBeginCapture(s) == ConsentActive(s) /\ CanTransition(s.state, "capturing")

BeginCapture(s, w) ==
    [s EXCEPT !.state = "capturing", !.clock = StartClock(@, w)]

MayPauseCapture(s) == CanTransition(s.state, "paused")

PauseCapture(s, w) ==
    [s EXCEPT !.state = "paused", !.clock = PauseClock(@, w)]

MayResumeCapture(s) == ConsentActive(s) /\ CanTransition(s.state, "capturing")

ResumeCapture(s, w) ==
    [s EXCEPT !.state = "capturing", !.clock = StartClock(@, w)]

MayRequestCompletion(s) == CanTransition(s.state, "completing")

(* Variant: the clock stops with mark_completed, so never. *)
RequestCompletionClockRuns(s, w) == [s EXCEPT !.state = "completing"]

RequestCompletion(s, w) ==
    [s EXCEPT !.state = "completing", !.clock = PauseClock(@, w)]

MayMarkCompleted(s) == CanTransition(s.state, "completed")

MarkCompleted(s) == [s EXCEPT !.state = "completed"]

MayMarkEvidenceDeleted(s) == CanTransition(s.state, "evidence_deleted")

MarkEvidenceDeleted(s) ==
    [s EXCEPT !.state = "evidence_deleted", !.consent = "withdrawn"]

=============================================================================
