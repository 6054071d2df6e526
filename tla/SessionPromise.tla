--------------------------- MODULE SessionPromise ---------------------------
(***************************************************************************)
(* What one session promises to whoever records it and reads its evidence: *)
(* captured time accrues while capturing and at no other time, evidence is *)
(* stored once capture has ended, a completed session reports evidence     *)
(* that is stored and the captured time it ended with, and what it reports *)
(* is final.                                                               *)
(***************************************************************************)
EXTENDS Integers

CONSTANTS
    Runs,       \* what evidence may come from
    Nothing     \* no report

VARIABLES
    stage,      \* where the session stands
    captured,   \* captured time of the stretches that ended
    evidence,   \* runs whose evidence is stored
    report,     \* the run and the captured time a reader is told
    recorded    \* the completion is in the audit log

vars == <<stage, captured, evidence, report, recorded>>

Init ==
    /\ stage = "created"
    /\ captured = 0
    /\ evidence = {}
    /\ report = Nothing
    /\ recorded = FALSE

(* Capture begins, or goes on from where it stopped. *)
Capture ==
    /\ stage \in {"created", "paused"}
    /\ stage' = "capturing"
    /\ UNCHANGED <<captured, evidence, report, recorded>>

Suspend ==
    /\ stage = "capturing"
    /\ stage' = "paused"
    /\ captured' >= captured
    /\ UNCHANGED <<evidence, report, recorded>>

Finish ==
    /\ stage \in {"capturing", "paused"}
    /\ stage' = "completing"
    /\ captured' >= captured
    /\ stage = "paused" => captured' = captured
    /\ UNCHANGED <<evidence, report, recorded>>

Store(r) ==
    /\ stage = "completing"
    /\ evidence' = evidence \cup {r}
    /\ UNCHANGED <<stage, captured, report, recorded>>

Publish ==
    /\ stage = "completing"
    /\ stage' = "completed"
    /\ \E r \in evidence : report' = [run |-> r, captured |-> captured]
    /\ UNCHANGED <<captured, evidence, recorded>>

Record ==
    /\ stage = "completed"
    /\ ~recorded
    /\ recorded' = TRUE
    /\ UNCHANGED <<stage, captured, evidence, report>>

Next ==
    \/ Capture \/ Suspend \/ Finish
    \/ \E r \in Runs : Store(r)
    \/ Publish \/ Record

Spec == Init /\ [][Next]_vars

=============================================================================
