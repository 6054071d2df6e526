---------------------------- MODULE ChunkArrival ----------------------------
(***************************************************************************)
(* What a session promises about the numbered chunks of one modality,      *)
(* whatever the order they arrive in: the first arrival of a number is     *)
(* new, every other is a redelivery, and when the session closes the lost  *)
(* chunks are exactly the numbers below the greatest arrival that never    *)
(* came.                                                                   *)
(***************************************************************************)
EXTENDS Integers

CONSTANT Chunks  \* the sequence numbers a client uses

VARIABLES arrived, redelivered, outcome, lost, closed

vars == <<arrived, redelivered, outcome, lost, closed>>

Init ==
    /\ arrived = {}
    /\ redelivered = 0
    /\ outcome = "none"
    /\ lost = {}
    /\ closed = FALSE

Arrive(n) ==
    /\ ~closed
    /\ n \notin arrived
    /\ arrived' = arrived \cup {n}
    /\ outcome' = "new"
    /\ UNCHANGED <<redelivered, lost, closed>>

Redeliver(n) ==
    /\ ~closed
    /\ n \in arrived
    /\ redelivered' = redelivered + 1
    /\ outcome' = "redelivered"
    /\ UNCHANGED <<arrived, lost, closed>>

Close ==
    /\ ~closed
    /\ closed' = TRUE
    /\ lost' = {n \in Chunks \ arrived : \E later \in arrived : n < later}
    /\ UNCHANGED <<arrived, redelivered, outcome>>

Next ==
    \/ \E n \in Chunks : Arrive(n) \/ Redeliver(n)
    \/ Close

Spec == Init /\ [][Next]_vars

=============================================================================
