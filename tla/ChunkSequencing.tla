--------------------------- MODULE ChunkSequencing ---------------------------
(***************************************************************************)
(* The ChunkLedger of one modality of one session: loss, duplication and   *)
(* reordering, told apart by sequence number alone.  The transport may     *)
(* deliver any chunk at any time, more than once, or never.                *)
(***************************************************************************)
EXTENDS Integers, FiniteSets, SequencesExt

CONSTANTS
    MaxSeq,        \* bound on the sequence numbers
    MaxDuplicates  \* bound on the redeliveries

ASSUME BoundsAssumption == MaxSeq \in Nat /\ MaxDuplicates \in Nat

Chunks == 0 .. MaxSeq

VARIABLES
    highest,     \* highest number accepted, -1 before the first chunk
    seenAhead,   \* numbers that arrived ahead of the expected one
    accepted,    \* numbers accepted
    duplicates,  \* redeliveries counted
    verdict,     \* what the last offer returned
    gaps,        \* runs confirmed missing at the close
    closed       \* whether finalize has run

vars == <<highest, seenAhead, accepted, duplicates, verdict, gaps, closed>>

Init ==
    /\ highest = -1
    /\ seenAhead = {}
    /\ accepted = {}
    /\ duplicates = 0
    /\ verdict = "none"
    /\ gaps = <<>>
    /\ closed = FALSE

(* _accept. *)
Accept(n) ==
    /\ accepted' = accepted \cup {n}
    /\ highest' = IF n > highest THEN n ELSE highest

(* _drain_ahead: where the highest number stands once every number ahead   *)
(* that follows it without a hole has been passed.                         *)
Drained(h) ==
    CHOOSE k \in h .. MaxSeq :
        (h + 1) .. k \subseteq seenAhead /\ (k + 1) \notin seenAhead

OfferDuplicate(n) ==
    /\ n \in accepted
    /\ duplicates < MaxDuplicates
    /\ duplicates' = duplicates + 1
    /\ verdict' = "duplicate"
    /\ UNCHANGED <<highest, seenAhead, accepted>>

(* The expected number: accept it, then drain what arrived ahead of it. *)
OfferExpected(n) ==
    /\ n \notin accepted
    /\ n = highest + 1
    /\ accepted' = accepted \cup {n}
    /\ highest' = Drained(n)
    /\ seenAhead' = seenAhead \ ((n + 1) .. highest')
    /\ verdict' = "accepted"
    /\ UNCHANGED duplicates

(* An early chunk leaves a gap open, but is accepted like any other. *)
OfferAhead(n) ==
    /\ n \notin accepted
    /\ n > highest + 1
    /\ seenAhead' = seenAhead \cup {n}
    /\ Accept(n)
    /\ verdict' = "gap_detected"
    /\ UNCHANGED duplicates

OfferLate(n) ==
    /\ n \notin accepted
    /\ n < highest + 1
    /\ Accept(n)
    /\ verdict' = "out_of_order"
    /\ UNCHANGED <<seenAhead, duplicates>>

Offer(n) ==
    /\ ~closed
    /\ \/ OfferDuplicate(n) \/ OfferExpected(n)
       \/ OfferAhead(n) \/ OfferLate(n)
    /\ UNCHANGED <<gaps, closed>>

(* Variant: a run ends at every number. *)
ExtendNever(runs, n) == Append(runs, [first |-> n, last |-> n])

(* _collapse, on one more missing number: it extends the last run, or      *)
(* begins another.                                                         *)
Extend(runs, n) ==
    IF runs # <<>> /\ n = Last(runs).last + 1
    THEN [runs EXCEPT ![Len(runs)].last = n]
    ELSE Append(runs, [first |-> n, last |-> n])

(* _collapse, on the missing numbers in increasing order: runs[n] are      *)
(* those of the numbers below n.                                           *)
Collapse(missing) ==
    LET runs[n \in 0 .. MaxSeq + 1] ==
            IF n = 0 THEN <<>>
            ELSE IF n - 1 \in missing THEN Extend(runs[n - 1], n - 1)
            ELSE runs[n - 1]
    IN  runs[MaxSeq + 1]

(* Variant: an upper bound one too far. *)
MissingOneFurther == (0 .. highest + 1) \ accepted

Missing == (0 .. highest) \ accepted

(* finalize, which completion calls once per ledger as the session closes. *)
Finalize ==
    /\ ~closed
    /\ closed' = TRUE
    /\ gaps' = Collapse(Missing)
    /\ UNCHANGED <<highest, seenAhead, accepted, duplicates, verdict>>

GapCount(gap) == gap.last - gap.first + 1

MissingCount ==
    LET upTo[k \in 0 .. Len(gaps)] ==
            IF k = 0 THEN 0 ELSE upTo[k - 1] + GapCount(gaps[k])
    IN  upTo[Len(gaps)]

Next == (\E n \in Chunks : Offer(n)) \/ Finalize

Spec == Init /\ [][Next]_vars

-----------------------------------------------------------------------------
TypeOK ==
    /\ highest \in Chunks \cup {-1}
    /\ seenAhead \subseteq Chunks
    /\ accepted \subseteq Chunks
    /\ duplicates \in 0 .. MaxDuplicates
    /\ verdict \in {"none", "accepted", "duplicate", "gap_detected", "out_of_order"}
    /\ gaps \in Seq([first : Chunks, last : Chunks])
    /\ closed \in BOOLEAN

(* The highest number is that of the greatest chunk accepted, in whatever  *)
(* order the chunks came: it is the denominator of the loss ratio, and the *)
(* bound below which finalize looks for gaps (sequencing.py, _accept).     *)
HighestIsGreatest ==
    IF accepted = {} THEN highest = -1
    ELSE highest \in accepted /\ \A n \in accepted : n <= highest

(* A chunk that came early is accepted at once, so a later redelivery of   *)
(* it is a duplicate and _drain_ahead never has a number to advance to.    *)
AheadIsAccepted == \A n \in seenAhead : n \in accepted /\ n <= highest

(* The confirmed gaps are the maximal runs of missing numbers, in order    *)
(* and apart, whatever order the chunks arrived in: a reordered network is *)
(* never reported as loss, each loss names the whole stretch once, and the *)
(* lengths add up to the numerator of the loss ratio (finalize, _collapse, *)
(* missing_count).                                                         *)
GapsAreMaximalRuns ==
    closed =>
        /\ UNION {gaps[i].first .. gaps[i].last : i \in DOMAIN gaps} = Missing
        /\ \A i \in DOMAIN gaps :
              /\ gaps[i].first <= gaps[i].last
              /\ gaps[i].first = 0 \/ gaps[i].first - 1 \in accepted
              /\ gaps[i].last + 1 \in accepted
        /\ \A i, j \in DOMAIN gaps : i < j => gaps[i].last < gaps[j].first
        /\ MissingCount = Cardinality(Missing)

(* The ledger implements the abstract account of arrivals. *)
Arrival == INSTANCE ChunkArrival WITH
    arrived <- accepted,
    redelivered <- duplicates,
    outcome <- CASE verdict = "none" -> "none"
                 [] verdict = "duplicate" -> "redelivered"
                 [] OTHER -> "new",
    lost <- UNION {gaps[i].first .. gaps[i].last : i \in DOMAIN gaps}

ImplementsArrival == Arrival!Spec

=============================================================================
