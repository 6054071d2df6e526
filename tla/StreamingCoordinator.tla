------------------------ MODULE StreamingCoordinator ------------------------
(***************************************************************************)
(* The streaming coordinator of one live session over the speech runtime   *)
(* the repository ships: audio windows in, provisional and final words,    *)
(* speech events and silent pauses out.                                    *)
(*                                                                         *)
(* The stream handler awaits each chunk before it reads the next, so the   *)
(* handling of one chunk is one action, and no chunk is ever refused for a *)
(* full queue: in_flight is 0 whenever a chunk is admitted.  The chunk     *)
(* ledger is the abstract one of ChunkArrival: the set of numbers that     *)
(* arrived.  A runtime may fail on any window.  One runtime serves every   *)
(* session of the process, so another session's stream may move it.  Words *)
(* may overlap, and a word that reaches behind the frozen part of the      *)
(* transcript ends the stream.                                             *)
(***************************************************************************)
EXTENDS Integers, FiniteSets

CONSTANTS
    Words,            \* what the speaker says: spans [start, end), no two alike
    Events,           \* the disfluencies in it, spans as well
    Ids,              \* derived event identifiers
    IdOf,             \* derive_event_id: positions are bucketed before hashing
    Windows,          \* audio chunks of the session, the last flagged final
    WindowLength,
    Tail,             \* how much of a window stays revisable
    SilenceThreshold,
    MaxFailures,      \* bound on the windows a runtime fails on
    MaxOthers         \* bound on the moves of the runtime by other sessions

Spans == [start : Nat, end : Nat]

ASSUME SpeechAssumption ==
    /\ Words \subseteq Spans /\ Events \subseteq Spans
    /\ \A w \in Words : w.start < w.end
    /\ \A e \in Events : e.start < e.end
    /\ IdOf \in [Events -> Ids]

ASSUME BoundsAssumption ==
    /\ Windows \in Nat \ {0} /\ WindowLength \in Nat \ {0} /\ Tail \in Nat
    /\ SilenceThreshold \in Nat \ {0}
    /\ MaxFailures \in Nat /\ MaxOthers \in Nat

Modalities == {"audio", "video"}
Chunks == 0 .. Windows - 1
Nothing == [start |-> 0, end |-> 0]
NoEvent == [event |-> Nothing, final |-> FALSE]

VARIABLES
    arrived,      \* chunks accepted, by modality
    last,         \* the last window the speech runtime answered, or -1
    furthest,     \* the furthest window it answered, or -1
    stable,       \* how far the runtime has declared its output stable
    finals,       \* words frozen in the transcript
    provisional,  \* words still revisable
    events,       \* speech_events: by identifier, with their final flag
    recorded,     \* the evidence ledger: the event recorded per identifier
    pauses,       \* silent pauses derived, final from the start
    degraded,     \* modalities that failed at least once
    notices,      \* degradation notices published, by modality
    failures, others,
    phase         \* "live", "completed", or "raised" by a transcript violation

transcript == <<finals, provisional>>
evidence   == <<events, recorded, pauses>>
runtime    == <<last, furthest, stable>>
health     == <<degraded, notices, failures>>
vars == <<arrived, runtime, transcript, evidence, health, others, phase>>

Init ==
    /\ arrived = [m \in Modalities |-> {}]
    /\ last = -1 /\ furthest = -1 /\ stable = 0
    /\ finals = {} /\ provisional = {}
    /\ events = [i \in Ids |-> NoEvent]
    /\ recorded = [i \in Ids |-> Nothing]
    /\ pauses = {}
    /\ degraded = {}
    /\ notices = [m \in Modalities |-> 0]
    /\ failures = 0 /\ others = 0
    /\ phase = "live"

(* The greater of two positions. *)
Later(a, b) == IF a > b THEN a ELSE b

WindowEnd(n) == (n + 1) * WindowLength

(***************************************************************************)
(* DeterministicSpeechRuntime: it emits its whole active region, from the  *)
(* last point it declared stable to the end of the window.                 *)
(***************************************************************************)

(* Variant: only what begins in the window. *)
ActiveNewOnly(spans, n) ==
    {s \in spans : s.start >= n * WindowLength /\ s.start < WindowEnd(n)}

(* Variant: from the beginning of the session. *)
ActiveFromStart(spans, n) == {s \in spans : s.start < WindowEnd(n)}

(* Variant: what ends where stability was declared is emitted again. *)
ActiveInclusive(spans, n) ==
    {s \in spans : s.end >= stable /\ s.start < WindowEnd(n)}

Active(spans, n) == {s \in spans : s.end > stable /\ s.start < WindowEnd(n)}

StableThrough(n) ==
    IF n = Windows - 1 THEN WindowEnd(n) ELSE Later(0, WindowEnd(n) - Tail)

(***************************************************************************)
(* The transcript.                                                         *)
(***************************************************************************)
FrontierOf(words) ==
    IF words = {} THEN 0
    ELSE CHOOSE f \in {w.end : w \in words} : \A w \in words : w.end <= f

Frontier == FrontierOf(finals)

(* with_provisional refuses a hypothesis behind the finalized frontier. *)
BehindFrontier(words) == \E w \in words : w.start < Frontier

(* Variant: a span that ends at the boundary is left for later. *)
SettledStrictly(spans, boundary) == {s \in spans : s.end < boundary}

Settled(spans, boundary) == {s \in spans : s.end <= boundary}

(* with_provisional then finalize_through: the tail is replaced wholesale, *)
(* and what ends by the boundary is promoted.                              *)
Transcribe(words, boundary) ==
    /\ finals' = finals \cup Settled(words, boundary)
    /\ provisional' = words \ Settled(words, boundary)

(* The order of a transcript, and of silent_pauses. *)
Precedes(v, w) == v.start < w.start \/ (v.start = w.start /\ v.end < w.end)

(* Variant: every pair of words far enough apart, not only neighbours.     *)
GapsBetweenAny(words) ==
    {[start |-> p[1].end, end |-> p[2].start] :
        p \in {q \in words \X words : q[1].end + SilenceThreshold <= q[2].start}}

(* silent_pauses: the gaps of at least the threshold between consecutive   *)
(* words, from the end of the one to the start of the other.               *)
Gaps(words) ==
    {[start |-> p[1].end, end |-> p[2].start] :
        p \in {q \in words \X words :
                  /\ q[1].end + SilenceThreshold <= q[2].start
                  /\ ~\E w \in words : Precedes(q[1], w) /\ Precedes(w, q[2])}}

(***************************************************************************)
(* Speech events.                                                          *)
(***************************************************************************)

(* Each emitted event replaces what its identifier held; two emitted with  *)
(* one identifier leave the later of them, in the order of the runtime.    *)
Held(kept) ==
    [i \in Ids |->
        IF i \in DOMAIN kept THEN [event |-> kept[i], final |-> FALSE]
        ELSE events[i]]

(* _finalize_through, for the events. *)
Finalized(held, boundary) ==
    [i \in Ids |->
        IF held[i] # NoEvent /\ held[i].event \in Settled({held[i].event}, boundary)
        THEN [held[i] EXCEPT !.final = TRUE]
        ELSE held[i]]

(* Variant: an identifier seen before is taken to be recorded. *)
RecordUnseen(settled) ==
    recorded' = [i \in Ids |->
        IF settled[i].final /\ events[i] = NoEvent THEN settled[i].event
        ELSE recorded[i]]

(* _record: an identifier already in the ledger keeps its first content. *)
Record(settled) ==
    recorded' = [i \in Ids |->
        IF settled[i].final /\ recorded[i] = Nothing THEN settled[i].event
        ELSE recorded[i]]

(* _derive_pauses: only from final words, once some event lends its        *)
(* provenance; a pause known by its start is not derived again.            *)
DerivePauses(settled) ==
    LET fresh == {g \in Gaps(finals') : ~\E p \in pauses : p.start = g.start}
    IN  pauses' = IF pauses # {} \/ \E i \in Ids : settled[i] # NoEvent
                  THEN pauses \cup fresh ELSE pauses

(* Nothing is finalized when the boundary is not beyond the frontier.      *)
Reconcile(words, held, boundary) ==
    IF boundary > Frontier
    THEN LET settled == Finalized(held, boundary)
         IN  /\ events' = settled
             /\ Record(settled)
             /\ Transcribe(words, boundary)
             /\ DerivePauses(settled)
    ELSE /\ events' = held
         /\ provisional' = words
         /\ UNCHANGED <<finals, recorded, pauses>>

(***************************************************************************)
(* The chunk handlers.                                                     *)
(***************************************************************************)
Offer(m, n) ==
    /\ phase = "live"
    /\ n \notin arrived[m]
    /\ arrived' = [arrived EXCEPT ![m] = @ \cup {n}]

(* A number that arrived before is counted and otherwise ignored. *)
Redelivered(m, n) ==
    /\ phase = "live"
    /\ n \in arrived[m]
    /\ UNCHANGED vars

(* The runtime answers; a word behind the frontier raises out of the       *)
(* handler, which ends without closing the run (handler.py, _run).         *)
IngestAudio(n) ==
    LET words == Active(Words, n)
        emitted == Active(Events, n)
        boundary == StableThrough(n)
    IN
    /\ Offer("audio", n)
    /\ last' = n
    /\ furthest' = Later(furthest, n)
    /\ stable' = Later(stable, boundary)
    /\ IF BehindFrontier(words)
       THEN phase' = "raised" /\ UNCHANGED <<transcript, evidence>>
       ELSE /\ \E kept \in [{IdOf[e] : e \in emitted} -> emitted] :
                /\ \A i \in DOMAIN kept : IdOf[kept[i]] = i
                /\ Reconcile(words, Held(kept), boundary)
            /\ UNCHANGED phase
    /\ UNCHANGED <<health, others>>

(* The vision runtime answers: nothing of the speech side changes. *)
IngestVideo(n) ==
    /\ Offer("video", n)
    /\ UNCHANGED <<runtime, transcript, evidence, health, others, phase>>

(* _degrade: the first failure of a modality is published, no other. *)
Notice(m) ==
    notices' = IF m \in degraded THEN notices ELSE [notices EXCEPT ![m] = @ + 1]

(* A runtime raises: the chunk counts as accepted all the same. *)
RuntimeFails(m, n) ==
    /\ failures < MaxFailures
    /\ Offer(m, n)
    /\ failures' = failures + 1
    /\ Notice(m)
    /\ degraded' = degraded \cup {m}
    /\ UNCHANGED <<runtime, transcript, evidence, others, phase>>

(* Another session's window moves the stable point of the shared runtime. *)
OtherStream(n) ==
    /\ others < MaxOthers
    /\ others' = others + 1
    /\ stable' = Later(stable, StableThrough(n))
    /\ UNCHANGED <<arrived, last, furthest, transcript, evidence, health, phase>>

(* session.complete: every event is finalized; the document keeps the      *)
(* words as they are.                                                      *)
Complete ==
    /\ phase = "live"
    /\ phase' = "completed"
    /\ events' = [i \in Ids |->
          IF events[i] = NoEvent THEN NoEvent ELSE [events[i] EXCEPT !.final = TRUE]]
    /\ UNCHANGED <<arrived, runtime, transcript, recorded, pauses, health, others>>

Next ==
    \/ \E n \in Chunks : IngestAudio(n) \/ IngestVideo(n) \/ OtherStream(n)
    \/ \E m \in Modalities, n \in Chunks : RuntimeFails(m, n) \/ Redelivered(m, n)
    \/ Complete

Spec == Init /\ [][Next]_vars

-----------------------------------------------------------------------------
Entries == {NoEvent} \cup [event : Events, final : BOOLEAN]

TypeOK ==
    /\ arrived \in [Modalities -> SUBSET Chunks]
    /\ last \in Chunks \cup {-1} /\ furthest \in Chunks \cup {-1}
    /\ stable \in Nat
    /\ finals \subseteq Words /\ provisional \subseteq Words \ finals
    /\ events \in [Ids -> Entries]
    /\ recorded \in [Ids -> Events \cup {Nothing}]
    /\ pauses \subseteq Spans
    /\ degraded \subseteq Modalities
    /\ notices \in [Modalities -> Nat]
    /\ failures \in 0 .. MaxFailures /\ others \in 0 .. MaxOthers
    /\ phase \in {"live", "completed", "raised"}

Overlap(v, w) == v.start < w.end /\ w.start < v.end

(* A transcript violation ends the stream only where two words overlap     *)
(* across a stability boundary, one frozen and one still revisable: no     *)
(* window, late, early or after a failure, and no other stream, makes the  *)
(* runtime offer a frozen word again or step behind the frontier otherwise *)
(* (transcript.py, with_provisional; deterministic.py, transcribe).        *)
RaisesOnlyAtOverlap ==
    phase = "raised" => \E v \in finals, w \in Words \ finals : Overlap(v, w)

(* No other session's stream has moved the runtime. *)
Undisturbed == others = 0

(* The frozen part of the transcript has no holes: every word that ends by *)
(* the frontier is final, although windows fail, are lost and come late    *)
(* (deterministic.py, transcribe; transcript.py, finalize_through).        *)
FrontierHasNoHoles ==
    Undisturbed => \A w \in Words : w.end <= Frontier => w \in finals

(* The last window answered was the furthest so far, and every word begun  *)
(* by the end of it is in the transcript: replacing the tail wholesale     *)
(* loses nothing, as long as the stream goes on (with_provisional).        *)
HoldsAllWords ==
    phase # "raised" /\ last = furthest /\ last >= 0 =>
        \A w \in Words : w.start < WindowEnd(last) => w \in finals \cup provisional

TranscriptIsWhole == Undisturbed => HoldsAllWords

(* The words that overlap no other. *)
Alone == {w \in Words : \A v \in Words \ {w} : ~Overlap(v, w)}

(* A published pause is silent: no word that stands alone is said in it,   *)
(* and none finalized later contradicts it (_derive_pauses, silent_pauses).*)
PausesAreSilent ==
    Undisturbed => \A p \in pauses, w \in Alone : ~Overlap(p, w)

(* An event that ends by the point declared stable is final, under its     *)
(* identifier, although finalization is skipped when the frontier of the   *)
(* words is already there (_finalize_through).                             *)
StableEventsAreFinal ==
    Undisturbed /\ phase # "raised" =>
        \A e \in Events :
            e.end <= stable => events[IdOf[e]] = [event |-> e, final |-> TRUE]

(* While the session is live, what the evidence ledger recorded is what    *)
(* the consumer was shown as final, one for one (_record).                 *)
LedgerMatchesFinals ==
    phase = "live" =>
        \A i \in Ids :
            recorded[i] = IF events[i].final THEN events[i].event ELSE Nothing

(* A finalized event is never withdrawn or changed, by no later window and *)
(* no completion ("finalized history is never rewritten").                 *)
FinalEventsStay ==
    [][\A i \in Ids : events[i].final => events'[i] = events[i]]_vars

-----------------------------------------------------------------------------
(* What the code's comments say and the code does not do: the runtime      *)
(* emits "everything from the last point it declared stable up to the end  *)
(* of the current window" (deterministic.py), whoever else uses it.        *)
WordsSurviveOtherStreams == HoldsAllWords

(* silent_pauses measures from the end of the word that starts last, not   *)
(* from the last end: a longer word that overlaps it is spoken in what is  *)
(* published as a silence ("the gaps between words", speech_assembly.py).  *)
NoWordInAPause ==
    Undisturbed => \A p \in pauses, w \in Words : ~Overlap(p, w)

=============================================================================
