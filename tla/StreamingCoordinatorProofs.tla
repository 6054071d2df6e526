--------------------- MODULE StreamingCoordinatorProofs ---------------------
(***************************************************************************)
(* Theorems about StreamingCoordinator, for any words, overlapping or not, *)
(* any events, any number and length of windows, any tail and threshold.   *)
(***************************************************************************)
EXTENDS StreamingCoordinator, WellFoundedInduction, TLAPS

-----------------------------------------------------------------------------
(* A bounded set of positions has a greatest one. *)

LEMMA LeastNatural ==
    ASSUME NEW T, T \subseteq Nat, T # {}
    PROVE  \E x \in T : \A y \in T : x <= y
  <1>1. PICK R : R = OpToRel(<, Nat)
    OBVIOUS
  <1>2. ASSUME NEW x \in Nat, NEW y \in Nat, ~(<<y, x>> \in R) PROVE x <= y
    <2>1. ~(y < x)
      BY <1>1, <1>2 DEF OpToRel
    <2>2. QED
      BY <2>1
  <1>3. IsWellFoundedOn(R, Nat)
    BY <1>1, NatLessThanWellFounded
  <1>4. PICK x \in T : \A y \in T : ~(<<y, x>> \in R)
    BY <1>3, WFMin
  <1>5. ASSUME NEW y \in T PROVE x <= y
    <2>1. x \in Nat /\ y \in Nat /\ ~(<<y, x>> \in R)
      BY <1>4
    <2>2. QED
      BY <2>1, <1>2, Zenon
  <1>6. QED
    BY <1>5

LEMMA GreatestNatural ==
    ASSUME NEW T, T \subseteq Nat, T # {}, NEW bound \in Nat, \A y \in T : y <= bound
    PROVE  \E x \in T : \A y \in T : y <= x
  <1>1. PICK Above : Above = {b \in Nat : \A y \in T : y <= b}
    OBVIOUS
  <1>2. Above \subseteq Nat /\ bound \in Above
    BY <1>1
  <1>3. PICK b \in Above : \A a \in Above : b <= a
    BY <1>2, LeastNatural
  <1>4. b \in Nat /\ \A y \in T : y <= b
    BY <1>1, <1>3
  <1>5. CASE b \in T
    BY <1>4, <1>5
  <1>6. CASE b \notin T
    <2>1. \A y \in T : y <= b - 1 /\ b - 1 \in Nat
      BY <1>4, <1>6
    <2>2. b - 1 \in Above
      BY <1>1, <2>1
    <2>3. b <= b - 1
      BY <1>3, <2>2
    <2>4. QED
      BY <1>4, <2>3
  <1>7. QED
    BY <1>5, <1>6
-----------------------------------------------------------------------------
(* Windows, boundaries and the frontier. *)

LEMMA WindowFacts ==
    ASSUME NEW n \in Chunks
    PROVE  /\ WindowEnd(n) \in Nat /\ StableThrough(n) \in Nat
           /\ StableThrough(n) <= WindowEnd(n)
  <1>1. n \in Nat /\ WindowLength \in Nat /\ Tail \in Nat
    BY BoundsAssumption DEF Chunks
  <1>2. WindowEnd(n) \in Nat
    BY <1>1 DEF WindowEnd
  <1>3. QED
    BY <1>1, <1>2 DEF StableThrough, Later

LEMMA WordFacts ==
    ASSUME NEW w \in Words
    PROVE  w.start \in Nat /\ w.end \in Nat /\ w.start < w.end
  BY SpeechAssumption DEF Spans

LEMMA FrontierFacts ==
    ASSUME NEW W, W \subseteq Words, NEW bound \in Nat, \A w \in W : w.end <= bound
    PROVE  /\ FrontierOf(W) \in Nat /\ FrontierOf(W) <= bound
           /\ \A w \in W : w.end <= FrontierOf(W)
           /\ W # {} => \E w \in W : w.end = FrontierOf(W)
  <1>1. CASE W = {}
    BY <1>1 DEF FrontierOf
  <1>2. CASE W # {}
    <2>1. PICK ends : ends = {w.end : w \in W}
      OBVIOUS
    <2>2. ends \subseteq Nat /\ ends # {} /\ \A e \in ends : e <= bound
      BY <1>2, <2>1, WordFacts
    <2>3. \E f \in ends : \A e \in ends : e <= f
      BY <2>2, GreatestNatural
    <2>4. \E f \in ends : \A w \in W : w.end <= f
      BY <2>1, <2>3
    <2>5. FrontierOf(W) = CHOOSE f \in ends : \A w \in W : w.end <= f
      BY <1>2, <2>1 DEF FrontierOf
    <2>6. FrontierOf(W) \in ends /\ \A w \in W : w.end <= FrontierOf(W)
      BY <2>4, <2>5
    <2>7. QED
      BY <2>1, <2>2, <2>6
  <1>3. QED
    BY <1>1, <1>2

-----------------------------------------------------------------------------
(* The words: what is final is stable, and the other way round as long as  *)
(* no other stream declares stable what this one never said, and no word   *)
(* behind the frontier ended the stream.                                   *)

WInv ==
    /\ TypeOK
    /\ \A w \in finals : w.end <= stable
    /\ Undisturbed /\ phase # "raised"
          => \A w \in Words : w.end <= stable => w \in finals
    /\ FrontierHasNoHoles
    /\ TranscriptIsWhole
    /\ PausesAreSilent
    /\ RaisesOnlyAtOverlap

LEMMA FrontierIsStable ==
    ASSUME WInv
    PROVE  Frontier \in Nat /\ Frontier <= stable
  BY FrontierFacts DEF WInv, TypeOK, Frontier

(* A word the runtime offers ends beyond what is stable: where it begins   *)
(* behind the frontier, it overlaps the last final word.                   *)
LEMMA BehindMeansOverlap ==
    ASSUME WInv, NEW n \in Chunks, BehindFrontier(Active(Words, n))
    PROVE  \E v \in finals, w \in Words \ finals : Overlap(v, w)
  <1>1. PICK w \in Active(Words, n) : w.start < Frontier
    BY DEF BehindFrontier
  <1>2. w \in Words /\ w.end > stable /\ stable \in Nat
    BY DEF Active, WInv, TypeOK
  <1>3. finals \subseteq Words /\ \A f \in finals : f.end <= stable
    BY DEF WInv, TypeOK
  <1>4. Frontier \in Nat /\ (finals # {} => \E f \in finals : f.end = Frontier)
    BY <1>2, <1>3, FrontierFacts DEF Frontier
  <1>5. finals # {}
    BY <1>1, <1>2, WordFacts DEF Frontier, FrontierOf
  <1>6. PICK f \in finals : f.end = Frontier
    BY <1>4, <1>5
  <1>7. w \notin finals
    BY <1>2, <1>3, WordFacts
  <1>8. f \in Words /\ f.end <= stable /\ w.start < f.end
    BY <1>1, <1>3, <1>6
  <1>9. Overlap(f, w)
    BY <1>2, <1>8, WordFacts DEF Overlap
  <1>10. QED
    BY <1>2, <1>6, <1>7, <1>9

(* A window that raises leaves the transcript and the events alone.        *)
LEMMA RaisingWindow ==
    ASSUME WInv, NEW n \in Chunks, IngestAudio(n), BehindFrontier(Active(Words, n))
    PROVE  WInv' /\ phase' = "raised" /\ UNCHANGED evidence
  <1>1. /\ phase' = "raised" /\ others' = others
        /\ UNCHANGED <<transcript, evidence, health>>
        /\ stable' = Later(stable, StableThrough(n))
    BY DEF IngestAudio
  <1>2. stable \in Nat /\ stable' \in Nat /\ stable <= stable' /\ finals \subseteq Words
    BY <1>1, WindowFacts DEF Later, WInv, TypeOK
  <1>3. TypeOK'
    <2>1. /\ arrived' \in [Modalities -> SUBSET Chunks]
          /\ last' = n /\ furthest' \in Chunks \cup {-1}
      BY DEF IngestAudio, Offer, WInv, TypeOK, Later, Modalities
    <2>2. QED
      BY <1>1, <1>2, <2>1 DEF WInv, TypeOK, transcript, evidence, health
  <1>4. finals' = finals /\ pauses' = pauses /\ Frontier' = Frontier
    BY <1>1 DEF transcript, evidence, Frontier
  <1>5. \A w \in finals' : w.end <= stable'
    BY <1>2, <1>4, WordFacts DEF WInv
  <1>6. FrontierHasNoHoles' /\ PausesAreSilent' /\ TranscriptIsWhole'
    BY <1>1, <1>4
       DEF WInv, FrontierHasNoHoles, PausesAreSilent, TranscriptIsWhole, HoldsAllWords,
           Undisturbed
  <1>7. RaisesOnlyAtOverlap'
    BY <1>4, BehindMeansOverlap DEF RaisesOnlyAtOverlap
  <1>8. QED
    BY <1>1, <1>3, <1>5, <1>6, <1>7 DEF WInv

LEMMA IngestAudioFacts ==
    ASSUME WInv, NEW n \in Chunks, IngestAudio(n), ~BehindFrontier(Active(Words, n))
    PROVE  /\ phase = "live" /\ phase' = phase
           /\ stable' = Later(stable, StableThrough(n))
           /\ \E kept \in [{IdOf[e] : e \in Active(Events, n)} -> Active(Events, n)] :
                 /\ \A i \in DOMAIN kept : IdOf[kept[i]] = i
                 /\ Reconcile(Active(Words, n), Held(kept), StableThrough(n))
  BY DEF IngestAudio, Offer

(* What a window does to the words.                                        *)
LEMMA IngestedWords ==
    ASSUME WInv, NEW n \in Chunks, IngestAudio(n), ~BehindFrontier(Active(Words, n))
    PROVE  /\ stable' \in Nat /\ stable <= stable' /\ StableThrough(n) <= stable'
           /\ finals \subseteq finals' /\ pauses' \subseteq pauses \cup Gaps(finals')
           /\ \A w \in finals' : w \in finals \/ (w \in Active(Words, n) /\ w.end <= stable')
           /\ \A w \in Active(Words, n) :
                 (w \in finals' \/ w \in provisional')
                     /\ (w.end <= stable' => w \in finals')
           /\ provisional' \subseteq Active(Words, n) \ finals'
  <1> DEFINE words == Active(Words, n)
             boundary == StableThrough(n)
  <1>1. boundary \in Nat /\ stable \in Nat
    BY WindowFacts DEF WInv, TypeOK
  <1>2. /\ stable' = IF stable > boundary THEN stable ELSE boundary
        /\ stable' \in Nat /\ stable <= stable' /\ boundary <= stable'
    BY <1>1, IngestAudioFacts DEF Later
  <1>3. \A w \in words : w \in Words /\ w \notin finals /\ w.end > stable
    BY <1>1, WordFacts DEF Active, WInv
  <1>4. Frontier \in Nat /\ Frontier <= stable
    BY FrontierIsStable
  <1>5. PICK kept : Reconcile(words, Held(kept), boundary)
    BY IngestAudioFacts
  <1>6. CASE boundary > Frontier
    <2>1. /\ finals' = finals \cup Settled(words, boundary)
          /\ provisional' = words \ Settled(words, boundary)
          /\ pauses' \subseteq pauses \cup Gaps(finals')
      BY <1>5, <1>6 DEF Reconcile, Transcribe, DerivePauses
    <2> HIDE DEF words, boundary
    <2>2. \A w \in words : w.end <= stable' => w.end <= boundary
      BY <1>1, <1>2, <1>3, WordFacts
    <2>3. \A w \in Settled(words, boundary) : w \in words /\ w.end <= stable'
      BY <1>1, <1>2, <1>3, WordFacts DEF Settled
    <2>4. finals \subseteq finals'
      BY <2>1
    <2>5. \A w \in finals' : w \in finals \/ (w \in words /\ w.end <= stable')
      BY <2>1, <2>3
    <2>6. \A w \in words : w \in finals' \/ w \in provisional'
      BY <2>1
    <2>7. \A w \in words : w.end <= stable' => w \in finals'
      BY <2>1, <2>2 DEF Settled
    <2>8. provisional' \subseteq words \ finals'
      BY <1>3, <2>1
    <2>9. QED
      BY <1>2, <2>1, <2>4, <2>5, <2>6, <2>7, <2>8 DEF words, boundary
  <1>7. CASE ~(boundary > Frontier)
    <2>1. finals' = finals /\ provisional' = words /\ pauses' = pauses
      BY <1>5, <1>7 DEF Reconcile
    <2>2. stable' = stable
      BY <1>1, <1>2, <1>4, <1>7
    <2> HIDE DEF words, boundary
    <2>3. \A w \in words : ~(w.end <= stable')
      BY <1>1, <1>3, <2>2, WordFacts
    <2>4. /\ finals \subseteq finals'
          /\ \A w \in finals' : w \in finals
          /\ \A w \in words : w \in provisional'
          /\ provisional' \subseteq words \ finals'
      BY <1>3, <2>1
    <2>5. QED
      BY <1>2, <2>1, <2>3, <2>4 DEF words, boundary
  <1>8. QED
    BY <1>6, <1>7

-----------------------------------------------------------------------------
(* Types. *)

LEMMA EventFacts ==
    /\ Nothing \notin Events
    /\ \A e \in Events : e.end \in Nat /\ IdOf[e] \in Ids
  <1>1. Nothing \notin Events
    <2> SUFFICES ASSUME Nothing \in Events PROVE FALSE
      OBVIOUS
    <2>1. Nothing.start < Nothing.end
      BY SpeechAssumption
    <2>2. QED
      BY <2>1 DEF Nothing
  <1>2. \A e \in Events : e.end \in Nat /\ IdOf[e] \in Ids
    BY SpeechAssumption DEF Spans
  <1>3. QED
    BY <1>1, <1>2

LEMMA HeldTypes ==
    ASSUME events \in [Ids -> Entries], NEW emitted, emitted \subseteq Events,
           NEW kept \in [{IdOf[e] : e \in emitted} -> emitted]
    PROVE  Held(kept) \in [Ids -> Entries]
  <1>1. ASSUME NEW i \in Ids PROVE Held(kept)[i] \in Entries
    <2>1. CASE i \in DOMAIN kept
      <3>1. kept[i] \in Events
        BY <2>1
      <3>2. Held(kept)[i] = [event |-> kept[i], final |-> FALSE]
        BY <2>1 DEF Held
      <3>3. QED
        BY <3>1, <3>2 DEF Entries
    <2>2. CASE i \notin DOMAIN kept
      BY <2>2 DEF Held
    <2>3. QED
      BY <2>1, <2>2
  <1>2. QED
    BY <1>1 DEF Held

(* What finalization leaves: the same events, some of them final.          *)
LEMMA FinalizedFacts ==
    ASSUME NEW held \in [Ids -> Entries], NEW boundary \in Nat
    PROVE  /\ Finalized(held, boundary) \in [Ids -> Entries]
           /\ \A i \in Ids :
                 /\ Finalized(held, boundary)[i].event = held[i].event
                 /\ (Finalized(held, boundary)[i] # NoEvent) => held[i] # NoEvent
                 /\ Finalized(held, boundary)[i].final =>
                       held[i].final \/ held[i].event.end <= boundary
                 /\ held[i].final => Finalized(held, boundary)[i] = held[i]
                 /\ (held[i] # NoEvent /\ held[i].event.end <= boundary) =>
                       Finalized(held, boundary)[i] = [event |-> held[i].event, final |-> TRUE]
  <1> SUFFICES ASSUME NEW i \in Ids
               PROVE  LET f == Finalized(held, boundary)[i]
                      IN  /\ f \in Entries
                          /\ f.event = held[i].event
                          /\ (f # NoEvent) => held[i] # NoEvent
                          /\ f.final => held[i].final \/ held[i].event.end <= boundary
                          /\ held[i].final => f = held[i]
                          /\ (held[i] # NoEvent /\ held[i].event.end <= boundary) =>
                                f = [event |-> held[i].event, final |-> TRUE]
    BY DEF Finalized
  <1>1. CASE held[i] # NoEvent /\ held[i].event.end <= boundary
    <2>1. held[i] \in [event : Events, final : BOOLEAN]
      BY <1>1 DEF Entries
    <2>2. Finalized(held, boundary)[i] = [held[i] EXCEPT !.final = TRUE]
      BY <1>1 DEF Finalized, Settled
    <2>3. Finalized(held, boundary)[i] = [event |-> held[i].event, final |-> TRUE]
      BY <2>1, <2>2
    <2>4. held[i].final => held[i] = [event |-> held[i].event, final |-> TRUE]
      BY <2>1
    <2>5. [event |-> held[i].event, final |-> TRUE] \in Entries
      BY <2>1 DEF Entries
    <2>6. QED
      BY <1>1, <2>3, <2>4, <2>5
  <1>2. CASE ~(held[i] # NoEvent /\ held[i].event.end <= boundary)
    <2>1. Finalized(held, boundary)[i] = held[i]
      BY <1>2 DEF Finalized, Settled
    <2>2. QED
      BY <1>2, <2>1
  <1>3. QED
    BY <1>1, <1>2

LEMMA ReconcileTypes ==
    ASSUME TypeOK, NEW words, NEW held \in [Ids -> Entries], NEW boundary \in Nat,
           Reconcile(words, held, boundary)
    PROVE  events' \in [Ids -> Entries] /\ recorded' \in [Ids -> Events \cup {Nothing}]
  <1>1. CASE boundary > Frontier
    <2>1. /\ events' = Finalized(held, boundary)
          /\ Record(Finalized(held, boundary))
      BY <1>1 DEF Reconcile
    <2>2. Finalized(held, boundary) \in [Ids -> Entries]
      BY FinalizedFacts
    <2>3. \A i \in Ids : Finalized(held, boundary)[i].event \in Events \cup {Nothing}
      BY <2>2 DEF Entries, NoEvent
    <2>4. QED
      BY <2>1, <2>2, <2>3 DEF Record, TypeOK
  <1>2. CASE ~(boundary > Frontier)
    BY <1>2 DEF Reconcile, TypeOK
  <1>3. QED
    BY <1>1, <1>2

LEMMA GapFacts ==
    ASSUME NEW W, W \subseteq Words, NEW p \in Gaps(W)
    PROVE  /\ p \in Spans
           /\ \E f, g \in W : /\ p.start = f.end /\ p.end = g.start
                             /\ f.end < g.start
                             /\ ~\E w \in W : Precedes(f, w) /\ Precedes(w, g)
  <1>1. PICK f \in W, g \in W :
          /\ p = [start |-> f.end, end |-> g.start]
          /\ f.end + SilenceThreshold <= g.start
          /\ ~\E w \in W : Precedes(f, w) /\ Precedes(w, g)
    BY DEF Gaps
  <1>2. f.end \in Nat /\ g.start \in Nat /\ SilenceThreshold \in Nat \ {0}
    BY WordFacts, BoundsAssumption
  <1>3. f.end < g.start
    BY <1>1, <1>2
  <1>4. p \in Spans
    BY <1>1, <1>2 DEF Spans
  <1>5. p.start = f.end /\ p.end = g.start
    BY <1>1
  <1>6. QED
    BY <1>1, <1>3, <1>4, <1>5

LEMMA IngestAudioTypes ==
    ASSUME WInv, NEW n \in Chunks, IngestAudio(n), ~BehindFrontier(Active(Words, n))
    PROVE  TypeOK'
  <1>1. /\ arrived' \in [Modalities -> SUBSET Chunks]
        /\ last' = n /\ furthest' \in Chunks \cup {-1}
        /\ UNCHANGED <<degraded, notices, failures, others>>
    BY DEF IngestAudio, Offer, health, WInv, TypeOK, Later, Modalities
  <1>2. /\ finals' \subseteq Words /\ provisional' \subseteq Words \ finals'
        /\ stable' \in Nat
    BY IngestedWords DEF WInv, TypeOK, Active
  <1>3. pauses' \subseteq Spans
    BY <1>2, IngestedWords, GapFacts DEF WInv, TypeOK
  <1>4. events' \in [Ids -> Entries] /\ recorded' \in [Ids -> Events \cup {Nothing}]
    <2>1. PICK kept \in [{IdOf[e] : e \in Active(Events, n)} -> Active(Events, n)] :
            Reconcile(Active(Words, n), Held(kept), StableThrough(n))
      BY IngestAudioFacts
    <2>2. Active(Events, n) \subseteq Events
      BY DEF Active
    <2>3. Held(kept) \in [Ids -> Entries]
      BY <2>2, HeldTypes DEF WInv, TypeOK
    <2>4. QED
      BY <2>1, <2>3, ReconcileTypes, WindowFacts DEF WInv
  <1>5. phase' \in {"live", "completed", "raised"}
    BY IngestAudioFacts
  <1>6. QED
    BY <1>1, <1>2, <1>3, <1>4, <1>5 DEF WInv, TypeOK

-----------------------------------------------------------------------------
(* A window keeps the words sound. *)

(* A gap between neighbours in the frozen words holds no word that stands  *)
(* alone, if everything up to the later neighbour is frozen.               *)
LEMMA GapsAreSilent ==
    ASSUME NEW W, W \subseteq Words, NEW bound \in Nat, \A w \in W : w.end <= bound,
           \A w \in Words : w.end <= bound => w \in W,
           NEW p \in Gaps(W), NEW w \in Alone
    PROVE  ~Overlap(p, w)
  <1> SUFFICES ASSUME p.start < w.end, w.start < p.end PROVE FALSE
    BY DEF Overlap
  <1>1. PICK f \in W, g \in W : /\ p.start = f.end /\ p.end = g.start
                              /\ f.end < g.start
                              /\ ~\E v \in W : Precedes(f, v) /\ Precedes(v, g)
    BY GapFacts
  <1>2. f \in Words /\ g \in Words /\ w \in Words /\ g.end <= bound
    BY <1>1 DEF Alone
  <1>3. f # w /\ g # w
    BY <1>1, <1>2, WordFacts
  <1>4. ~Overlap(f, w) /\ ~Overlap(g, w)
    BY <1>2, <1>3 DEF Alone
  <1>5. f.end <= w.start /\ w.end <= g.start
    BY <1>1, <1>2, <1>4, WordFacts DEF Overlap
  <1>6. Precedes(f, w) /\ Precedes(w, g)
    BY <1>2, <1>5, WordFacts DEF Precedes
  <1>7. w.end <= bound
    BY <1>2, <1>5, WordFacts
  <1>8. QED
    BY <1>1, <1>2, <1>6, <1>7

LEMMA IngestAudioWords ==
    ASSUME WInv, NEW n \in Chunks, IngestAudio(n), ~BehindFrontier(Active(Words, n))
    PROVE  WInv'
  <1>1. TypeOK' /\ phase = "live" /\ phase' = "live"
    BY IngestAudioTypes, IngestAudioFacts DEF WInv
  <1>2. /\ last' = n /\ others' = others /\ stable \in Nat /\ stable' \in Nat
        /\ finals \subseteq Words /\ finals' \subseteq Words
    BY <1>1 DEF IngestAudio, WInv, TypeOK
  <1>3. \A w \in finals' : w.end <= stable'
    BY <1>2, IngestedWords, WordFacts DEF WInv
  <1>4. ASSUME Undisturbed, NEW w \in Words, w.start < WindowEnd(n)
        PROVE  w \in finals \/ w \in Active(Words, n)
    BY <1>1, <1>2, <1>4, WordFacts DEF WInv, Active
  <1>5. ASSUME Undisturbed, NEW w \in Words, w.end <= stable' PROVE w \in finals'
    <2>1. CASE w.end <= stable
      BY <1>1, <1>5, <2>1, IngestedWords DEF WInv
    <2>2. CASE ~(w.end <= stable)
      <3>1. w.end <= StableThrough(n)
        BY <1>2, <1>5, <2>2, IngestAudioFacts, WindowFacts, WordFacts DEF Later
      <3>2. w.start < WindowEnd(n)
        BY <3>1, WindowFacts, WordFacts
      <3>3. QED
        BY <1>4, <1>5, <3>2, IngestedWords
    <2>3. QED
      BY <2>1, <2>2
  <1>6. FrontierHasNoHoles'
    <2>1. Frontier' \in Nat /\ Frontier' <= stable'
      BY <1>2, <1>3, FrontierFacts DEF Frontier
    <2>2. ASSUME Undisturbed, NEW w \in Words, w.end <= Frontier' PROVE w \in finals'
      BY <1>2, <1>5, <2>1, <2>2, WordFacts
    <2>3. QED
      BY <1>2, <2>2 DEF FrontierHasNoHoles, Undisturbed
  <1>7. TranscriptIsWhole'
    BY <1>2, <1>4, IngestedWords DEF TranscriptIsWhole, HoldsAllWords, Undisturbed, WindowEnd
  <1>8. ASSUME Undisturbed, NEW p \in pauses', NEW w \in Alone
        PROVE  ~Overlap(p, w)
    <2>1. CASE p \in pauses
      BY <1>8, <2>1 DEF WInv, PausesAreSilent
    <2>2. CASE p \in Gaps(finals')
      BY <1>2, <1>3, <1>5, <1>8, <2>2, GapsAreSilent
    <2>3. QED
      BY <1>8, <2>1, <2>2, IngestedWords
  <1>9. PausesAreSilent'
    BY <1>2, <1>8 DEF PausesAreSilent, Undisturbed
  <1>10. RaisesOnlyAtOverlap'
    BY <1>1 DEF RaisesOnlyAtOverlap
  <1>11. QED
    BY <1>1, <1>2, <1>3, <1>5, <1>6, <1>7, <1>9, <1>10 DEF WInv, Undisturbed

(* The other steps leave the words alone.                                  *)
LEMMA OtherStepsTypes ==
    ASSUME TypeOK, NEW n \in Chunks, NEW m \in Modalities,
           IngestVideo(n) \/ OtherStream(n) \/ RuntimeFails(m, n)
             \/ Redelivered(m, n) \/ Complete \/ UNCHANGED vars
    PROVE  TypeOK'
  <1> USE DEF TypeOK, runtime, transcript, evidence, health
  <1>1. CASE IngestVideo(n)
    BY <1>1 DEF IngestVideo, Offer, Modalities
  <1>2. CASE OtherStream(n)
    <2>1. stable' \in Nat
      BY <1>2, WindowFacts DEF OtherStream, Later
    <2>2. others' \in 0 .. MaxOthers
      BY <1>2, BoundsAssumption DEF OtherStream
    <2>3. QED
      BY <1>2, <2>1, <2>2 DEF OtherStream
  <1>3. CASE RuntimeFails(m, n)
    <2>1. failures' \in 0 .. MaxFailures
      BY <1>3, BoundsAssumption DEF RuntimeFails
    <2>2. notices' \in [Modalities -> Nat]
      BY <1>3 DEF RuntimeFails, Notice
    <2>3. QED
      BY <1>3, <2>1, <2>2 DEF RuntimeFails, Offer
  <1>4. CASE Redelivered(m, n) \/ UNCHANGED vars
    BY <1>4 DEF Redelivered, vars
  <1>5. CASE Complete
    <2>1. ASSUME NEW i \in Ids, events[i] # NoEvent
          PROVE  [events[i] EXCEPT !.final = TRUE] \in Entries
      BY <2>1 DEF Entries
    <2>2. events' \in [Ids -> Entries]
      BY <1>5, <2>1 DEF Complete, Entries
    <2>3. QED
      BY <1>5, <2>2 DEF Complete
  <1>6. QED
    BY <1>1, <1>2, <1>3, <1>4, <1>5

LEMMA OtherStepsWords ==
    ASSUME WInv, NEW n \in Chunks, NEW m \in Modalities,
           IngestVideo(n) \/ OtherStream(n) \/ RuntimeFails(m, n)
             \/ Redelivered(m, n) \/ Complete \/ UNCHANGED vars
    PROVE  WInv'
  <1>1. TypeOK'
    BY OtherStepsTypes DEF WInv
  <1>2. CASE OtherStream(n)
    <2>1. /\ others' = others + 1 /\ others \in Nat
          /\ UNCHANGED <<last, furthest, finals, provisional, pauses, phase>>
      BY <1>2, BoundsAssumption DEF OtherStream, transcript, evidence, WInv, TypeOK
    <2>2. stable \in Nat /\ stable' \in Nat /\ stable <= stable' /\ finals \subseteq Words
      BY <1>2, WindowFacts DEF OtherStream, Later, WInv, TypeOK
    <2>3. ~Undisturbed'
      BY <2>1 DEF Undisturbed
    <2>4. \A w \in finals' : w.end <= stable'
      BY <2>1, <2>2, WordFacts DEF WInv
    <2>5. RaisesOnlyAtOverlap'
      BY <2>1 DEF WInv, RaisesOnlyAtOverlap
    <2>6. QED
      BY <1>1, <2>1, <2>3, <2>4, <2>5
         DEF WInv, FrontierHasNoHoles, TranscriptIsWhole, PausesAreSilent
  <1>3. CASE ~OtherStream(n)
    <2>1. /\ UNCHANGED <<last, furthest, stable, finals, provisional, pauses, others>>
          /\ phase' \in {phase, "completed"}
      BY <1>3 DEF IngestVideo, RuntimeFails, Redelivered, Complete, vars, runtime,
           transcript, evidence
    <2>2. phase' = "raised" <=> phase = "raised"
      BY <1>3 DEF IngestVideo, RuntimeFails, Redelivered, Complete, Offer, vars
    <2>3. QED
      BY <1>1, <2>1, <2>2
         DEF WInv, FrontierHasNoHoles, Frontier, TranscriptIsWhole, PausesAreSilent,
             HoldsAllWords, Undisturbed, RaisesOnlyAtOverlap
  <1>4. QED
    BY <1>2, <1>3

(* Every reachable state has the declared types, and its words are sound.  *)
THEOREM WordsAreSound == Spec => []WInv
  <1>1. Init => WInv
    <2> SUFFICES ASSUME Init PROVE WInv
      OBVIOUS
    <2>1. TypeOK
      BY BoundsAssumption DEF Init, TypeOK, Entries
    <2>2. \A w \in Words : ~(w.end <= 0)
      BY WordFacts
    <2>3. Frontier = 0
      BY DEF Init, Frontier, FrontierOf
    <2>4. QED
      BY <2>1, <2>2, <2>3
         DEF Init, WInv, FrontierHasNoHoles, TranscriptIsWhole, HoldsAllWords,
             PausesAreSilent, RaisesOnlyAtOverlap
  <1>2. WInv /\ [Next]_vars => WInv'
    <2> SUFFICES ASSUME WInv, [Next]_vars PROVE WInv'
      OBVIOUS
    <2>1. 0 \in Chunks /\ "audio" \in Modalities
      BY BoundsAssumption DEF Chunks, Modalities
    <2>2. QED
      BY <2>1, IngestAudioWords, RaisingWindow, OtherStepsWords DEF Next
  <1>3. QED
    BY <1>1, <1>2, PTL DEF Spec

-----------------------------------------------------------------------------
(* The events, as long as no two of them share an identifier.  While the   *)
(* stream lives, an event is final only when it is stable: the runtime     *)
(* offers nothing of it again.                                             *)

IdsAreDistinct == \A e, f \in Events : IdOf[e] = IdOf[f] => e = f

EInv ==
    /\ WInv
    /\ \A i \in Ids : events[i] # NoEvent => IdOf[events[i].event] = i
    /\ phase = "live" => \A i \in Ids : events[i].final => events[i].event.end <= stable
    /\ LedgerMatchesFinals
    /\ StableEventsAreFinal

LEMMA EntryFacts ==
    ASSUME NEW x \in Entries
    PROVE  /\ (x # NoEvent) <=> x.event \in Events
           /\ x.final => x.event \in Events
           /\ x.final \in BOOLEAN /\ x.event \in Events \cup {Nothing}
  <1>1. CASE x = NoEvent
    BY <1>1, EventFacts DEF NoEvent
  <1>2. CASE x \in [event : Events, final : BOOLEAN]
    <2>1. x.event \in Events /\ x.final \in BOOLEAN
      BY <1>2
    <2>2. NoEvent.event = Nothing
      BY DEF NoEvent
    <2>3. x # NoEvent
      BY <2>1, <2>2, EventFacts
    <2>4. QED
      BY <2>1, <2>3
  <1>3. QED
    BY <1>1, <1>2 DEF Entries

LEMMA HeldFacts ==
    ASSUME IdsAreDistinct, EInv, phase = "live", NEW n \in Chunks,
           NEW kept \in [{IdOf[e] : e \in Active(Events, n)} -> Active(Events, n)],
           \A i \in DOMAIN kept : IdOf[kept[i]] = i
    PROVE  /\ Held(kept) \in [Ids -> Entries]
           /\ \A i \in Ids : Held(kept)[i] # NoEvent => IdOf[Held(kept)[i].event] = i
           /\ \A i \in Ids : events[i].final => Held(kept)[i] = events[i]
           /\ \A i \in Ids : Held(kept)[i].final => events[i].final
           /\ \A e \in Active(Events, n) : Held(kept)[IdOf[e]].event = e
  <1>1. Active(Events, n) \subseteq Events /\ events \in [Ids -> Entries] /\ stable \in Nat
    BY DEF Active, EInv, WInv, TypeOK
  <1>2. Held(kept) \in [Ids -> Entries]
    BY <1>1, HeldTypes
  <1>3. ASSUME NEW i \in Ids, i \in DOMAIN kept
        PROVE  /\ kept[i] \in Active(Events, n) /\ IdOf[kept[i]] = i
               /\ Held(kept)[i].event = kept[i] /\ ~Held(kept)[i].final
    <2>1. Held(kept)[i] = [event |-> kept[i], final |-> FALSE]
      BY <1>3 DEF Held
    <2>2. QED
      BY <1>3, <2>1
  <1>4. ASSUME NEW i \in Ids, i \notin DOMAIN kept PROVE Held(kept)[i] = events[i]
    BY <1>4 DEF Held
  <1>5. ASSUME NEW i \in Ids, Held(kept)[i] # NoEvent PROVE IdOf[Held(kept)[i].event] = i
    <2>1. CASE i \in DOMAIN kept
      BY <1>3, <2>1
    <2>2. CASE i \notin DOMAIN kept
      BY <1>4, <1>5, <2>2 DEF EInv
    <2>3. QED
      BY <2>1, <2>2
  <1>6. ASSUME NEW i \in Ids, events[i].final PROVE i \notin DOMAIN kept
    <2> SUFFICES ASSUME i \in DOMAIN kept PROVE FALSE
      OBVIOUS
    <2>1. kept[i] \in Active(Events, n) /\ IdOf[kept[i]] = i
      BY <1>3
    <2>2. events[i].event \in Events /\ IdOf[events[i].event] = i
          /\ events[i].event.end <= stable
      BY <1>1, <1>6, EntryFacts DEF EInv
    <2>3. kept[i] = events[i].event
      BY <1>1, <2>1, <2>2 DEF IdsAreDistinct
    <2>4. kept[i].end \in Nat /\ kept[i].end > stable
      BY <1>1, <2>1, EventFacts DEF Active
    <2>5. QED
      BY <1>1, <2>2, <2>3, <2>4
  <1>7. ASSUME NEW i \in Ids, Held(kept)[i].final PROVE events[i].final
    <2>1. i \notin DOMAIN kept
      BY <1>3, <1>7
    <2>2. QED
      BY <1>4, <1>7, <2>1
  <1>8. ASSUME NEW e \in Active(Events, n) PROVE Held(kept)[IdOf[e]].event = e
    <2>1. IdOf[e] \in DOMAIN kept /\ IdOf[e] \in Ids
      BY <1>1, EventFacts
    <2>2. kept[IdOf[e]] = e
      BY <1>1, <1>3, <2>1 DEF IdsAreDistinct
    <2>3. QED
      BY <1>3, <2>1, <2>2
  <1>9. QED
    BY <1>2, <1>4, <1>5, <1>6, <1>7, <1>8

LEMMA IngestedEvents ==
    ASSUME IdsAreDistinct, EInv, NEW n \in Chunks, IngestAudio(n),
           ~BehindFrontier(Active(Words, n))
    PROVE  /\ \A i \in Ids : events'[i] # NoEvent => IdOf[events'[i].event] = i
           /\ \A i \in Ids : events[i].final => events'[i] = events[i]
           /\ \A i \in Ids : events'[i].final => events'[i].event.end <= stable'
           /\ \A e \in Active(Events, n) :
                 e.end <= stable' => events'[IdOf[e]] = [event |-> e, final |-> TRUE]
           /\ \A i \in Ids :
                 recorded'[i] = IF events'[i].final THEN events'[i].event ELSE Nothing
  <1> DEFINE boundary == StableThrough(n)
  <1>0. WInv /\ phase = "live"
    BY IngestAudioFacts DEF EInv
  <1>1. /\ boundary \in Nat /\ stable \in Nat /\ stable' = Later(stable, boundary)
        /\ Frontier \in Nat /\ Frontier <= stable
        /\ events \in [Ids -> Entries]
    BY <1>0, WindowFacts, IngestAudioFacts, FrontierIsStable DEF WInv, TypeOK
  <1>2. stable' \in Nat /\ stable <= stable' /\ boundary <= stable'
    BY <1>1 DEF Later
  <1>3. PICK kept \in [{IdOf[e] : e \in Active(Events, n)} -> Active(Events, n)] :
          /\ \A i \in DOMAIN kept : IdOf[kept[i]] = i
          /\ Reconcile(Active(Words, n), Held(kept), boundary)
    BY <1>0, IngestAudioFacts
  <1>4. PICK held : held = Held(kept)
    OBVIOUS
  <1>5. /\ held \in [Ids -> Entries]
        /\ \A i \in Ids : held[i] # NoEvent => IdOf[held[i].event] = i
        /\ \A i \in Ids : events[i].final => held[i] = events[i]
        /\ \A i \in Ids : held[i].final => events[i].final
        /\ \A e \in Active(Events, n) : held[IdOf[e]].event = e
    BY <1>0, <1>3, <1>4, HeldFacts
  <1>6. ASSUME NEW i \in Ids, held[i].final
        PROVE  held[i].event.end <= stable' /\ held[i].event \in Events
    <2>1. held[i] = events[i] /\ events[i].event.end <= stable
      BY <1>0, <1>5, <1>6 DEF EInv
    <2>2. held[i].event \in Events
      BY <1>5, <1>6, EntryFacts
    <2>3. QED
      BY <1>1, <1>2, <2>1, <2>2, EventFacts
  <1>7. ASSUME NEW i \in Ids
        PROVE  recorded[i] = IF events[i].final THEN events[i].event ELSE Nothing
    BY <1>0 DEF EInv, LedgerMatchesFinals
  <1>8. ASSUME NEW e \in Active(Events, n)
        PROVE  /\ e \in Events /\ e.end \in Nat /\ e.end > stable /\ IdOf[e] \in Ids
               /\ held[IdOf[e]] # NoEvent
    BY <1>5, EventFacts DEF Active, NoEvent
  <1> HIDE DEF boundary
  <1>9. CASE boundary > Frontier
    <2>1. PICK settled : settled = Finalized(held, boundary)
      OBVIOUS
    <2>2. events' = settled /\ Record(settled)
      BY <1>3, <1>4, <1>9, <2>1 DEF Reconcile, boundary
    <2>3. /\ settled \in [Ids -> Entries]
          /\ \A i \in Ids :
                /\ settled[i].event = held[i].event
                /\ (settled[i] # NoEvent) => held[i] # NoEvent
                /\ settled[i].final => held[i].final \/ held[i].event.end <= boundary
                /\ held[i].final => settled[i] = held[i]
                /\ (held[i] # NoEvent /\ held[i].event.end <= boundary) =>
                      settled[i] = [event |-> held[i].event, final |-> TRUE]
      BY <1>1, <1>5, <2>1, FinalizedFacts
    <2>4. \A i \in Ids : settled[i] # NoEvent => IdOf[settled[i].event] = i
      BY <1>5, <2>3
    <2>5. ASSUME NEW i \in Ids, events[i].final PROVE settled[i] = events[i]
      BY <1>5, <2>3, <2>5
    <2>6. ASSUME NEW i \in Ids, settled[i].final PROVE settled[i].event.end <= stable'
      <3>1. settled[i].event \in Events /\ settled[i].event = held[i].event
        BY <2>3, <2>6, EntryFacts
      <3>2. held[i].final \/ held[i].event.end <= boundary
        BY <2>3, <2>6
      <3>3. QED
        BY <1>1, <1>2, <1>6, <3>1, <3>2, EventFacts
    <2>7. ASSUME NEW e \in Active(Events, n), e.end <= stable'
          PROVE  settled[IdOf[e]] = [event |-> e, final |-> TRUE]
      <3>1. e.end <= boundary
        BY <1>1, <1>8, <2>7 DEF Later
      <3>2. PICK i \in Ids : i = IdOf[e] /\ held[i] # NoEvent /\ held[i].event = e
        BY <1>5, <1>8
      <3>3. settled[i] = [event |-> held[i].event, final |-> TRUE]
        BY <2>3, <3>1, <3>2
      <3>4. QED
        BY <3>2, <3>3
    <2>8. ASSUME NEW i \in Ids
          PROVE  recorded'[i] = IF settled[i].final THEN settled[i].event ELSE Nothing
      <3>1. recorded'[i] = IF settled[i].final /\ recorded[i] = Nothing THEN settled[i].event
                           ELSE recorded[i]
        BY <2>2 DEF Record
      <3>2. CASE events[i].final
        BY <1>1, <1>7, <2>5, <3>1, <3>2, EntryFacts, EventFacts
      <3>3. CASE ~events[i].final
        BY <1>7, <3>1, <3>3
      <3>4. QED
        BY <3>2, <3>3
    <2>9. QED
      BY <2>2, <2>4, <2>5, <2>6, <2>7, <2>8
  <1>10. CASE ~(boundary > Frontier)
    <2>1. events' = held /\ recorded' = recorded
      BY <1>3, <1>4, <1>10 DEF Reconcile, boundary
    <2>2. stable' = stable
      BY <1>1, <1>10 DEF Later
    <2>3. \A e \in Active(Events, n) : ~(e.end <= stable')
      BY <1>1, <1>8, <2>2
    <2>4. \A i \in Ids : recorded[i] = IF held[i].final THEN held[i].event ELSE Nothing
      <3> SUFFICES ASSUME NEW i \in Ids
                   PROVE  recorded[i] = IF held[i].final THEN held[i].event ELSE Nothing
        OBVIOUS
      <3>1. CASE events[i].final
        BY <1>5, <1>7, <3>1
      <3>2. CASE ~events[i].final
        BY <1>5, <1>7, <3>2
      <3>3. QED
        BY <3>1, <3>2
    <2>5. QED
      BY <1>5, <1>6, <2>1, <2>3, <2>4
  <1>11. QED
    BY <1>9, <1>10

LEMMA IngestAudioEvents ==
    ASSUME IdsAreDistinct, EInv, NEW n \in Chunks, IngestAudio(n),
           ~BehindFrontier(Active(Words, n))
    PROVE  EInv'
  <1>0. WInv /\ phase = "live" /\ phase' = phase /\ others' = others
    BY IngestAudioFacts DEF EInv, IngestAudio
  <1>1. WInv'
    BY <1>0, IngestAudioWords
  <1>2. LedgerMatchesFinals'
    BY IngestedEvents DEF LedgerMatchesFinals
  <1>3. ASSUME Undisturbed, NEW e \in Events, e.end <= stable'
        PROVE  events'[IdOf[e]] = [event |-> e, final |-> TRUE]
    <2>1. CASE e.end <= stable
      <3>1. events[IdOf[e]] = [event |-> e, final |-> TRUE] /\ IdOf[e] \in Ids
        BY <1>0, <1>3, <2>1, EventFacts DEF EInv, StableEventsAreFinal
      <3>2. events[IdOf[e]].final
        BY <3>1
      <3>3. QED
        BY <3>1, <3>2, IngestedEvents
    <2>2. CASE ~(e.end <= stable)
      <3>1. /\ stable \in Nat /\ stable' = Later(stable, StableThrough(n))
            /\ e.start < e.end /\ e.start \in Nat /\ e.end \in Nat
        BY <1>0, IngestAudioFacts, SpeechAssumption DEF WInv, TypeOK, Spans
      <3>2. e.end <= StableThrough(n)
        BY <1>3, <2>2, <3>1, WindowFacts DEF Later
      <3>3. e.end > stable /\ e.start < WindowEnd(n)
        BY <2>2, <3>1, <3>2, WindowFacts
      <3>4. e \in Active(Events, n)
        BY <3>3 DEF Active
      <3>5. QED
        BY <1>3, <3>4, IngestedEvents
    <2>3. QED
      BY <2>1, <2>2
  <1>4. StableEventsAreFinal'
    BY <1>0, <1>3 DEF StableEventsAreFinal, Undisturbed
  <1>5. QED
    BY <1>1, <1>2, <1>4, IngestedEvents DEF EInv

LEMMA OtherStepsEvents ==
    ASSUME EInv, NEW n \in Chunks, NEW m \in Modalities,
           IngestVideo(n) \/ OtherStream(n) \/ RuntimeFails(m, n)
             \/ Redelivered(m, n) \/ Complete \/ UNCHANGED vars
    PROVE  EInv' /\ \A i \in Ids : events[i].final => events'[i] = events[i]
  <1>0. WInv /\ WInv'
    BY OtherStepsWords DEF EInv
  <1>1. CASE OtherStream(n)
    <2>1. /\ UNCHANGED <<events, recorded, phase>> /\ ~Undisturbed'
      BY <1>0, <1>1, BoundsAssumption DEF OtherStream, evidence, Undisturbed, WInv, TypeOK
    <2>2. /\ stable \in Nat /\ stable' \in Nat /\ stable <= stable'
          /\ events \in [Ids -> Entries]
      BY <1>0, <1>1, WindowFacts DEF OtherStream, Later, WInv, TypeOK
    <2>3. ASSUME NEW i \in Ids, phase = "live", events[i].final
          PROVE  events[i].event.end <= stable'
      <3>1. events[i].event.end <= stable /\ events[i].event \in Events
        BY <2>2, <2>3, EntryFacts DEF EInv
      <3>2. QED
        BY <2>2, <3>1, EventFacts
    <2>4. QED
      BY <1>0, <2>1, <2>3 DEF EInv, LedgerMatchesFinals, StableEventsAreFinal
  <1>2. CASE Complete
    <2>1. /\ phase' = "completed" /\ UNCHANGED <<stable, others>>
          /\ events' = [i \in Ids |-> IF events[i] = NoEvent THEN NoEvent
                                       ELSE [events[i] EXCEPT !.final = TRUE]]
      BY <1>2 DEF Complete, runtime
    <2>2. ASSUME NEW i \in Ids
          PROVE  /\ events'[i] # NoEvent => events[i] # NoEvent
                                            /\ events'[i].event = events[i].event
                 /\ events[i].final => events'[i] = events[i]
      <3>1. CASE events[i] = NoEvent
        BY <2>1, <3>1
      <3>2. CASE events[i] # NoEvent
        <4>1. events[i] \in [event : Events, final : BOOLEAN]
          BY <1>0, <3>2 DEF WInv, TypeOK, Entries
        <4>2. events'[i] = [events[i] EXCEPT !.final = TRUE]
          BY <2>1, <3>2
        <4>3. events'[i].event = events[i].event
          BY <4>1, <4>2
        <4>4. events[i].final => events'[i] = events[i]
          BY <4>1, <4>2
        <4>5. QED
          BY <3>2, <4>3, <4>4
      <3>3. QED
        BY <3>1, <3>2
    <2>3. ASSUME Undisturbed, NEW e \in Events, e.end <= stable
          PROVE  events'[IdOf[e]] = [event |-> e, final |-> TRUE]
      <3>1. events[IdOf[e]] = [event |-> e, final |-> TRUE] /\ IdOf[e] \in Ids
        BY <1>2, <2>3, EventFacts DEF EInv, StableEventsAreFinal, Complete
      <3>2. events[IdOf[e]].final
        BY <3>1
      <3>3. QED
        BY <2>2, <3>1, <3>2
    <2>4. StableEventsAreFinal'
      BY <2>1, <2>3 DEF StableEventsAreFinal, Undisturbed
    <2>5. \A i \in Ids : events'[i] # NoEvent => IdOf[events'[i].event] = i
      BY <2>2 DEF EInv
    <2>6. QED
      BY <1>0, <2>1, <2>2, <2>4, <2>5 DEF EInv, LedgerMatchesFinals
  <1>3. CASE ~OtherStream(n) /\ ~Complete
    <2>1. UNCHANGED <<events, recorded, phase, stable, others>>
      BY <1>3 DEF IngestVideo, RuntimeFails, Redelivered, vars, runtime, evidence
    <2>2. QED
      BY <1>0, <2>1 DEF EInv, LedgerMatchesFinals, StableEventsAreFinal, Undisturbed
  <1>4. QED
    BY <1>1, <1>2, <1>3

LEMMA EInvStep ==
    ASSUME IdsAreDistinct, EInv, [Next]_vars
    PROVE  EInv' /\ \A i \in Ids : events[i].final => events'[i] = events[i]
  <1>1. 0 \in Chunks /\ "audio" \in Modalities
    BY BoundsAssumption DEF Chunks, Modalities
  <1>2. ASSUME NEW n \in Chunks, IngestAudio(n), ~BehindFrontier(Active(Words, n))
        PROVE  EInv' /\ \A i \in Ids : events[i].final => events'[i] = events[i]
    BY <1>2, IngestAudioEvents, IngestedEvents
  <1>3. ASSUME NEW n \in Chunks, IngestAudio(n), BehindFrontier(Active(Words, n))
        PROVE  EInv' /\ \A i \in Ids : events[i].final => events'[i] = events[i]
    <2>1. WInv' /\ phase' = "raised" /\ events' = events
      BY <1>3, RaisingWindow DEF EInv, evidence
    <2>2. QED
      BY <2>1 DEF EInv, LedgerMatchesFinals, StableEventsAreFinal
  <1>4. QED
    BY <1>1, <1>2, <1>3, OtherStepsEvents DEF Next

(* The events are sound with the words.                                    *)
THEOREM EventsAreSound ==
    ASSUME IdsAreDistinct PROVE Spec => []EInv
  <1>1. Init => EInv
    <2> SUFFICES ASSUME Init PROVE EInv
      OBVIOUS
    <2>1. TypeOK
      BY BoundsAssumption DEF Init, TypeOK, Entries
    <2>2. /\ \A w \in Words : ~(w.end <= 0)
          /\ \A e \in Events : ~(e.end <= 0)
      BY SpeechAssumption DEF Spans
    <2>3. Frontier = 0
      BY DEF Init, Frontier, FrontierOf
    <2>4. WInv
      BY <2>1, <2>2, <2>3
         DEF Init, WInv, FrontierHasNoHoles, TranscriptIsWhole, HoldsAllWords,
             PausesAreSilent, RaisesOnlyAtOverlap
    <2>5. QED
      BY <2>2, <2>4 DEF Init, EInv, LedgerMatchesFinals, StableEventsAreFinal, NoEvent
  <1>2. EInv /\ [Next]_vars => EInv'
    BY EInvStep
  <1>3. QED
    BY <1>1, <1>2, PTL DEF Spec

-----------------------------------------------------------------------------
(* Only two words that overlap, one frozen and one revisable, end a stream *)
(* in a transcript violation, whatever failed, came late or came from      *)
(* another stream.                                                         *)
THEOREM RaisingNeedsOverlap == Spec => []RaisesOnlyAtOverlap
  <1>1. WInv => RaisesOnlyAtOverlap
    BY DEF WInv
  <1>2. QED
    BY <1>1, WordsAreSound, PTL

(* So a speaker whose words follow one another never meets a violation     *)
(* (transcript.py, with_provisional).                                      *)
THEOREM DisjointWordsNeverRaise ==
    ASSUME \A v, w \in Words : v # w => ~Overlap(v, w)
    PROVE  Spec => [](phase # "raised")
  <1>1. WInv => phase # "raised"
    BY DEF WInv, TypeOK, RaisesOnlyAtOverlap
  <1>2. QED
    BY <1>1, WordsAreSound, PTL

(* The frozen transcript has no holes (finalize_through).                  *)
THEOREM NoHoles == Spec => []FrontierHasNoHoles
  <1>1. WInv => FrontierHasNoHoles
    BY DEF WInv
  <1>2. QED
    BY <1>1, WordsAreSound, PTL

(* The transcript holds every word begun by the end of the furthest window *)
(* answered, when that was the last (with_provisional).                    *)
THEOREM WholeTranscript == Spec => []TranscriptIsWhole
  <1>1. WInv => TranscriptIsWhole
    BY DEF WInv
  <1>2. QED
    BY <1>1, WordsAreSound, PTL

(* A derived pause holds no word that stands alone, whatever is finalized  *)
(* later (silent_pauses, _derive_pauses).                                  *)
THEOREM SilentPauses == Spec => []PausesAreSilent
  <1>1. WInv => PausesAreSilent
    BY DEF WInv
  <1>2. QED
    BY <1>1, WordsAreSound, PTL

(* An event that ends by the stable point is final (_finalize_through).    *)
THEOREM StableIsFinal ==
    ASSUME IdsAreDistinct PROVE Spec => []StableEventsAreFinal
  <1>1. EInv => StableEventsAreFinal
    BY DEF EInv
  <1>2. QED
    BY <1>1, EventsAreSound, PTL

(* The evidence ledger holds what was shown as final (_record).            *)
THEOREM LedgerIsFinals ==
    ASSUME IdsAreDistinct PROVE Spec => []LedgerMatchesFinals
  <1>1. EInv => LedgerMatchesFinals
    BY DEF EInv
  <1>2. QED
    BY <1>1, EventsAreSound, PTL

(* A finalized event is never withdrawn or changed.                        *)
THEOREM FinalizedStays ==
    ASSUME IdsAreDistinct PROVE Spec => FinalEventsStay
  <1>1. EInv /\ [Next]_vars => [\A i \in Ids : events[i].final => events'[i] = events[i]]_vars
    BY EInvStep
  <1>2. QED
    BY <1>1, EventsAreSound, PTL DEF Spec, FinalEventsStay

=============================================================================
