------------------------- MODULE EvidenceRunProofs -------------------------
(***************************************************************************)
(* Theorems about EvidenceRun, and about the ConfigurationStore it         *)
(* composes: for any number of creations and completions, any build with   *)
(* any defaults, any runtime that reports any results, any ordered         *)
(* identifiers, any fitted curves.  The first part is the configuration.   *)
(* The second is the operators the run is built from: sorting,             *)
(* calibration, the images of the evidence in its rows, dictionaries, the  *)
(* gate, the flattening of buffers.  The third is the invariant of a run,  *)
(* RInv, and what follows from it: the reasons of the quality report, the  *)
(* account of the gate, the document read back, the pairs of the fusion.   *)
(***************************************************************************)
EXTENDS EvidenceRun, SequenceTheorems, FiniteSetTheorems, WellFoundedInduction, TLAPS

-----------------------------------------------------------------------------
(* The rows of a sequence, and of one put together from others.            *)

LEMMA RowsAreElements ==
    ASSUME NEW S, NEW s \in Seq(S)
    PROVE  /\ Len(s) \in Nat /\ DOMAIN s = 1 .. Len(s)
           /\ \A j \in 1 .. Len(s) : s[j] \in S /\ s[j] \in ToSet(s)
           /\ \A x \in ToSet(s) : \E j \in 1 .. Len(s) : x = s[j]
  <1>1. /\ Len(s) \in Nat /\ DOMAIN s = 1 .. Len(s)
        /\ \A j \in 1 .. Len(s) : s[j] \in S
    BY LenProperties, ElementOfSeq
  <1>2. QED
    BY <1>1 DEF ToSet

LEMMA ConcatenatedRows ==
    ASSUME NEW S, NEW s \in Seq(S), NEW u \in Seq(S)
    PROVE  s \o u \in Seq(S) /\ ToSet(s \o u) = ToSet(s) \cup ToSet(u)
  <1>1. PICK t : t = s \o u
    OBVIOUS
  <1>2. /\ t \in Seq(S) /\ Len(t) = Len(s) + Len(u)
        /\ \A j \in 1 .. Len(s) + Len(u) :
              t[j] = IF j <= Len(s) THEN s[j] ELSE u[j - Len(s)]
    BY <1>1, ConcatProperties
  <1>3. Len(s) \in Nat /\ Len(u) \in Nat
    BY RowsAreElements
  <1>4. ASSUME NEW x \in ToSet(t) PROVE x \in ToSet(s) \cup ToSet(u)
    <2>1. PICK j \in 1 .. Len(t) : x = t[j]
      BY <1>2, RowsAreElements
    <2>2. CASE j <= Len(s)
      BY <1>2, <1>3, <2>1, <2>2, RowsAreElements
    <2>3. CASE ~(j <= Len(s))
      <3>1. j - Len(s) \in 1 .. Len(u) /\ x = u[j - Len(s)]
        BY <1>2, <1>3, <2>1, <2>3
      <3>2. QED
        BY <3>1, RowsAreElements
    <2>4. QED
      BY <2>2, <2>3
  <1>5. ASSUME NEW x \in ToSet(s) PROVE x \in ToSet(t)
    <2>1. PICK j \in 1 .. Len(s) : x = s[j]
      BY RowsAreElements
    <2>2. j \in 1 .. Len(t) /\ x = t[j]
      BY <1>2, <1>3, <2>1
    <2>3. QED
      BY <1>2, <2>2, RowsAreElements
  <1>6. ASSUME NEW x \in ToSet(u) PROVE x \in ToSet(t)
    <2>1. PICK j \in 1 .. Len(u) : x = u[j]
      BY RowsAreElements
    <2>2. /\ j + Len(s) \in 1 .. Len(s) + Len(u)
          /\ ~(j + Len(s) <= Len(s)) /\ (j + Len(s)) - Len(s) = j
      BY <1>3
    <2>3. x = t[j + Len(s)]
      BY <1>2, <2>1, <2>2
    <2>4. QED
      BY <1>2, <2>2, <2>3, RowsAreElements
  <1>7. QED
    BY <1>1, <1>2, <1>4, <1>5, <1>6

LEMMA RowsOfOne ==
    ASSUME NEW S, NEW e \in S
    PROVE  <<e>> \in Seq(S) /\ ToSet(<<e>>) = {e}
  BY DEF ToSet

LEMMA SplitRows ==
    ASSUME NEW S, NEW s \in Seq(S), NEW i \in 1 .. Len(s) + 1
    PROVE  /\ SubSeq(s, 1, i - 1) \in Seq(S) /\ SubSeq(s, i, Len(s)) \in Seq(S)
           /\ ToSet(s) = ToSet(SubSeq(s, 1, i - 1)) \cup ToSet(SubSeq(s, i, Len(s)))
  <1>1. PICK before, after : before = SubSeq(s, 1, i - 1) /\ after = SubSeq(s, i, Len(s))
    OBVIOUS
  <1>2. /\ Len(s) \in Nat /\ i \in Int /\ i - 1 \in Int
        /\ \A j \in 1 .. Len(s) : s[j] \in S
    BY RowsAreElements
  <1>3. /\ before \in Seq(S) /\ Len(before) = i - 1
        /\ \A j \in 1 .. i - 1 : before[j] = s[j]
    BY <1>1, <1>2, SubSeqProperties
  <1>4. /\ after \in Seq(S) /\ Len(after) = Len(s) - i + 1
        /\ \A j \in 1 .. Len(s) - i + 1 : after[j] = s[i + j - 1]
    BY <1>1, <1>2, SubSeqProperties
  <1>5. ASSUME NEW x \in ToSet(s) PROVE x \in ToSet(before) \cup ToSet(after)
    <2>1. PICK j \in 1 .. Len(s) : x = s[j]
      BY RowsAreElements
    <2>2. CASE j < i
      BY <1>2, <1>3, <2>1, <2>2, RowsAreElements
    <2>3. CASE ~(j < i)
      <3>1. j - i + 1 \in 1 .. Len(after) /\ x = after[j - i + 1]
        BY <1>2, <1>4, <2>1, <2>3
      <3>2. QED
        BY <1>4, <3>1, RowsAreElements
    <2>4. QED
      BY <2>2, <2>3
  <1>6. ASSUME NEW x \in ToSet(before) PROVE x \in ToSet(s)
    <2>1. PICK j \in 1 .. Len(before) : x = before[j]
      BY <1>3, RowsAreElements
    <2>2. j \in 1 .. Len(s) /\ x = s[j]
      BY <1>2, <1>3, <2>1
    <2>3. QED
      BY <2>2, RowsAreElements
  <1>7. ASSUME NEW x \in ToSet(after) PROVE x \in ToSet(s)
    <2>1. PICK j \in 1 .. Len(after) : x = after[j]
      BY <1>4, RowsAreElements
    <2>2. i + j - 1 \in 1 .. Len(s) /\ x = s[i + j - 1]
      BY <1>2, <1>4, <2>1
    <2>3. QED
      BY <2>2, RowsAreElements
  <1>8. QED
    BY <1>1, <1>3, <1>4, <1>5, <1>6, <1>7

(* A row inserted anywhere joins the rows and displaces none.              *)
LEMMA InsertedRows ==
    ASSUME NEW S, NEW s \in Seq(S), NEW e \in S, NEW i \in 1 .. Len(s) + 1
    PROVE  /\ InsertAt(s, i, e) \in Seq(S)
           /\ ToSet(InsertAt(s, i, e)) = ToSet(s) \cup {e}
  <1>1. PICK before, after : before = SubSeq(s, 1, i - 1) /\ after = SubSeq(s, i, Len(s))
    OBVIOUS
  <1>2. /\ before \in Seq(S) /\ after \in Seq(S)
        /\ ToSet(s) = ToSet(before) \cup ToSet(after)
    BY <1>1, SplitRows
  <1>3. PICK one : one = <<e>> /\ one \in Seq(S) /\ ToSet(one) = {e}
    BY RowsOfOne
  <1>4. PICK upTo : /\ upTo = before \o one /\ upTo \in Seq(S)
                    /\ ToSet(upTo) = ToSet(before) \cup {e}
    <2>1. before \o one \in Seq(S) /\ ToSet(before \o one) = ToSet(before) \cup ToSet(one)
      BY <1>2, <1>3, ConcatenatedRows
    <2>2. QED
      BY <1>3, <2>1, Zenon
  <1>5. upTo \o after \in Seq(S) /\ ToSet(upTo \o after) = ToSet(upTo) \cup ToSet(after)
    <2>1. upTo \in Seq(S) /\ after \in Seq(S)
      BY <1>2, <1>4, Zenon
    <2>2. QED
      BY <2>1, ConcatenatedRows
  <1>6. InsertAt(s, i, e) = upTo \o after
    BY <1>1, <1>3, <1>4, Zenon DEF InsertAt
  <1>7. ToSet(InsertAt(s, i, e)) = ToSet(s) \cup {e}
    <2>1. ToSet(InsertAt(s, i, e)) = ToSet(upTo) \cup ToSet(after)
      BY <1>5, <1>6, Zenon
    <2>2. QED
      BY <2>1, <1>2, <1>4
  <1>8. QED
    BY <1>5, <1>6, <1>7, Zenon

LEMMA AppendedRows ==
    ASSUME NEW S, NEW s \in Seq(S), NEW e \in S
    PROVE  Append(s, e) \in Seq(S) /\ ToSet(Append(s, e)) = ToSet(s) \cup {e}
  <1>1. /\ Append(s, e) \in Seq(S) /\ Len(Append(s, e)) = Len(s) + 1
        /\ \A j \in 1 .. Len(s) : Append(s, e)[j] = s[j]
        /\ Append(s, e)[Len(s) + 1] = e
        /\ DOMAIN Append(s, e) = 1 .. Len(s) + 1
        /\ DOMAIN s = 1 .. Len(s) /\ Len(s) \in Nat
    BY LenProperties
  <1>2. \A x \in ToSet(Append(s, e)) : x \in ToSet(s) \cup {e}
    BY <1>1 DEF ToSet
  <1>3. \A x \in ToSet(s) \cup {e} : x \in ToSet(Append(s, e))
    BY <1>1 DEF ToSet
  <1>4. QED
    BY <1>1, <1>2, <1>3

-----------------------------------------------------------------------------
(* Ids are unique, and what a creation has confirmed or inserted is a row. *)
(* No row is ever changed or removed.                                      *)

Snapshots == {DefaultOf[b] : b \in Builds} \cup Publishable

Creations ==
    [step : {"idle"}] \cup [step : {"freeze", "answered", "failed"}, held : Snapshots]
        \cup [step : {"commit"}, held : Snapshots, found : BOOLEAN, begun : Nat]

IdsAreUnique == \A x, y \in Rows : x.id = y.id => x = y

CInv ==
    /\ published \in Seq(Snapshots)
    /\ creation \in [Requests -> Creations]
    /\ IdsAreUnique
    /\ \A s \in Requests : creation[s].step = "answered" => Agrees(creation[s].held)

LEMMA InitialConfiguration ==
    ASSUME ConfigurationInit PROVE CInv
  <1>1. published = <<>> /\ creation = [s \in Requests |-> NotBegun]
    BY DEF ConfigurationInit
  <1>2. published \in Seq(Snapshots) /\ Rows = {}
    BY <1>1, RowsAreElements DEF Rows, ToSet
  <1>3. QED
    BY <1>1, <1>2 DEF CInv, Creations, NotBegun, IdsAreUnique

LEMMA CurrentIsSnapshot ==
    ASSUME CInv, NEW b \in Builds
    PROVE  Current(b) \in Snapshots
  <1>1. CASE published = <<>>
    BY <1>1 DEF Current, Snapshots
  <1>2. CASE published # <<>>
    <2>1. Len(published) \in 1 .. Len(published)
      BY <1>2, EmptySeq, RowsAreElements DEF CInv
    <2>2. QED
      BY <1>2, <2>1, RowsAreElements DEF CInv, Current, Last
  <1>3. QED
    BY <1>1, <1>2

(* A new id joins the rows: they stay unique, and what agreed still does.  *)
LEMMA NewRowKeepsAgreement ==
    ASSUME CInv, NEW e, ~\E row \in Rows : row.id = e.id, Rows' = Rows \cup {e}
    PROVE  /\ IdsAreUnique'
           /\ \A snapshot : Agrees(snapshot) => Agrees(snapshot)'
           /\ Agrees(e)'
  <1>1. IdsAreUnique'
    BY DEF CInv, IdsAreUnique
  <1>2. \A snapshot : Agrees(snapshot) => Agrees(snapshot)'
    BY DEF Agrees
  <1>3. Agrees(e)'
    BY DEF Agrees
  <1>4. QED
    BY <1>1, <1>2, <1>3

LEMMA ConfigurationStepInv ==
    ASSUME CInv, ConfigurationNext
    PROVE  CInv'
  <1>1. ASSUME NEW s \in Requests, NEW b \in Builds, ReadCurrent(s, b) PROVE CInv'
    <2>1. /\ published' = published
          /\ creation' = [creation EXCEPT ![s] = [step |-> "freeze", held |-> Current(b)]]
      BY <1>1 DEF ReadCurrent
    <2>2. [step |-> "freeze", held |-> Current(b)] \in Creations
      BY CurrentIsSnapshot DEF Creations
    <2>3. QED
      BY <2>1, <2>2 DEF CInv, IdsAreUnique, Agrees, Rows
  <1>2. ASSUME NEW s \in Requests, BeginFreeze(s) PROVE CInv'
    <2>1. creation[s].held \in Snapshots
      BY <1>2 DEF BeginFreeze, CInv, Creations
    <2>2. Len(published) \in Nat
      BY RowsAreElements DEF CInv
    <2>3. PICK found \in BOOLEAN :
            creation' = [creation EXCEPT ![s] = [step |-> "commit", held |-> creation[s].held,
                            found |-> found, begun |-> Len(published)]]
      BY <1>2 DEF BeginFreeze
    <2>4. [step |-> "commit", held |-> creation[s].held, found |-> found,
           begun |-> Len(published)] \in Creations
      BY <2>1, <2>2 DEF Creations
    <2>5. published' = published
      BY <1>2 DEF BeginFreeze
    <2>6. QED
      BY <2>3, <2>4, <2>5 DEF CInv, IdsAreUnique, Agrees, Rows
  <1>3. ASSUME NEW s \in Requests, creation[s].step = "commit"
        PROVE  /\ creation[s].held \in Snapshots /\ creation[s].begun \in Nat
               /\ \A step \in {"answered", "failed"} :
                     [step |-> step, held |-> creation[s].held] \in Creations
    BY <1>3 DEF CInv, Creations
  <1>4. ASSUME NEW s \in Requests, ConfirmFrozen(s) PROVE CInv'
    <2>1. published' = published /\ Rows' = Rows /\ creation[s].step = "commit"
      BY <1>4 DEF ConfirmFrozen, Rows
    <2>2. PICK step \in {"answered", "failed"} :
            /\ creation' = [creation EXCEPT ![s] = [step |-> step, held |-> creation[s].held]]
            /\ step = "answered" => Agrees(creation[s].held)
      BY <1>4 DEF ConfirmFrozen, Finish
    <2>3. creation' \in [Requests -> Creations]
      BY <1>3, <2>1, <2>2 DEF CInv
    <2>4. ASSUME NEW r \in Requests, creation'[r].step = "answered"
          PROVE  Agrees(creation'[r].held)
      BY <2>2, <2>4 DEF CInv
    <2>5. QED
      BY <2>1, <2>3, <2>4 DEF CInv, IdsAreUnique, Agrees
  <1>5. ASSUME NEW s \in Requests, InsertFrozen(s) PROVE CInv'
    <2>1. creation[s].step = "commit"
      BY <1>5 DEF InsertFrozen
    <2>2. CASE Finish(s, "failed") /\ UNCHANGED published
      <3>1. creation' \in [Requests -> Creations]
        BY <1>3, <2>1, <2>2 DEF CInv, Finish
      <3>2. \A r \in Requests : creation'[r].step = "answered" =>
                creation[r].step = "answered" /\ creation'[r] = creation[r]
        BY <2>2 DEF CInv, Finish
      <3>3. QED
        BY <2>2, <3>1, <3>2 DEF CInv, IdsAreUnique, Agrees, Rows
    <2>3. CASE ~\E row \in Rows : row.id = creation[s].held.id
      <3>1. PICK place \in creation[s].begun + 1 .. Len(published) + 1 :
              published' = InsertAt(published, place, creation[s].held)
        BY <1>5, <2>3 DEF InsertFrozen
      <3>2. Finish(s, "answered")
        BY <1>5, <2>3 DEF InsertFrozen
      <3>3. place \in 1 .. Len(published) + 1
        <4>1. creation[s].begun \in Nat
          BY <1>3, <2>1
        <4>2. Len(published) \in Nat
          BY RowsAreElements DEF CInv
        <4>3. QED
          BY <4>1, <4>2
      <3>4. published' \in Seq(Snapshots) /\ Rows' = Rows \cup {creation[s].held}
        <4>1. published \in Seq(Snapshots) /\ creation[s].held \in Snapshots
          BY <1>3, <2>1 DEF CInv
        <4>2. /\ InsertAt(published, place, creation[s].held) \in Seq(Snapshots)
              /\ ToSet(InsertAt(published, place, creation[s].held))
                    = ToSet(published) \cup {creation[s].held}
          BY <3>3, <4>1, InsertedRows
        <4>3. QED
          BY <3>1, <4>2, Zenon DEF Rows
      <3>5. creation' \in [Requests -> Creations]
        BY <1>3, <2>1, <3>2 DEF CInv, Finish
      <3>6. PICK e : /\ e = creation[s].held
                     /\ IdsAreUnique' /\ Agrees(e)'
                     /\ \A snapshot : Agrees(snapshot) => Agrees(snapshot)'
        <4>1. PICK e : e = creation[s].held
          OBVIOUS
        <4>2. IdsAreUnique' /\ Agrees(e)' /\ \A other : Agrees(other) => Agrees(other)'
          BY <2>3, <3>4, <4>1, NewRowKeepsAgreement
        <4>3. QED
          BY <4>1, <4>2, Zenon
      <3>7. ASSUME NEW r \in Requests, creation'[r].step = "answered"
            PROVE  creation'[r].held = e \/ Agrees(creation'[r].held)
        BY <3>2, <3>6, <3>7 DEF CInv, Finish
      <3>8. QED
        BY <3>4, <3>5, <3>6, <3>7 DEF CInv, Agrees
    <2>4. QED
      BY <1>5, <2>2, <2>3 DEF InsertFrozen
  <1>6. ASSUME NEW snapshot \in Publishable, Publish(snapshot) PROVE CInv'
    <2>1. snapshot \in Snapshots /\ published' = Append(published, snapshot)
      BY <1>6 DEF Publish, Snapshots
    <2>2. published' \in Seq(Snapshots) /\ Rows' = Rows \cup {snapshot}
      BY <2>1, AppendedRows DEF CInv, Rows
    <2>3. IdsAreUnique' /\ \A other : Agrees(other) => Agrees(other)'
      BY <1>6, <2>2, NewRowKeepsAgreement DEF Publish
    <2>4. QED
      BY <1>6, <2>2, <2>3 DEF CInv, Publish
  <1>7. QED
    BY <1>1, <1>2, <1>4, <1>5, <1>6 DEF ConfigurationNext

-----------------------------------------------------------------------------
(* A run reads and does not write what is configured.                      *)
LEMMA RunsLeaveTheConfiguration ==
    ASSUME Next PROVE ConfigurationNext \/ UNCHANGED configurationVars
  BY DEF Next, Administer, Open, IngestAudio, IngestVideo, RuntimeFails, Offer, Complete

THEOREM ConfigurationIsSound == Spec => []CInv
  <1>1. Init => CInv
    BY InitialConfiguration DEF Init
  <1>2. CInv /\ [Next]_vars => CInv'
    <2> SUFFICES ASSUME CInv, [Next]_vars PROVE CInv'
      OBVIOUS
    <2>1. CASE ConfigurationNext
      BY <2>1, ConfigurationStepInv
    <2>2. CASE UNCHANGED configurationVars
      BY <2>2 DEF CInv, configurationVars, IdsAreUnique, Agrees, Rows
    <2>3. QED
      BY <2>1, <2>2, RunsLeaveTheConfiguration DEF vars
  <1>3. QED
    BY <1>1, <1>2, PTL DEF Spec

(* A created session's snapshot resolves in every build, and from then on, *)
(* to the payload it was created under (PostgresConfigurationStore.freeze, *)
(* resolve).                                                               *)
THEOREM FrozenResolve == Spec => []FrozenSnapshotsResolve
  <1>1. CInv => FrozenSnapshotsResolve
    <2> SUFFICES ASSUME CInv, NEW s \in Answered, NEW b \in Builds
                 PROVE  LET found == Resolve(b, creation[s].held.id)
                        IN  found # None /\ Payload(found) = Payload(creation[s].held)
      BY DEF FrozenSnapshotsResolve
    <2>1. PICK row \in Rows : row.id = creation[s].held.id
                             /\ Payload(row) = Payload(creation[s].held)
      BY DEF CInv, Answered, Agrees
    <2>2. (CHOOSE x \in Rows : x.id = creation[s].held.id) = row
      BY <2>1 DEF CInv, IdsAreUnique
    <2>3. Resolve(b, creation[s].held.id) = row
      BY <2>1, <2>2 DEF Resolve
    <2>4. row \in Snapshots
      BY <2>1, RowsAreElements DEF CInv, Rows
    <2>5. row # None
      BY <2>4, ConfigurationAssumption DEF Snapshots
    <2>6. QED
      BY <2>1, <2>3, <2>5
  <1>2. QED
    BY <1>1, ConfigurationIsSound, PTL

-----------------------------------------------------------------------------
(* The least and the greatest of some places, and sorting.                 *)

LEMMA LeastNatural ==
    ASSUME NEW T, T \subseteq Nat, T # {}
    PROVE  \E x \in T : \A y \in T : x <= y
  <1>1. PICK R : R = OpToRel(<, Nat)
    OBVIOUS
  <1>2. IsWellFoundedOn(R, Nat)
    BY <1>1, NatLessThanWellFounded
  <1>3. PICK x \in T : \A y \in T : ~(<<y, x>> \in R)
    BY <1>2, WFMin
  <1>4. ASSUME NEW y \in T PROVE x <= y
    <2>1. x \in Nat /\ y \in Nat /\ ~(<<y, x>> \in R)
      BY <1>3
    <2>2. y < x => <<y, x>> \in R
      BY <1>1, <2>1 DEF OpToRel
    <2>3. QED
      BY <2>1, <2>2
  <1>5. QED
    BY <1>4

LEMMA Extremes ==
    ASSUME NEW n \in Nat, NEW S, S \subseteq 1 .. n, S # {}
    PROVE  /\ Min(S) \in S /\ \A x \in S : Min(S) <= x
           /\ Max(S) \in S /\ \A x \in S : x <= Max(S)
  <1>1. \E x \in S : \A y \in S : x <= y
    <2>1. S \subseteq Nat
      OBVIOUS
    <2>2. QED
      BY <2>1, LeastNatural
  <1>2. PICK T : T = {n - x : x \in S}
    OBVIOUS
  <1>3. T \subseteq Nat /\ T # {}
    <2>1. \A x \in S : n - x \in Nat
      OBVIOUS
    <2>2. QED
      BY <1>2, <2>1
  <1>4. PICK t \in T : \A u \in T : t <= u
    BY <1>3, LeastNatural
  <1>5. PICK x \in S : t = n - x
    BY <1>2, <1>4
  <1>6. ASSUME NEW y \in S PROVE y <= x
    <2>1. n - y \in T
      BY <1>2
    <2>2. n - x <= n - y /\ x \in Int /\ y \in Int
      BY <1>4, <1>5, <2>1
    <2>3. QED
      BY <2>2
  <1>7. Max(S) \in S /\ \A y \in S : y <= Max(S)
    <2>1. \A y \in S : x >= y
      BY <1>6
    <2>2. \E m \in S : \A y \in S : m >= y
      BY <2>1
    <2>3. Max(S) \in S /\ \A y \in S : Max(S) >= y
      BY <2>2 DEF Max
    <2>4. QED
      BY <2>3
  <1>8. Min(S) \in S /\ \A y \in S : Min(S) <= y
    BY <1>1 DEF Min
  <1>9. QED
    BY <1>7, <1>8

(* A strict total order on a finite set numbers its members: each is found *)
(* by how many there are before it.                                        *)
StrictlyOrders(R, S) ==
    /\ \A x \in S : <<x, x>> \notin R
    /\ \A x, y, z \in S : <<x, y>> \in R /\ <<y, z>> \in R => <<x, z>> \in R
    /\ \A x, y \in S : x # y => <<x, y>> \in R \/ <<y, x>> \in R

LEMMA Ranks ==
    ASSUME NEW S, IsFiniteSet(S), NEW R, StrictlyOrders(R, S),
           NEW rank, rank = [x \in S |-> Cardinality({y \in S : <<y, x>> \in R})]
    PROVE  /\ Cardinality(S) \in Nat
           /\ \A x \in S : rank[x] \in 0 .. Cardinality(S) - 1
           /\ \A x, y \in S : <<x, y>> \in R <=> rank[x] < rank[y]
           /\ \A k \in 1 .. Cardinality(S) : \E x \in S : rank[x] = k - 1
  <1> DEFINE Below(x) == {y \in S : <<y, x>> \in R}
  <1>1. PICK c : c = Cardinality(S) /\ c \in Nat
    BY FS_CardinalityType
  <1>2. ASSUME NEW x \in S
        PROVE  /\ IsFiniteSet(Below(x)) /\ rank[x] = Cardinality(Below(x))
               /\ rank[x] \in 0 .. c - 1
    <2>1. PICK B : B = Below(x) /\ B \subseteq S /\ x \notin B
      <3>1. Below(x) \subseteq S /\ x \notin Below(x)
        BY DEF StrictlyOrders
      <3>2. QED
        BY <3>1, Zenon
    <2>2. IsFiniteSet(B) /\ IsFiniteSet(B \cup {x}) /\ Cardinality(B \cup {x}) = Cardinality(B) + 1
      <3>1. IsFiniteSet(B)
        BY <2>1, FS_Subset
      <3>2. QED
        BY <2>1, <3>1, FS_AddElement
    <2>3. Cardinality(B \cup {x}) <= c
      BY <1>1, <2>1, FS_Subset
    <2>4. Cardinality(B) \in Nat
      BY <2>2, FS_CardinalityType
    <2>5. QED
      BY <1>1, <2>1, <2>2, <2>3, <2>4
  <1> HIDE DEF Below
  <1>2a. \A x \in S : rank[x] \in 0 .. c - 1
    BY <1>2, Zenon
  <1>2b. \A x \in S : rank[x] \in Int
    BY <1>1, <1>2a
  <1> USE DEF Below
  <1>3. ASSUME NEW x \in S, NEW y \in S, <<x, y>> \in R PROVE rank[x] < rank[y]
    <2>1. Below(x) \subseteq Below(y) /\ x \in Below(y) /\ x \notin Below(x)
      BY <1>3 DEF StrictlyOrders
    <2>2. PICK B, C : B = Below(x) /\ C = Below(y)
      OBVIOUS
    <2>3. IsFiniteSet(C) /\ B \subseteq C /\ B # C /\ IsFiniteSet(B)
      BY <1>2, <2>1, <2>2
    <2>4. Cardinality(B) <= Cardinality(C) /\ Cardinality(C) # Cardinality(B)
      BY <2>3, FS_Subset
    <2>5. Cardinality(B) \in Nat /\ Cardinality(C) \in Nat
      BY <2>3, FS_CardinalityType
    <2>6. rank[x] = Cardinality(B) /\ rank[y] = Cardinality(C)
      BY <1>2, <2>2
    <2>7. QED
      BY <2>4, <2>5, <2>6
  <1>4. ASSUME NEW x \in S, NEW y \in S, rank[x] < rank[y] PROVE <<x, y>> \in R
    <2>1. rank[x] \in Int /\ rank[y] \in Int
      BY <1>2b
    <2>2. x # y /\ ~(rank[y] < rank[x])
      BY <1>4, <2>1
    <2>3. ~(<<y, x>> \in R)
      BY <1>3, <2>2
    <2>4. QED
      BY <2>2, <2>3 DEF StrictlyOrders
  <1>5. \A k \in 1 .. c : \E x \in S : rank[x] = k - 1
    <2>1. PICK T : T = 0 .. c - 1
      OBVIOUS
    <2>2. IsFiniteSet(T) /\ Cardinality(T) = c
      <3>1. PICK a \in Int, b \in Int : a = 0 /\ b = c - 1
        BY <1>1
      <3>2. IsFiniteSet(a .. b) /\ Cardinality(a .. b) = IF a > b THEN 0 ELSE b - a + 1
        BY FS_Interval, Zenon
      <3>3. QED
        BY <1>1, <2>1, <3>1, <3>2
    <2>3. rank \in Injection(S, T)
      <3>1. rank \in [S -> T]
        BY <1>2, <2>1
      <3>2. ASSUME NEW x \in S, NEW y \in S, rank[x] = rank[y] PROVE x = y
        <4>1. rank[x] \in Int /\ ~(rank[x] < rank[y]) /\ ~(rank[y] < rank[x])
          BY <1>1, <1>2, <3>2
        <4>2. ~(<<x, y>> \in R) /\ ~(<<y, x>> \in R)
          BY <1>3, <4>1
        <4>3. QED
          BY <4>2 DEF StrictlyOrders
      <3>3. QED
        BY <3>1, <3>2 DEF Injection, IsInjective
    <2>4. rank \in Surjection(S, T)
      BY <1>1, <2>2, <2>3, FS_Injection
    <2>5. \A t \in T : \E x \in S : rank[x] = t
      BY <2>4 DEF Surjection
    <2>6. \A k \in 1 .. c : k - 1 \in T
      BY <1>1, <2>1
    <2>7. QED
      BY <2>5, <2>6
  <1>6. QED
    BY <1>1, <1>2, <1>3, <1>4, <1>5

(* What a sorted sequence is: every member once, in order.                 *)
IsSorting(s, S, R) ==
    /\ s \in [1 .. Cardinality(S) -> S] /\ Cardinality(S) \in Nat
    /\ \A x \in S : \E k \in 1 .. Cardinality(S) : s[k] = x
    /\ \A j, k \in 1 .. Cardinality(S) : j < k <=> <<s[j], s[k]>> \in R

(* The member with k - 1 others before it is the k-th.                     *)
LEMMA RanksSort ==
    ASSUME NEW S, IsFiniteSet(S), NEW R, StrictlyOrders(R, S),
           NEW s, s = [k \in 1 .. Cardinality(S) |-> s[k]],
           \A k \in 1 .. Cardinality(S) :
              (\E x \in S : Cardinality({y \in S : <<y, x>> \in R}) = k - 1) =>
                 s[k] \in S /\ Cardinality({y \in S : <<y, s[k]>> \in R}) = k - 1
    PROVE  IsSorting(s, S, R)
  <1>1. PICK rank : rank = [x \in S |-> Cardinality({y \in S : <<y, x>> \in R})]
    OBVIOUS
  <1>2. PICK c : c = Cardinality(S)
    OBVIOUS
  <1>3. /\ c \in Nat
        /\ \A x \in S : rank[x] \in 0 .. c - 1
        /\ \A x, y \in S : <<x, y>> \in R <=> rank[x] < rank[y]
        /\ \A k \in 1 .. c : \E x \in S : rank[x] = k - 1
    BY <1>1, <1>2, Ranks
  <1>4. \A k \in 1 .. c : s[k] \in S /\ rank[s[k]] = k - 1
    BY <1>1, <1>2, <1>3
  <1>5. s \in [1 .. c -> S]
    BY <1>2, <1>4
  <1>6. ASSUME NEW x \in S PROVE \E k \in 1 .. c : s[k] = x
    <2>1. PICK k \in 1 .. c : rank[x] = k - 1
      <3>1. rank[x] + 1 \in 1 .. c /\ rank[x] = (rank[x] + 1) - 1
        BY <1>3
      <3>2. QED
        BY <3>1
    <2>2. s[k] \in S /\ rank[s[k]] = rank[x]
      BY <1>4, <2>1
    <2>2a. rank[x] \in Int
      BY <1>3
    <2>3. ~(<<x, s[k]>> \in R) /\ ~(<<s[k], x>> \in R)
      <3>1. ~(rank[x] < rank[s[k]]) /\ ~(rank[s[k]] < rank[x])
        BY <2>2, <2>2a
      <3>2. QED
        BY <1>3, <2>2, <3>1
    <2>4. QED
      BY <2>2, <2>3 DEF StrictlyOrders
  <1>7. ASSUME NEW j \in 1 .. c, NEW k \in 1 .. c PROVE j < k <=> <<s[j], s[k]>> \in R
    <2>1. <<s[j], s[k]>> \in R <=> rank[s[j]] < rank[s[k]]
      BY <1>3, <1>4
    <2>2. rank[s[j]] = j - 1 /\ rank[s[k]] = k - 1
      BY <1>4
    <2>3. QED
      BY <1>3, <2>1, <2>2
  <1>8. QED
    BY <1>2, <1>3, <1>5, <1>6, <1>7 DEF IsSorting

(* The places of a sequence, in order (the comprehensions).                *)
LEMMA SortedPlaces ==
    ASSUME NEW n \in Nat, NEW P, P \subseteq 1 .. n
    PROVE  /\ IsFiniteSet(P) /\ Cardinality(P) \in Nat
           /\ Sorted(P, <) \in [1 .. Cardinality(P) -> P]
           /\ \A x \in P : \E k \in 1 .. Cardinality(P) : Sorted(P, <)[k] = x
           /\ \A j, k \in 1 .. Cardinality(P) : j < k <=> Sorted(P, <)[j] < Sorted(P, <)[k]
  <1>1. IsFiniteSet(P)
    <2>1. P \subseteq Nat /\ \A x \in P : x <= n
      OBVIOUS
    <2>2. QED
      BY <2>1, FS_BoundedSetOfNaturals
  <1>2. PICK R : R = {p \in P \X P : p[1] < p[2]}
    OBVIOUS
  <1>3. \A x, y \in P : <<x, y>> \in R <=> x < y
    BY <1>2
  <1>4. StrictlyOrders(R, P)
    BY <1>3 DEF StrictlyOrders
  <1>5. PICK s : s = Sorted(P, <)
    OBVIOUS
  <1>6. \A x \in P : {y \in P : y < x} = {y \in P : <<y, x>> \in R}
    BY <1>3
  <1>7. /\ s = [k \in 1 .. Cardinality(P) |-> s[k]]
        /\ \A k \in 1 .. Cardinality(P) :
              (\E x \in P : Cardinality({y \in P : <<y, x>> \in R}) = k - 1) =>
                 s[k] \in P /\ Cardinality({y \in P : <<y, s[k]>> \in R}) = k - 1
    <2> DEFINE e(k) == CHOOSE x \in P : Cardinality({y \in P : y < x}) = k - 1
    <2>1. s = [k \in 1 .. Cardinality(P) |-> e(k)]
      BY <1>5 DEF Sorted
    <2>2. ASSUME NEW k \in 1 .. Cardinality(P),
                 NEW x \in P, Cardinality({y \in P : <<y, x>> \in R}) = k - 1
          PROVE  s[k] \in P /\ Cardinality({y \in P : <<y, s[k]>> \in R}) = k - 1
      <3>1. Cardinality({y \in P : y < x}) = k - 1
        BY <1>6, <2>2, Zenon
      <3>2. s[k] = CHOOSE z \in P : Cardinality({y \in P : y < z}) = k - 1
        BY <2>1, Zenon
      <3>3. s[k] \in P /\ Cardinality({y \in P : y < s[k]}) = k - 1
        BY <3>1, <3>2, Zenon
      <3>4. QED
        BY <1>6, <3>3, Zenon
    <2> HIDE DEF e
    <2>3. s = [k \in 1 .. Cardinality(P) |-> s[k]]
      BY <2>1
    <2>4. QED
      BY <2>2, <2>3, Zenon
  <1>8. IsSorting(s, P, R)
    BY <1>1, <1>4, <1>7, RanksSort, Zenon
  <1>9. QED
    BY <1>1, <1>3, <1>5, <1>8, Zenon DEF IsSorting

(* What a sequence holds at some of its places.                            *)
IsPlacing(place, s, P) ==
    /\ place \in [1 .. Cardinality(P) -> P]
    /\ \A x \in P : \E k \in 1 .. Cardinality(P) : place[k] = x
    /\ \A j, k \in 1 .. Cardinality(P) : j < k <=> place[j] < place[k]
    /\ \A k \in 1 .. Cardinality(P) : Those(s, P)[k] = s[place[k]]

LEMMA ThoseAreThere ==
    ASSUME NEW S, NEW s \in Seq(S), NEW P, P \subseteq DOMAIN s
    PROVE  /\ IsFiniteSet(P) /\ Cardinality(P) \in Nat
           /\ Those(s, P) \in Seq(S) /\ DOMAIN Those(s, P) = 1 .. Cardinality(P)
           /\ Len(Those(s, P)) = Cardinality(P)
           /\ \E place : IsPlacing(place, s, P)
  <1>1. DOMAIN s = 1 .. Len(s) /\ Len(s) \in Nat /\ \A x \in DOMAIN s : s[x] \in S
    BY LenProperties
  <1>2. PICK place : place = Sorted(P, <)
    OBVIOUS
  <1>3. PICK c : c = Cardinality(P)
    OBVIOUS
  <1>4. /\ IsFiniteSet(P) /\ c \in Nat
        /\ place \in [1 .. c -> P]
        /\ \A x \in P : \E k \in 1 .. c : place[k] = x
        /\ \A j, k \in 1 .. c : j < k <=> place[j] < place[k]
    BY <1>1, <1>2, <1>3, SortedPlaces, Zenon
  <1>5. Those(s, P) = [k \in 1 .. c |-> s[place[k]]]
    BY <1>2, <1>3 DEF Those
  <1>6. \A k \in 1 .. c : s[place[k]] \in S
    BY <1>1, <1>4
  <1>7. Those(s, P) \in [1 .. c -> S] /\ \A k \in 1 .. c : Those(s, P)[k] = s[place[k]]
    BY <1>5, <1>6
  <1>8. Those(s, P) \in Seq(S) /\ Len(Those(s, P)) = c /\ DOMAIN Those(s, P) = 1 .. c
    <2>1. Those(s, P) \in Seq(S)
      BY <1>4, <1>7, SeqDef
    <2>2. QED
      BY <1>4, <1>7, <2>1
  <1>9. IsPlacing(place, s, P)
    BY <1>3, <1>4, <1>7, Zenon DEF IsPlacing
  <1>10. QED
    BY <1>3, <1>4, <1>8, <1>9, Zenon

(* Events whose identifiers differ are in one order (_ordered).            *)
Identified(E) ==
    /\ \A e \in E : e.start \in Int /\ e.end \in Int /\ e.id \in DOMAIN DigestOf
    /\ \A e, f \in E : e.id = f.id => e = f

LEMMA SortedEvents ==
    ASSUME NEW E, IsFiniteSet(E), Identified(E)
    PROVE  /\ Cardinality(E) \in Nat
           /\ Sorted(E, InOrder) \in [1 .. Cardinality(E) -> E]
           /\ \A e \in E : \E k \in 1 .. Cardinality(E) : Sorted(E, InOrder)[k] = e
           /\ \A j, k \in 1 .. Cardinality(E) :
                 j < k <=> InOrder(Sorted(E, InOrder)[j], Sorted(E, InOrder)[k])
  <1>1. PICK R : R = {p \in E \X E : InOrder(p[1], p[2])}
    OBVIOUS
  <1>2. \A x, y \in E : <<x, y>> \in R <=> InOrder(x, y)
    BY <1>1
  <1>3. StrictlyOrders(R, E)
    <2>1. \A x \in E : /\ x.start \in Int /\ x.end \in Int /\ DigestOf[x.id] \in Int
                       /\ x.id \in DOMAIN DigestOf
      BY IdentifiersAssumption DEF Identified
    <2>2. \A x \in E : ~InOrder(x, x)
      BY <2>1 DEF InOrder
    <2>3. \A x, y, z \in E : InOrder(x, y) /\ InOrder(y, z) => InOrder(x, z)
      BY <2>1 DEF InOrder
    <2>4. \A x, y \in E : x # y => DigestOf[x.id] # DigestOf[y.id]
      BY <2>1, IdentifiersAssumption DEF Identified
    <2>5. \A x, y \in E : x # y => InOrder(x, y) \/ InOrder(y, x)
      BY <2>1, <2>4 DEF InOrder
    <2>6. QED
      BY <1>2, <2>2, <2>3, <2>5, Zenon DEF StrictlyOrders
  <1>5. PICK s : s = Sorted(E, InOrder)
    OBVIOUS
  <1>6. \A x \in E : {y \in E : InOrder(y, x)} = {y \in E : <<y, x>> \in R}
    BY <1>2
  <1>7. /\ s = [k \in 1 .. Cardinality(E) |-> s[k]]
        /\ \A k \in 1 .. Cardinality(E) :
              (\E x \in E : Cardinality({y \in E : <<y, x>> \in R}) = k - 1) =>
                 s[k] \in E /\ Cardinality({y \in E : <<y, s[k]>> \in R}) = k - 1
    <2> DEFINE e(k) == CHOOSE x \in E : Cardinality({y \in E : InOrder(y, x)}) = k - 1
    <2>1. s = [k \in 1 .. Cardinality(E) |-> e(k)]
      BY <1>5 DEF Sorted
    <2>2. ASSUME NEW k \in 1 .. Cardinality(E),
                 NEW x \in E, Cardinality({y \in E : <<y, x>> \in R}) = k - 1
          PROVE  s[k] \in E /\ Cardinality({y \in E : <<y, s[k]>> \in R}) = k - 1
      <3>1. Cardinality({y \in E : InOrder(y, x)}) = k - 1
        BY <1>6, <2>2, Zenon
      <3>2. s[k] = CHOOSE z \in E : Cardinality({y \in E : InOrder(y, z)}) = k - 1
        BY <2>1, Zenon
      <3>3. s[k] \in E /\ Cardinality({y \in E : InOrder(y, s[k])}) = k - 1
        BY <3>1, <3>2, Zenon
      <3>4. QED
        BY <1>6, <3>3, Zenon
    <2> HIDE DEF e
    <2>3. s = [k \in 1 .. Cardinality(E) |-> s[k]]
      BY <2>1
    <2>4. QED
      BY <2>2, <2>3, Zenon
  <1>8. IsSorting(s, E, R)
    BY <1>3, <1>7, RanksSort, Zenon
  <1>9. QED
    BY <1>2, <1>5, <1>8, Zenon DEF IsSorting

(* The steps of one loop inside another, one after another (correlate).    *)
LEMMA SortedSteps ==
    ASSUME NEW m \in Nat, NEW n \in Nat, NEW P, P \subseteq (1 .. m) \X (1 .. n)
    PROVE  /\ Cardinality(P) \in Nat
           /\ Sorted(P, Lexicographic) \in [1 .. Cardinality(P) -> P]
           /\ \A p \in P : \E k \in 1 .. Cardinality(P) : Sorted(P, Lexicographic)[k] = p
           /\ \A j, k \in 1 .. Cardinality(P) :
                 j < k <=> Lexicographic(Sorted(P, Lexicographic)[j], Sorted(P, Lexicographic)[k])
  <1>1. IsFiniteSet(P)
    <2>1. IsFiniteSet(1 .. m) /\ IsFiniteSet(1 .. n)
      BY FS_Interval
    <2>2. PICK A, B : A = 1 .. m /\ B = 1 .. n
      OBVIOUS
    <2>3. IsFiniteSet(A \X B) /\ P \subseteq A \X B
      BY <2>1, <2>2, FS_Product
    <2>4. QED
      BY <2>3, FS_Subset
  <1>2. PICK R : R = {p \in P \X P : Lexicographic(p[1], p[2])}
    OBVIOUS
  <1>3. \A x, y \in P : <<x, y>> \in R <=> Lexicographic(x, y)
    BY <1>2
  <1>4. StrictlyOrders(R, P)
    <2>1. \A x \in P : x[1] \in Int /\ x[2] \in Int /\ x = <<x[1], x[2]>>
      OBVIOUS
    <2>2. \A x \in P : ~Lexicographic(x, x)
      BY <2>1 DEF Lexicographic
    <2>3. \A x, y, z \in P : Lexicographic(x, y) /\ Lexicographic(y, z) => Lexicographic(x, z)
      BY <2>1 DEF Lexicographic
    <2>4. \A x, y \in P : x # y => Lexicographic(x, y) \/ Lexicographic(y, x)
      BY <2>1 DEF Lexicographic
    <2>5. QED
      BY <1>3, <2>2, <2>3, <2>4, Zenon DEF StrictlyOrders
  <1>5. PICK s : s = Sorted(P, Lexicographic)
    OBVIOUS
  <1>6. \A x \in P : {y \in P : Lexicographic(y, x)} = {y \in P : <<y, x>> \in R}
    BY <1>3
  <1>7. /\ s = [k \in 1 .. Cardinality(P) |-> s[k]]
        /\ \A k \in 1 .. Cardinality(P) :
              (\E x \in P : Cardinality({y \in P : <<y, x>> \in R}) = k - 1) =>
                 s[k] \in P /\ Cardinality({y \in P : <<y, s[k]>> \in R}) = k - 1
    <2> DEFINE e(k) == CHOOSE x \in P : Cardinality({y \in P : Lexicographic(y, x)}) = k - 1
    <2>1. s = [k \in 1 .. Cardinality(P) |-> e(k)]
      BY <1>5 DEF Sorted
    <2>2. ASSUME NEW k \in 1 .. Cardinality(P),
                 NEW x \in P, Cardinality({y \in P : <<y, x>> \in R}) = k - 1
          PROVE  s[k] \in P /\ Cardinality({y \in P : <<y, s[k]>> \in R}) = k - 1
      <3>1. Cardinality({y \in P : Lexicographic(y, x)}) = k - 1
        BY <1>6, <2>2, Zenon
      <3>2. s[k] = CHOOSE z \in P : Cardinality({y \in P : Lexicographic(y, z)}) = k - 1
        BY <2>1, Zenon
      <3>3. s[k] \in P /\ Cardinality({y \in P : Lexicographic(y, s[k])}) = k - 1
        BY <3>1, <3>2, Zenon
      <3>4. QED
        BY <1>6, <3>3, Zenon
    <2> HIDE DEF e
    <2>3. s = [k \in 1 .. Cardinality(P) |-> s[k]]
      BY <2>1
    <2>4. QED
      BY <2>2, <2>3, Zenon
  <1>8. IsSorting(s, P, R)
    BY <1>1, <1>4, <1>7, RanksSort, Zenon
  <1>9. QED
    BY <1>3, <1>5, <1>8, Zenon DEF IsSorting
-----------------------------------------------------------------------------
(* Calibration.                                                            *)

LEMMA WithinBounds ==
    ASSUME NEW low \in Int, NEW high \in Int, low <= high, NEW v \in Int
    PROVE  /\ Within(low, high, v) = IF v < low THEN low ELSE IF v > high THEN high ELSE v
           /\ Within(low, high, v) \in low .. high
  <1>1. PICK m : m = Max({low, v}) /\ m = IF v < low THEN low ELSE v
    BY DEF Max
  <1>2. m \in Int
    BY <1>1
  <1>3. Min({m, high}) = IF m > high THEN high ELSE m
    BY <1>2 DEF Min
  <1>4. QED
    BY <1>1, <1>3 DEF Within

(* The scores of a curve never fall, from its first point to its last.     *)
LEMMA CurvesRise ==
    ASSUME NEW p \in Seq(Int \X Int), IsCurve(p)
    PROVE  /\ Len(p) \in Nat /\ Len(p) >= 2 /\ DOMAIN p = 1 .. Len(p)
           /\ \A n \in 1 .. Len(p) : p[n][1] \in Int /\ p[n][2] \in 0 .. 100
           /\ \A n \in 1 .. Len(p) - 1 : p[n][1] <= p[n + 1][1] /\ p[n][2] <= p[n + 1][2]
           /\ p[1][1] <= p[Len(p)][1]
  <1>1. Len(p) \in Nat /\ DOMAIN p = 1 .. Len(p) /\ \A n \in 1 .. Len(p) : p[n] \in Int \X Int
    BY LenProperties, ElementOfSeq
  <1>2. \A n \in 1 .. Len(p) : p[n][1] \in Int /\ p[n][2] \in 0 .. 100
    BY <1>1 DEF IsCurve
  <1>3. /\ Len(p) >= 2
        /\ \A n \in 1 .. Len(p) - 1 : p[n][1] <= p[n + 1][1] /\ p[n][2] <= p[n + 1][2]
    BY DEF IsCurve
  <1>4. PICK T : T = {n \in 1 .. Len(p) : p[n][1] < p[1][1]}
    OBVIOUS
  <1>5. T = {}
    <2>1. SUFFICES ASSUME T # {} PROVE FALSE
      OBVIOUS
    <2>2. T \subseteq Nat
      BY <1>4
    <2>3. PICK n \in T : \A m \in T : n <= m
      BY <2>1, <2>2, LeastNatural
    <2>4. n \in 1 .. Len(p) /\ p[n][1] < p[1][1]
      BY <1>4
    <2>5. n # 1 /\ n - 1 \in 1 .. Len(p) - 1 /\ 1 \in 1 .. Len(p) /\ n - 1 \in 1 .. Len(p)
      BY <1>1, <1>2, <2>4
    <2>6. n - 1 \notin T
      BY <2>3, <2>4, <2>5
    <2>7. ~(p[n - 1][1] < p[1][1])
      BY <1>4, <2>5, <2>6
    <2>8. p[n - 1][1] <= p[(n - 1) + 1][1] /\ (n - 1) + 1 = n
      BY <1>3, <2>4, <2>5
    <2>9. p[n][1] \in Int /\ p[n - 1][1] \in Int /\ p[1][1] \in Int
      BY <1>2, <2>4, <2>5
    <2>10. p[n - 1][1] <= p[n][1]
      BY <2>8
    <2>11. QED
      BY <2>4, <2>7, <2>9, <2>10
  <1>6. p[1][1] <= p[Len(p)][1]
    <2>1. Len(p) \in 1 .. Len(p) /\ 1 \in 1 .. Len(p)
      BY <1>1, <1>3
    <2>2. ~(p[Len(p)][1] < p[1][1])
      BY <1>4, <1>5, <2>1
    <2>3. QED
      BY <1>2, <2>1, <2>2
  <1>7. QED
    BY <1>1, <1>2, <1>3, <1>6

(* A number between the first score and the last lies between two points.  *)
LEMMA PointsBracket ==
    ASSUME NEW p \in Seq(Int \X Int), IsCurve(p), NEW x \in p[1][1] .. p[Len(p)][1]
    PROVE  LET k == Min({n \in 1 .. Len(p) - 1 : p[n][1] <= x /\ x <= p[n + 1][1]})
           IN  k \in 1 .. Len(p) - 1 /\ p[k][1] <= x /\ x <= p[k + 1][1]
  <1>1. /\ Len(p) \in Nat /\ Len(p) >= 2
        /\ \A n \in 1 .. Len(p) : p[n][1] \in Int
    BY CurvesRise
  <1>2. PICK T : T = {n \in 2 .. Len(p) : x <= p[n][1]}
    OBVIOUS
  <1>3. T \subseteq Nat /\ Len(p) \in T
    BY <1>1, <1>2
  <1>4. PICK m \in T : \A n \in T : m <= n
    BY <1>3, LeastNatural
  <1>5. m \in 2 .. Len(p) /\ x <= p[m][1]
    BY <1>2
  <1>6. p[m - 1][1] <= x
    <2>1. CASE m = 2
      BY <1>1, <2>1
    <2>2. CASE m # 2
      <3>1. m - 1 \in 2 .. Len(p) /\ m - 1 \in 1 .. Len(p) /\ ~(m <= m - 1)
        BY <1>1, <1>5, <2>2
      <3>2. m - 1 \notin T
        BY <1>4, <3>1
      <3>3. ~(x <= p[m - 1][1])
        BY <1>2, <3>1, <3>2
      <3>4. QED
        BY <1>1, <3>1, <3>3
    <2>3. QED
      BY <2>1, <2>2
  <1>7. PICK S : S = {n \in 1 .. Len(p) - 1 : p[n][1] <= x /\ x <= p[n + 1][1]}
    OBVIOUS
  <1>8. m - 1 \in 1 .. Len(p) - 1 /\ (m - 1) + 1 = m /\ Len(p) - 1 \in Nat
    BY <1>1, <1>5
  <1>9. m - 1 \in S
    BY <1>5, <1>6, <1>7, <1>8
  <1>10. Min(S) \in S
    BY <1>7, <1>8, <1>9, Extremes
  <1>11. QED
    BY <1>7, <1>10

LEMMA Interpolation ==
    ASSUME NEW d \in Nat, NEW run \in Nat, run # 0, d <= run, NEW rise \in Nat
    PROVE  (d * rise) \div run \in 0 .. rise
  <1>1. PICK q : q = (d * rise) \div run
    OBVIOUS
  <1>2. d * rise \in Nat /\ d * rise <= run * rise
    <2>1. (run - d) \in Nat
      OBVIOUS
    <2>2. (run - d) * rise \in Nat /\ d * rise \in Nat
      BY <2>1
    <2>3. (run - d) * rise = run * rise - d * rise
      OBVIOUS
    <2>4. QED
      BY <2>2, <2>3
  <1>3. q \in Int /\ run * q <= d * rise /\ d * rise < run * q + run
    BY <1>1, <1>2
  <1>4. q >= 0
    <2>1. SUFFICES ASSUME q < 0 PROVE FALSE
      BY <1>3
    <2>2. (0 - q) - 1 \in Nat
      BY <1>3, <2>1
    <2>3. run * ((0 - q) - 1) \in Nat
      BY <2>2
    <2>4. run * ((0 - q) - 1) = 0 - run * q - run
      BY <1>3
    <2>5. QED
      BY <1>2, <1>3, <2>3, <2>4
  <1>5. q <= rise
    <2>1. SUFFICES ASSUME q > rise PROVE FALSE
      BY <1>3
    <2>2. (q - rise) - 1 \in Nat
      BY <1>3, <2>1
    <2>3. run * ((q - rise) - 1) \in Nat
      BY <2>2
    <2>4. run * ((q - rise) - 1) = run * q - run * rise - run
      BY <1>3
    <2>5. QED
      BY <1>2, <1>3, <2>3, <2>4
  <1>6. QED
    BY <1>1, <1>3, <1>4, <1>5

(* A fitted probability is one: it needs no clamping.                      *)
LEMMA CurvesGivePercentages ==
    ASSUME NEW p \in Seq(Int \X Int), IsCurve(p), NEW raw \in Int
    PROVE  ApplyCurve(p, raw) \in 0 .. 100
  <1>1. /\ Len(p) \in Nat /\ Len(p) >= 2
        /\ \A n \in 1 .. Len(p) : p[n][1] \in Int /\ p[n][2] \in 0 .. 100
        /\ \A n \in 1 .. Len(p) - 1 : p[n][1] <= p[n + 1][1] /\ p[n][2] <= p[n + 1][2]
        /\ p[1][1] <= p[Len(p)][1]
    BY CurvesRise
  <1>2. PICK x : x = Within(p[1][1], Last(p)[1], raw)
    OBVIOUS
  <1>3. x \in p[1][1] .. p[Len(p)][1]
    <2>1. Last(p) = p[Len(p)] /\ p[1][1] \in Int /\ p[Len(p)][1] \in Int
      BY <1>1 DEF Last
    <2>2. QED
      BY <1>1, <1>2, <2>1, WithinBounds
  <1>4. PICK k : k = Min({n \in 1 .. Len(p) - 1 : p[n][1] <= x /\ x <= p[n + 1][1]})
    OBVIOUS
  <1>5. k \in 1 .. Len(p) - 1 /\ p[k][1] <= x /\ x <= p[k + 1][1]
    BY <1>3, <1>4, PointsBracket
  <1>6. PICK run, rise, y : /\ run = p[k + 1][1] - p[k][1] /\ rise = p[k + 1][2] - p[k][2]
                            /\ y = p[k][2]
    OBVIOUS
  <1>7. ApplyCurve(p, raw) = IF run = 0 THEN p[k + 1][2]
                             ELSE y + ((x - p[k][1]) * rise) \div run
    BY <1>2, <1>4, <1>6, Zenon DEF ApplyCurve
  <1>8. k \in 1 .. Len(p) /\ k + 1 \in 1 .. Len(p)
    <2>1. PICK n : n = Len(p) /\ n \in Nat /\ k \in 1 .. n - 1
      BY <1>1, <1>5, Zenon
    <2>2. k \in 1 .. n /\ k + 1 \in 1 .. n
      BY <2>1
    <2>3. QED
      BY <2>1, <2>2, Zenon
  <1>9. /\ p[k][1] \in Int /\ p[k + 1][1] \in Int /\ y \in 0 .. 100 /\ p[k + 1][2] \in 0 .. 100
        /\ p[k + 1][2] = y + rise /\ rise \in Nat /\ run \in Nat
        /\ x - p[k][1] \in Nat /\ x - p[k][1] <= run
    <2>1. PICK a, b, z : a = p[k][1] /\ b = p[k + 1][1] /\ z = p[k + 1][2]
      OBVIOUS
    <2>2. /\ a \in Int /\ b \in Int /\ y \in 0 .. 100 /\ z \in 0 .. 100
          /\ a <= b /\ y <= z /\ a <= x /\ x <= b
      BY <1>1, <1>5, <1>6, <1>8, <2>1, Zenon
    <2>3. run = b - a /\ rise = z - y
      BY <1>6, <2>1, Zenon
    <2>4. x \in Int
      BY <1>3
    <2>5. /\ z = y + rise /\ rise \in Nat /\ run \in Nat /\ x - a \in Nat /\ x - a <= run
      BY <2>2, <2>3, <2>4
    <2>6. QED
      BY <2>1, <2>2, <2>5, Zenon
  <1>10. CASE run = 0
    BY <1>7, <1>9, <1>10
  <1>11. CASE run # 0
    <2>1. PICK q : q = ((x - p[k][1]) * rise) \div run /\ q \in 0 .. rise
      BY <1>9, <1>11, Interpolation
    <2>2. ApplyCurve(p, raw) = y + q
      BY <1>7, <1>11, <2>1, Zenon
    <2>3. PICK z : z = y + rise /\ z \in 0 .. 100 /\ y \in 0 .. 100 /\ rise \in Nat
      BY <1>9
    <2>4. y + q \in 0 .. 100
      <3>1. q \in 0 .. rise
        BY <2>1, Zenon
      <3>2. QED
        BY <2>3, <3>1
    <2>5. QED
      BY <2>2, <2>4
  <1>12. QED
    BY <1>10, <1>11

Confidences == [value : Int, calibrated : BOOLEAN]

LEMMA CalibrateTyped ==
    ASSUME NEW class, NEW score \in Int
    PROVE  Calibrate(class, score) \in Confidences
  <1>1. CASE class \in DOMAIN Curves
    <2>1. PICK v : v = ApplyCurve(Curves[class], score) /\ v \in 0 .. 100
      BY <1>1, CurvesAreFitted, CurvesGivePercentages
    <2>2. Calibrate(class, score) = [value |-> Within(0, 100, v), calibrated |-> TRUE]
      BY <1>1, <2>1 DEF Calibrate
    <2>3. Within(0, 100, v) \in Int
      BY <2>1, WithinBounds
    <2>4. QED
      BY <2>2, <2>3 DEF Confidences
  <1>2. CASE class \notin DOMAIN Curves
    <2>1. Within(0, 100, score) \in Int
      BY WithinBounds
    <2>2. QED
      BY <1>2, <2>1 DEF Calibrate, Confidences
  <1>3. QED
    BY <1>1, <1>2

(* The gate lets through what is confirmed.                                *)
LEMMA GateConfirms ==
    ASSUME NEW h \in VisualHypotheses, NEW gate \in Int
    PROVE  PassesGate(h, gate) <=>
              (h.class \in OptionalClasses =>
                  h.class \in DOMAIN Curves /\ ApplyCurve(Curves[h.class], h.score) >= gate)
  <1>1. h.score \in Int
    BY DEF VisualHypotheses
  <1>2. CASE h.class \in DOMAIN Curves
    <2>1. PICK v : v = ApplyCurve(Curves[h.class], h.score) /\ v \in 0 .. 100
      BY <1>1, <1>2, CurvesAreFitted, CurvesGivePercentages
    <2>2. Within(0, 100, v) = v
      <3>1. v \in Int /\ 0 \in Int /\ 100 \in Int /\ 0 <= 100 /\ ~(v < 0) /\ ~(v > 100)
        BY <2>1
      <3>2. Within(0, 100, v) = IF v < 0 THEN 0 ELSE IF v > 100 THEN 100 ELSE v
        BY <3>1, WithinBounds
      <3>3. QED
        BY <3>1, <3>2, Zenon
    <2>3. Calibrate(h.class, h.score) = [value |-> v, calibrated |-> TRUE]
      BY <1>2, <2>1, <2>2 DEF Calibrate
    <2>4. Meets(Calibrate(h.class, h.score), gate) <=> v >= gate
      BY <2>3 DEF Meets
    <2>5. QED
      BY <1>2, <2>1, <2>4 DEF PassesGate
  <1>3. CASE h.class \notin DOMAIN Curves
    <2>1. ~Meets(Calibrate(h.class, h.score), gate)
      BY <1>3 DEF Meets, Calibrate
    <2>2. QED
      BY <1>3, <2>1 DEF PassesGate
  <1>4. QED
    BY <1>2, <1>3

-----------------------------------------------------------------------------
(* The evidence, and what becomes of it in a row and back.                 *)

\* A word, provisional or final.
TokenWith(h, final) ==
    [id |-> <<h.start \div Bucket, h.text>>, start |-> h.start, end |-> h.end,
     text |-> h.text, confidence |-> Calibrate("word", h.score), final |-> final]

Tokens == {TokenWith(h, f) : h \in WordHypotheses, f \in BOOLEAN}

SpeechEvents ==
    {e \in {SpeechEventOf(h) : h \in SpeechHypotheses} : IsSpeechEvent(e)}

VisualEvents ==
    {e \in {VisualEventOf(h) : h \in VisualHypotheses} : IsVisualEvent(e)}

Readings == {ProsodyOf(h) : h \in ProsodyHypotheses}

Metrics ==
    {"face_visibility_ratio", "mean_luminance", "framing_coverage", "landmark_confidence"}

Assessments ==
    {[modality |-> "video", metric |-> metric, start |-> signal.start, end |-> signal.end,
      value |-> Measured(value, "ratio", Certain)] :
        metric \in Metrics, signal \in Signals, value \in Int}

Availabilities == {AvailabilityOf(signal) : signal \in Signals}

LEMMA NullableReadBack ==
    ASSUME NEW x PROVE OrAbsent(Nullable(x)) = x
  <1>1. <<x>> # <<>> /\ <<x>>[1] = x
    OBVIOUS
  <1>2. QED
    BY <1>1 DEF OrAbsent, Nullable, Null

LEMMA ConfidenceReadBack ==
    ASSUME NEW c \in Confidences PROVE ConfidenceFrom(c.value, StateOf(c)) = c
  BY DEF Confidences, ConfidenceFrom, StateOf

LEMMA TokensReadBack ==
    ASSUME NEW t \in Tokens PROVE RowToken(TokenRow(t)) = t
  <1>1. PICK h \in WordHypotheses, f \in BOOLEAN : t = TokenWith(h, f)
    BY DEF Tokens
  <1>2. PICK c : c = Calibrate("word", h.score) /\ c \in Confidences
    BY CalibrateTyped DEF WordHypotheses
  <1>3. PICK i : t = [id |-> i, start |-> h.start, end |-> h.end, text |-> h.text,
                      confidence |-> c, final |-> f]
    BY <1>1, <1>2 DEF TokenWith
  <1>4. ConfidenceFrom(c.value, StateOf(c)) = c
    BY <1>2, ConfidenceReadBack
  <1>5. ((IF f THEN "final" ELSE "provisional") = "final") = f
    OBVIOUS
  <1>6. QED
    BY <1>3, <1>4, <1>5 DEF RowToken, TokenRow

\* What a word is ordered by.
LEMMA TokenKeys ==
    ASSUME NEW t \in Tokens
    PROVE  t.start \in Int /\ t.end \in Int /\ t.id \in DOMAIN DigestOf /\ DigestOf[t.id] \in Int
  <1>1. PICK h \in WordHypotheses, f \in BOOLEAN : t = TokenWith(h, f)
    BY DEF Tokens
  <1>2. /\ h.start \in Int /\ h.end \in Int
        /\ <<h.start \div Bucket, h.text>> \in DOMAIN DigestOf
    BY DEF WordHypotheses
  <1>3. t.start = h.start /\ t.end = h.end /\ t.id = <<h.start \div Bucket, h.text>>
    BY <1>1 DEF TokenWith
  <1>4. QED
    BY <1>2, <1>3, IdentifiersAssumption

LEMMA SpeechEventTyped ==
    ASSUME NEW e \in SpeechEvents
    PROVE  /\ e = [id |-> e.id, class |-> e.class, start |-> e.start, end |-> e.end,
                   confidence |-> e.confidence, text |-> e.text, role |-> e.role]
           /\ e.id \in DOMAIN DigestOf /\ e.confidence \in Confidences
           /\ e.start \in Int /\ e.end \in Int /\ IsInterval(e)
  <1>1. PICK h \in SpeechHypotheses : e = SpeechEventOf(h) /\ IsInterval(e)
    BY DEF SpeechEvents, IsSpeechEvent
  <1>2. /\ h.score \in Int /\ h.start \in Int /\ h.end \in Int
        /\ EventId(h.class, h.start, h.text) \in DOMAIN DigestOf
    BY DEF SpeechHypotheses
  <1>3. PICK c : c = Calibrate(h.class, h.score) /\ c \in Confidences
    BY <1>2, CalibrateTyped
  <1>4. PICK i : i = EventId(h.class, h.start, h.text) /\ i \in DOMAIN DigestOf
    BY <1>2
  <1>5. PICK role : e = [id |-> i, class |-> h.class, start |-> h.start, end |-> h.end,
                         confidence |-> c, text |-> h.text, role |-> role]
    BY <1>1, <1>3, <1>4, Zenon DEF SpeechEventOf
  <1>6. QED
    BY <1>1, <1>2, <1>3, <1>4, <1>5

LEMMA SpeechReadsBack ==
    ASSUME NEW e \in SpeechEvents PROVE RowSpeech(SpeechRow(e)) = e
  <1>1. PICK c : c = ConfidenceFrom(e.confidence.value, StateOf(e.confidence)) /\ c = e.confidence
    BY ConfidenceReadBack, SpeechEventTyped
  <1>2. PICK role : role = OrAbsent(Nullable(e.role)) /\ role = e.role
    BY NullableReadBack
  <1>3. RowSpeech(SpeechRow(e)) =
            [id |-> e.id, class |-> e.class, start |-> e.start, end |-> e.end, text |-> e.text,
             role |-> role, confidence |-> c]
    BY <1>1, <1>2 DEF RowSpeech, SpeechRow
  <1>4. QED
    BY <1>1, <1>2, <1>3, SpeechEventTyped

LEMMA VisualEventTyped ==
    ASSUME NEW e \in VisualEvents
    PROVE  /\ e = [id |-> e.id, class |-> e.class, start |-> e.start, end |-> e.end,
                   confidence |-> e.confidence, direction |-> e.direction]
           /\ e.id \in DOMAIN DigestOf /\ e.confidence \in Confidences
           /\ e.start \in Int /\ e.end \in Int /\ IsInterval(e)
  <1>1. PICK h \in VisualHypotheses : e = VisualEventOf(h) /\ IsInterval(e)
    BY DEF VisualEvents, IsVisualEvent
  <1>2. /\ h.score \in Int /\ h.start \in Int /\ h.end \in Int
        /\ EventId(h.class, h.start, "") \in DOMAIN DigestOf
    BY DEF VisualHypotheses
  <1>3. PICK c : c = Calibrate(h.class, h.score) /\ c \in Confidences
    BY <1>2, CalibrateTyped
  <1>4. PICK i : i = EventId(h.class, h.start, "") /\ i \in DOMAIN DigestOf
    BY <1>2, Zenon
  <1>5. e = [id |-> i, class |-> h.class, start |-> h.start, end |-> h.end, confidence |-> c,
             direction |-> h.direction]
    BY <1>1, <1>3, <1>4, Zenon DEF VisualEventOf
  <1>6. /\ e.id = i /\ e.class = h.class /\ e.start = h.start /\ e.end = h.end
        /\ e.confidence = c /\ e.direction = h.direction
    BY <1>5
  <1>7. QED
    BY <1>1, <1>2, <1>3, <1>4, <1>5, <1>6, Zenon

LEMMA VisualReadsBack ==
    ASSUME NEW e \in VisualEvents PROVE RowVisual(VisualRow(e)) = e
  <1>1. PICK c : c = ConfidenceFrom(e.confidence.value, StateOf(e.confidence)) /\ c = e.confidence
    BY ConfidenceReadBack, VisualEventTyped
  <1>2. PICK direction : direction = OrAbsent(Nullable(e.direction)) /\ direction = e.direction
    BY NullableReadBack
  <1>3. RowVisual(VisualRow(e)) =
            [id |-> e.id, class |-> e.class, start |-> e.start, end |-> e.end,
             direction |-> direction, confidence |-> c]
    BY <1>1, <1>2 DEF RowVisual, VisualRow
  <1>4. QED
    BY <1>1, <1>2, <1>3, VisualEventTyped

(* A reading comes back but for its model, which no row says.              *)
LEMMA ReadingsReadBack ==
    ASSUME NEW r \in Readings, NEW model
    PROVE  RowProsody(ProsodyRow(r), model) =
              [indicator |-> r.indicator, start |-> r.start, end |-> r.end,
               model |-> model, value |-> r.value]
  <1>1. PICK m, row : row = ProsodyRow(r) /\ m = row.measure
    OBVIOUS
  <1>2. row.indicator = r.indicator /\ row.start = r.start /\ row.end = r.end
    BY <1>1 DEF ProsodyRow
  <1>3. PICK v : v = r.value
    OBVIOUS
  <1>4. PICK h \in ProsodyHypotheses : r = ProsodyOf(h)
    BY DEF Readings
  <1>5. PICK c : c = Calibrate(h.indicator, h.score) /\ c \in Confidences
    BY CalibrateTyped DEF ProsodyHypotheses
  <1>6. PICK unit, x, reason :
            v = IF h.value = Null THEN [reason |-> reason]
                ELSE [value |-> x, unit |-> unit, confidence |-> c]
    BY <1>3, <1>4, <1>5 DEF ProsodyOf, Unavailable, Measured
  <1>7. (IF m.value # Null THEN MeasureFrom(m) ELSE MissingFrom(m)) = v
    <2>1. CASE h.value # Null
      <3>1. v = [value |-> x, unit |-> unit, confidence |-> c] /\ IsMeasured(v)
        BY <1>6, <2>1 DEF IsMeasured
      <3>2. m = [value |-> <<x>>, unit |-> <<unit>>, reason |-> Null,
                 confidence |-> <<c.value>>, calibration |-> <<StateOf(c)>>]
        BY <1>1, <1>3, <3>1 DEF ProsodyRow
      <3>3. m.value # Null
        BY <3>2 DEF Null
      <3>4. MeasureFrom(m) = [value |-> x, unit |-> unit, confidence |-> c]
        BY <1>5, <3>2, ConfidenceReadBack DEF MeasureFrom, Measured
      <3>5. QED
        BY <3>1, <3>3, <3>4
    <2>2. CASE h.value = Null
      <3>1. v = [reason |-> reason] /\ ~IsMeasured(v)
        BY <1>6, <2>2 DEF IsMeasured
      <3>2. m = [value |-> Null, unit |-> Null, reason |-> <<reason>>,
                 confidence |-> Null, calibration |-> Null]
        BY <1>1, <1>3, <3>1 DEF ProsodyRow
      <3>3. MissingFrom(m) = [reason |-> reason]
        BY <3>2 DEF MissingFrom, Unavailable, Null
      <3>4. QED
        BY <3>1, <3>2, <3>3
    <2>3. QED
      BY <2>1, <2>2
  <1>8. QED
    BY <1>1, <1>2, <1>3, <1>7 DEF RowProsody

(* A measured assessment, whatever was measured, is certain.               *)
LEMMA MeasuredReadsBack ==
    ASSUME NEW modality, NEW metric, NEW start, NEW end, NEW value, NEW unit, NEW a,
           a = [modality |-> modality, metric |-> metric, start |-> start, end |-> end,
                value |-> Measured(value, unit, Certain)]
    PROVE  RowAssessment(AssessmentRow(a)) = a
  <1>1. PICK m, row : row = AssessmentRow(a) /\ m = row.measure
    OBVIOUS
  <1>2. /\ row.modality = modality /\ row.metric = metric /\ row.start = start /\ row.end = end
    BY <1>1 DEF AssessmentRow
  <1>3. IsMeasured(a.value) /\ a.value.value = value /\ a.value.unit = unit
    BY DEF IsMeasured, Measured
  <1>4. m = [value |-> <<value>>, unit |-> <<unit>>, reason |-> Null]
    BY <1>1, <1>3 DEF AssessmentRow
  <1>5. m.value # Null /\ m.value[1] = value /\ m.unit[1] = unit
    BY <1>4 DEF Null
  <1>6. QED
    BY <1>1, <1>2, <1>5 DEF RowAssessment

LEMMA AssessmentsReadBack ==
    ASSUME NEW a \in Assessments PROVE RowAssessment(AssessmentRow(a)) = a
  <1>1. PICK metric \in Metrics, signal \in Signals, value \in Int :
            a = [modality |-> "video", metric |-> metric, start |-> signal.start,
                 end |-> signal.end, value |-> Measured(value, "ratio", Certain)]
    BY DEF Assessments
  <1>2. QED
    BY <1>1, MeasuredReadsBack, Zenon

LEMMA LossesReadBack ==
    ASSUME NEW m PROVE RowAssessment(AssessmentRow(LossOf(m))) = LossOf(m)
  <1>1. PICK value :
            LossOf(m) = [modality |-> m, metric |-> "chunk_loss_ratio", start |-> 0, end |-> 0,
                         value |-> Measured(value, "ratio", Certain)]
    BY DEF LossOf
  <1>2. QED
    BY <1>1, MeasuredReadsBack, Zenon

LEMMA AssessmentsOfTyped ==
    ASSUME NEW signal \in Signals PROVE AssessmentsOf(signal) \in Seq(Assessments)
  <1>1. /\ signal.face \in Int /\ signal.luminance \in Int /\ signal.framing \in Int
        /\ signal.landmarks \in Int
    BY DEF Signals
  <1> DEFINE of(metric, value) ==
                [modality |-> "video", metric |-> metric, start |-> signal.start,
                 end |-> signal.end, value |-> Measured(value, "ratio", Certain)]
  <1>2. AssessmentsOf(signal) =
            << of("face_visibility_ratio", signal.face), of("mean_luminance", signal.luminance),
               of("framing_coverage", signal.framing),
               of("landmark_confidence", signal.landmarks) >>
    BY Zenon DEF AssessmentsOf
  <1>3. \A metric \in Metrics, value \in Int : of(metric, value) \in Assessments
    BY DEF Assessments
  <1> HIDE DEF of
  <1>4. /\ of("face_visibility_ratio", signal.face) \in Assessments
        /\ of("mean_luminance", signal.luminance) \in Assessments
        /\ of("framing_coverage", signal.framing) \in Assessments
        /\ of("landmark_confidence", signal.landmarks) \in Assessments
    BY <1>1, <1>3 DEF Metrics
  <1>5. QED
    BY <1>2, <1>4

LEMMA AvailabilityTyped ==
    ASSUME NEW w \in Availabilities
    PROVE  w = [start |-> w.start, end |-> w.end, reason |-> w.reason]
  BY DEF Availabilities, AvailabilityOf

LEMMA AvailabilitiesReadBack ==
    ASSUME NEW w \in Availabilities PROVE RowAvailability(AvailabilityRow(w)) = w
  <1>1. PICK reason : reason = OrAbsent(Nullable(w.reason)) /\ reason = w.reason
    BY NullableReadBack
  <1>2. RowAvailability(AvailabilityRow(w)) = [start |-> w.start, end |-> w.end, reason |-> reason]
    BY <1>1 DEF RowAvailability, AvailabilityRow
  <1>3. QED
    BY <1>1, <1>2, AvailabilityTyped

-----------------------------------------------------------------------------
(* Finite images, and dictionaries.                                        *)

LEMMA Tabulated ==
    ASSUME NEW S, NEW n \in Nat, NEW f \in [1 .. n -> S]
    PROVE  f \in Seq(S) /\ Len(f) = n /\ DOMAIN f = 1 .. n
  <1>1. f \in Seq(S)
    BY SeqDef
  <1>2. QED
    BY <1>1

LEMMA FiniteValues ==
    ASSUME NEW f, IsFiniteSet(DOMAIN f)
    PROVE  IsFiniteSet({f[x] : x \in DOMAIN f})
  <1>1. PICK g : g = [x \in DOMAIN f |-> f[x]]
    OBVIOUS
  <1>2. PICK V : V = {f[x] : x \in DOMAIN f}
    OBVIOUS
  <1>3. g \in Surjection(DOMAIN f, V)
    BY <1>1, <1>2 DEF Surjection
  <1>4. IsFiniteSet(V)
    BY <1>3, FS_Surjection
  <1>5. QED
    BY <1>2, <1>4

IsDictionary(f, S) ==
    /\ IsFiniteSet(DOMAIN f)
    /\ \A i \in DOMAIN f : f[i] \in S /\ f[i].id = i

(* What is seen again replaces what was held under its identifier.         *)
Replaces(u, held, events) ==
    /\ DOMAIN u = DOMAIN held \cup {events[n].id : n \in DOMAIN events}
    /\ \A n \in DOMAIN events :
          (\A k \in DOMAIN events : events[k].id = events[n].id => k <= n) =>
             u[events[n].id] = events[n]
    /\ \A i \in DOMAIN held : (\A k \in DOMAIN events : events[k].id # i) => u[i] = held[i]

LEMMA UpdatedIsDictionary ==
    ASSUME NEW S, NEW held, IsDictionary(held, S), NEW events \in Seq(S)
    PROVE  /\ IsDictionary(Updated(held, events), S)
           /\ Replaces(Updated(held, events), held, events)
  <1>1. Len(events) \in Nat /\ DOMAIN events = 1 .. Len(events)
        /\ \A n \in DOMAIN events : events[n] \in S
    BY LenProperties
  <1> DEFINE under(i) == {n \in DOMAIN events : events[n].id = i}
  <1>2. PICK ids : ids = {events[n].id : n \in DOMAIN events}
    OBVIOUS
  <1>3. PICK u : u = Updated(held, events)
    OBVIOUS
  <1>4. u = [i \in DOMAIN held \cup ids |->
                IF under(i) = {} THEN held[i] ELSE events[Max(under(i))]]
    BY <1>2, <1>3, Zenon DEF Updated
  <1>5. DOMAIN u = DOMAIN held \cup ids
    BY <1>4
  <1>6. \A i \in DOMAIN held \cup ids :
            u[i] = IF under(i) = {} THEN held[i] ELSE events[Max(under(i))]
    BY <1>4, Zenon
  <1>7. ASSUME NEW i, under(i) # {}
        PROVE  /\ Max(under(i)) \in DOMAIN events /\ events[Max(under(i))].id = i
               /\ \A n \in under(i) : n <= Max(under(i))
    <2>1. PICK U : U = under(i) /\ U \subseteq 1 .. Len(events) /\ U # {}
      BY <1>1, <1>7
    <2>2. Max(U) \in U /\ \A n \in U : n <= Max(U)
      BY <1>1, <2>1, Extremes
    <2>3. QED
      BY <2>1, <2>2
  <1>8. IsFiniteSet(ids)
    <2>1. PICK g : g = [n \in DOMAIN events |-> events[n].id]
      OBVIOUS
    <2>2. DOMAIN g = DOMAIN events /\ {g[n] : n \in DOMAIN g} = ids
      BY <1>2, <2>1
    <2>3. IsFiniteSet(DOMAIN events)
      <3>1. PICK len : len = Len(events) /\ len \in Nat /\ DOMAIN events = 1 .. len
        BY <1>1
      <3>2. IsFiniteSet(1 .. len)
        BY <3>1, FS_Interval
      <3>3. QED
        BY <3>1, <3>2
    <2>4. IsFiniteSet(DOMAIN g)
      BY <2>2, <2>3
    <2>5. IsFiniteSet({g[n] : n \in DOMAIN g})
      BY <2>4, FiniteValues
    <2>6. QED
      BY <2>2, <2>5
  <1>9. IsFiniteSet(DOMAIN held \cup ids)
    BY <1>8, FS_Union DEF IsDictionary
  <1>10. ASSUME NEW i \in DOMAIN held \cup ids PROVE u[i] \in S /\ u[i].id = i
    <2>1. CASE under(i) = {}
      <3>1. i \in DOMAIN held
        BY <1>2, <2>1
      <3>2. u[i] = held[i]
        BY <1>6, <2>1
      <3>3. QED
        BY <3>1, <3>2 DEF IsDictionary
    <2>2. CASE under(i) # {}
      <3>1. Max(under(i)) \in DOMAIN events /\ events[Max(under(i))].id = i
        BY <1>7, <2>2
      <3>2. u[i] = events[Max(under(i))]
        BY <1>6, <2>2
      <3>3. QED
        BY <1>1, <3>1, <3>2
    <2>3. QED
      BY <2>1, <2>2
  <1>11. IsDictionary(u, S)
    BY <1>5, <1>9, <1>10 DEF IsDictionary
  <1>12. ASSUME NEW n \in DOMAIN events,
                \A k \in DOMAIN events : events[k].id = events[n].id => k <= n
         PROVE  u[events[n].id] = events[n]
    <2>1. PICK i : i = events[n].id /\ i \in ids /\ n \in under(i)
      BY <1>2
    <2>2. PICK k : k = Max(under(i)) /\ k \in DOMAIN events /\ events[k].id = i /\ n <= k
      BY <1>7, <2>1
    <2>3. k <= n
      BY <1>12, <2>1, <2>2
    <2>4. k = n
      BY <1>1, <2>2, <2>3
    <2>5. u[i] = events[k]
      BY <1>6, <2>1, <2>2
    <2>6. QED
      BY <2>1, <2>4, <2>5
  <1>13. ASSUME NEW i \in DOMAIN held, \A k \in DOMAIN events : events[k].id # i
         PROVE  u[i] = held[i]
    <2>1. under(i) = {}
      BY <1>13
    <2>2. QED
      BY <1>6, <2>1
  <1>14. Replaces(u, held, events)
    BY <1>2, <1>5, <1>12, <1>13, Zenon DEF Replaces
  <1>15. QED
    BY <1>3, <1>11, <1>14, Zenon

-----------------------------------------------------------------------------
(* What the gate keeps, what it drops, and what is held.                   *)

IdOf(h) == EventId(h.class, h.start, "")

Kept(hypotheses, gate) ==
    {n \in DOMAIN hypotheses : PassesGate(hypotheses[n], gate)}

IsLast(n, places, hypotheses) ==
    \A k \in places : IdOf(hypotheses[k]) = IdOf(hypotheses[n]) => k <= n

Accounted(gate, hypotheses, held, dropped) ==
    /\ DOMAIN held = {IdOf(hypotheses[n]) : n \in Kept(hypotheses, gate)}
    /\ \A n \in Kept(hypotheses, gate) :
          IsLast(n, Kept(hypotheses, gate), hypotheses) =>
             held[IdOf(hypotheses[n])] = VisualEventOf(hypotheses[n])
    /\ dropped = Len(hypotheses) - Cardinality(Kept(hypotheses, gate))

(* Some places, and others beyond them.                                    *)
Beyond(a, places) == {a + x : x \in places}

LEMMA PlacesAdded ==
    ASSUME NEW a \in Nat, NEW P, IsFiniteSet(P), P \subseteq 1 .. a,
           NEW Q, IsFiniteSet(Q), Q \subseteq Nat \ {0}
    PROVE  /\ Cardinality(P) \in Nat /\ Cardinality(Q) \in Nat
           /\ Cardinality(P \cup Beyond(a, Q)) = Cardinality(P) + Cardinality(Q)
  <1>1. IsFiniteSet(P) /\ IsFiniteSet(Q)
    OBVIOUS
  <1>2. PICK T : T = {a + x : x \in Q} /\ T = Beyond(a, Q)
    BY DEF Beyond
  <1>3. PICK g : g = [x \in Q |-> a + x]
    OBVIOUS
  <1>4. g \in Bijection(Q, T)
    <2>1. g \in [Q -> T] /\ \A t \in T : \E x \in Q : g[x] = t
      BY <1>2, <1>3
    <2>2. \A x, y \in Q : g[x] = g[y] => x = y
      BY <1>3
    <2>3. QED
      BY <2>1, <2>2 DEF Bijection, Injection, Surjection, IsInjective
  <1>5. IsFiniteSet(T) /\ Cardinality(T) = Cardinality(Q)
    BY <1>1, <1>4, FS_Bijection DEF ExistsBijection
  <1>6. P \cap T = {}
    BY <1>2
  <1>7. Cardinality(P \cap T) = 0
    BY <1>6, FS_EmptySet
  <1>8. Cardinality(P \cup T) = Cardinality(P) + Cardinality(T) - Cardinality(P \cap T)
    BY <1>1, <1>5, FS_Union
  <1>9. Cardinality(P) \in Nat /\ Cardinality(Q) \in Nat
    BY <1>1, FS_CardinalityType
  <1>10. T = Beyond(a, Q)
    BY <1>2
  <1>11. QED
    BY <1>5, <1>7, <1>8, <1>9, <1>10

(* What the assembly makes of the hypotheses the gate keeps.               *)
AreThoseKept(events, passing, hypotheses, gate) ==
    /\ passing = Those(hypotheses, Kept(hypotheses, gate))
    /\ events = [n \in DOMAIN passing |-> VisualEventOf(passing[n])]

(* A batch is taken in: what it holds under an identifier replaces what    *)
(* was held, and the rest of the account is unchanged.                     *)
LEMMA BatchIsAccounted ==
    ASSUME NEW gate, NEW old \in Seq(VisualHypotheses), NEW new \in Seq(VisualHypotheses),
           NEW held, NEW dropped, Accounted(gate, old, held, dropped),
           IsDictionary(held, VisualEvents),
           NEW events \in Seq(VisualEvents),
           NEW passing, AreThoseKept(events, passing, new, gate)
    PROVE  Accounted(gate, old \o new, Updated(held, events),
                     dropped + (Len(new) - Len(passing)))
  <1>1. PICK all : all = old \o new
    OBVIOUS
  <1>2. PICK a, b : a = Len(old) /\ b = Len(new) /\ a \in Nat /\ b \in Nat
    BY LenProperties
  <1>3. /\ DOMAIN old = 1 .. a /\ DOMAIN new = 1 .. b
        /\ all \in Seq(VisualHypotheses) /\ Len(all) = a + b /\ DOMAIN all = 1 .. a + b
        /\ \A n \in 1 .. a + b : all[n] = IF n <= a THEN old[n] ELSE new[n - a]
    BY <1>1, <1>2, ConcatProperties, LenProperties
  <1>4. PICK P, Q, R : P = Kept(old, gate) /\ Q = Kept(new, gate) /\ R = Kept(all, gate)
    OBVIOUS
  <1>5. P \subseteq 1 .. a /\ Q \subseteq 1 .. b /\ R \subseteq 1 .. a + b
    BY <1>3, <1>4 DEF Kept
  <1>6. \A n \in 1 .. a : all[n] = old[n] /\ (n \in R <=> n \in P)
    <2>1. \A n \in 1 .. a : n \in 1 .. a + b /\ all[n] = old[n]
      BY <1>2, <1>3
    <2>2. QED
      BY <1>3, <1>4, <2>1 DEF Kept
  <1>7. \A x \in 1 .. b : all[a + x] = new[x] /\ (a + x \in R <=> x \in Q)
    <2>1. \A x \in 1 .. b : a + x \in 1 .. a + b /\ all[a + x] = new[x]
      <3>1. \A x \in 1 .. b : a + x \in 1 .. a + b /\ ~(a + x <= a) /\ (a + x) - a = x
        BY <1>2
      <3>2. QED
        BY <1>3, <3>1
    <2>2. QED
      BY <1>3, <1>4, <2>1 DEF Kept
  <1>8. \A n \in 1 .. a + b : n \in 1 .. a \/ \E x \in 1 .. b : n = a + x
    <2>1. \A n \in 1 .. a + b : n \notin 1 .. a => n - a \in 1 .. b /\ n = a + (n - a)
      BY <1>2
    <2>2. QED
      BY <2>1
  <1>9. R = P \cup {a + x : x \in Q}
    BY <1>5, <1>6, <1>7, <1>8
  <1>10. PICK c : /\ c = Cardinality(Q) /\ c \in Nat /\ Len(passing) = c
                  /\ DOMAIN passing = 1 .. c
    <2>1. Q \subseteq DOMAIN new /\ passing = Those(new, Q)
      BY <1>4 DEF Kept, AreThoseKept
    <2>2. /\ Cardinality(Q) \in Nat /\ Len(Those(new, Q)) = Cardinality(Q)
          /\ DOMAIN Those(new, Q) = 1 .. Cardinality(Q)
      BY <2>1, ThoseAreThere, Zenon
    <2>3. QED
      BY <2>1, <2>2, Zenon
  <1>11. PICK place \in [1 .. c -> Q] :
            /\ \A x \in Q : \E k \in 1 .. c : place[k] = x
            /\ \A j, k \in 1 .. c : j < k <=> place[j] < place[k]
            /\ \A k \in 1 .. c : passing[k] = new[place[k]]
    <2>1. Q \subseteq DOMAIN new /\ passing = Those(new, Q)
      BY <1>4 DEF Kept, AreThoseKept
    <2>2. PICK place : IsPlacing(place, new, Q)
      BY <2>1, ThoseAreThere, Zenon
    <2>3. QED
      BY <1>10, <2>1, <2>2, Zenon DEF IsPlacing
  <1>12. /\ DOMAIN events = 1 .. c
         /\ \A k \in 1 .. c : events[k] = VisualEventOf(new[place[k]])
                              /\ events[k].id = IdOf(new[place[k]])
    <2>1. DOMAIN events = 1 .. c /\ \A k \in 1 .. c : events[k] = VisualEventOf(new[place[k]])
      BY <1>10, <1>11 DEF AreThoseKept
    <2>2. \A h : VisualEventOf(h).id = IdOf(h)
      BY DEF VisualEventOf, IdOf
    <2>3. QED
      BY <2>1, <2>2, Zenon
  <1>13. PICK u : u = Updated(held, events)
    OBVIOUS
  <1>14. /\ DOMAIN u = DOMAIN held \cup {events[n].id : n \in DOMAIN events}
         /\ \A n \in DOMAIN events :
               (\A k \in DOMAIN events : events[k].id = events[n].id => k <= n) =>
                  u[events[n].id] = events[n]
         /\ \A i \in DOMAIN held :
               (\A k \in DOMAIN events : events[k].id # i) => u[i] = held[i]
    <2>1. Replaces(u, held, events)
      BY <1>13, UpdatedIsDictionary, Zenon
    <2>2. QED
      BY <2>1, Zenon DEF Replaces
  <1>15. /\ DOMAIN held = {IdOf(old[n]) : n \in P}
         /\ \A n \in P : IsLast(n, P, old) => held[IdOf(old[n])] = VisualEventOf(old[n])
         /\ dropped = a - Cardinality(P)
    BY <1>2, <1>4 DEF Accounted
  <1>16. DOMAIN u = {IdOf(all[n]) : n \in R}
    <2>1. {events[n].id : n \in DOMAIN events} = {IdOf(new[x]) : x \in Q}
      <3>1. \A n \in DOMAIN events : place[n] \in Q /\ events[n].id = IdOf(new[place[n]])
        BY <1>11, <1>12
      <3>2. \A x \in Q : \E n \in DOMAIN events : events[n].id = IdOf(new[x])
        <4>1. ASSUME NEW x \in Q PROVE \E n \in DOMAIN events : events[n].id = IdOf(new[x])
          <5>1. PICK k \in 1 .. c : place[k] = x
            BY <1>11
          <5>2. k \in DOMAIN events /\ events[k].id = IdOf(new[x])
            BY <1>12, <5>1, Zenon
          <5>3. QED
            BY <5>2
        <4>2. QED
          BY <4>1
      <3>3. QED
        BY <3>1, <3>2
    <2>2. {IdOf(all[n]) : n \in R} = {IdOf(old[n]) : n \in P} \cup {IdOf(new[x]) : x \in Q}
      <3>1. \A n \in P : n \in R /\ all[n] = old[n]
        BY <1>5, <1>6
      <3>2. \A x \in Q : a + x \in R /\ all[a + x] = new[x]
        BY <1>5, <1>7
      <3>3. \A n \in R : n \in P \/ \E x \in Q : n = a + x
        BY <1>9
      <3>4. QED
        BY <3>1, <3>2, <3>3
    <2>3. QED
      BY <1>14, <1>15, <2>1, <2>2
  <1>17. ASSUME NEW n \in R, IsLast(n, R, all)
         PROVE  u[IdOf(all[n])] = VisualEventOf(all[n])
    <2>1. PICK i : i = IdOf(all[n])
      OBVIOUS
    <2>2. \A m \in R : IdOf(all[m]) = i => m <= n
      BY <1>17, <2>1 DEF IsLast
    <2>3. CASE n \in P
      <3>1. n \in 1 .. a /\ all[n] = old[n]
        BY <1>5, <1>6, <2>3
      <3>2. \A x \in Q : IdOf(new[x]) # i
        <4>1. ASSUME NEW x \in Q PROVE a + x \in R /\ all[a + x] = new[x] /\ ~(a + x <= n)
          <5>1. x \in 1 .. b
            BY <1>5
          <5>2. QED
            BY <1>2, <1>7, <3>1, <5>1
        <4>2. QED
          BY <2>2, <4>1, Zenon
      <3>3. \A k \in DOMAIN events : events[k].id # i
        BY <1>11, <1>12, <3>2
      <3>4. i \in DOMAIN held
        BY <1>15, <2>1, <2>3, <3>1
      <3>5. u[i] = held[i]
        BY <1>14, <3>3, <3>4, Zenon
      <3>6. IsLast(n, P, old)
        <4>1. ASSUME NEW m \in P, IdOf(old[m]) = IdOf(old[n]) PROVE m <= n
          <5>1. m \in R /\ all[m] = old[m]
            BY <1>5, <1>6
          <5>2. QED
            BY <2>1, <2>2, <3>1, <4>1, <5>1, Zenon
        <4>2. QED
          BY <4>1 DEF IsLast
      <3>7. held[IdOf(old[n])] = VisualEventOf(old[n])
        BY <1>15, <2>3, <3>6, Zenon
      <3>8. QED
        BY <2>1, <3>1, <3>5, <3>7, Zenon
    <2>4. CASE n \notin P
      <3>1. PICK x \in Q : n = a + x
        BY <1>9, <2>4
      <3>2. x \in 1 .. b /\ all[n] = new[x]
        BY <1>5, <1>7, <3>1
      <3>3. PICK k \in 1 .. c : place[k] = x
        BY <1>11
      <3>4. events[k] = VisualEventOf(all[n]) /\ events[k].id = i
        BY <1>12, <2>1, <3>2, <3>3, Zenon
      <3>5. ASSUME NEW j \in 1 .. c, events[j].id = i PROVE j <= k
        <4>1. place[j] \in Q /\ IdOf(new[place[j]]) = i
          BY <1>11, <1>12, <3>5
        <4>2. PICK y : y = place[j] /\ y \in Q /\ y \in 1 .. b
          BY <1>5, <4>1
        <4>3. a + y \in R /\ all[a + y] = new[y]
          BY <1>7, <4>2
        <4>4. a + y <= a + x
          BY <2>2, <3>1, <4>1, <4>2, <4>3, Zenon
        <4>5. ~(place[k] < place[j])
          BY <1>2, <3>2, <3>3, <4>2, <4>4
        <4>6. ~(k < j)
          BY <1>11, <4>5, Zenon
        <4>7. QED
          BY <1>10, <4>6
      <3>6. u[events[k].id] = events[k]
        BY <1>12, <1>14, <3>4, <3>5, Zenon
      <3>7. QED
        BY <2>1, <3>4, <3>6, Zenon
    <2>5. QED
      BY <2>3, <2>4
  <1>18. dropped + (b - c) = (a + b) - Cardinality(R)
    <2>1. /\ Cardinality(P) \in Nat /\ Cardinality(Q) \in Nat
          /\ Cardinality(R) = Cardinality(P) + Cardinality(Q)
      <3>1. a \in Nat /\ b \in Nat
        BY <1>2, Zenon
      <3>2. QED
        <4>1. R = P \cup Beyond(a, Q)
          BY <1>9 DEF Beyond
        <4>2. P \subseteq 1 .. a
          BY <1>5
        <4>3. Q \subseteq Nat \ {0}
          BY <1>5
        <4>4. IsFiniteSet(P)
          <5>1. IsFiniteSet(1 .. a)
            BY <3>1, FS_Interval
          <5>2. QED
            BY <4>2, <5>1, FS_Subset
        <4>5. IsFiniteSet(Q)
          <5>1. IsFiniteSet(1 .. b)
            BY <3>1, FS_Interval
          <5>2. QED
            BY <1>5, <5>1, FS_Subset
        <4>6. a \in Nat
          BY <3>1
        <4>7. Cardinality(P \cup Beyond(a, Q)) = Cardinality(P) + Cardinality(Q)
          BY <4>2, <4>3, <4>4, <4>5, <4>6, PlacesAdded, Zenon
        <4>8. QED
          BY <4>1, <4>4, <4>5, <4>7, FS_CardinalityType
    <2>2. PICK p, q, r : /\ p = Cardinality(P) /\ q = Cardinality(Q) /\ r = Cardinality(R)
                         /\ p \in Nat /\ q \in Nat /\ r = p + q /\ c = q /\ dropped = a - p
      BY <1>10, <1>15, <2>1, Zenon
    <2>3. a \in Nat /\ b \in Nat
      BY <1>2, Zenon
    <2>4. dropped + (b - c) = (a + b) - r
      BY <2>2, <2>3
    <2>5. QED
      BY <2>2, <2>4, Zenon
  <1>19. Accounted(gate, all, u, dropped + (b - c))
    BY <1>3, <1>4, <1>16, <1>17, <1>18 DEF Accounted
  <1>20. QED
    BY <1>1, <1>2, <1>10, <1>13, <1>19, Zenon

-----------------------------------------------------------------------------
(* Induction and recursion on the numbers, with a set and a function in    *)
(* the place of operators.                                                 *)

LEMMA Induction ==
    ASSUME NEW T, 0 \in T, \A n \in Nat : n \in T => n + 1 \in T
    PROVE  \A n \in Nat : n \in T
  <1>1. PICK R : R = OpToRel(<, Nat)
    OBVIOUS
  <1>2. IsWellFoundedOn(R, Nat)
    BY <1>1, NatLessThanWellFounded
  <1>3. PICK U : U = {n \in Nat : n \notin T}
    OBVIOUS
  <1>4. SUFFICES ASSUME U # {} PROVE FALSE
    BY <1>3
  <1>5. PICK x \in U : \A y \in U : ~(<<y, x>> \in R)
    <2>1. U \subseteq Nat
      BY <1>3
    <2>2. QED
      BY <1>2, <1>4, <2>1, WFMin
  <1>6. x \in Nat /\ x \notin T /\ x # 0
    BY <1>3
  <1>7. x - 1 \in Nat /\ x - 1 < x
    BY <1>6
  <1>8. <<x - 1, x>> \in R
    BY <1>1, <1>6, <1>7 DEF OpToRel
  <1>9. x - 1 \in T
    BY <1>3, <1>5, <1>7, <1>8
  <1>10. (x - 1) + 1 \in T
    BY <1>7, <1>9
  <1>11. QED
    BY <1>6, <1>10

RecursesTo(g, N, S, base, step) ==
    /\ g \in [0 .. N -> S] /\ g[0] = base
    /\ \A n \in 0 .. N - 1 : g[n + 1] = step[<<n, g[n]>>]

LEMMA Recursion ==
    ASSUME NEW N \in Nat, NEW S, NEW base \in S, NEW step \in [Nat \X S -> S]
    PROVE  \E g : RecursesTo(g, N, S, base, step)
  <1> DEFINE T == {m \in Nat : \E g : RecursesTo(g, m, S, base, step)}
  <1> USE DEF RecursesTo
  <1>1. 0 \in T
    <2>1. RecursesTo([n \in 0 .. 0 |-> base], 0, S, base, step)
      OBVIOUS
    <2>2. QED
      BY <2>1
  <1>2. ASSUME NEW m \in Nat, m \in T PROVE m + 1 \in T
    <2>1. PICK g : RecursesTo(g, m, S, base, step)
      BY <1>2
    <2>2. PICK h : h = [n \in 0 .. m + 1 |-> IF n = m + 1 THEN step[<<m, g[m]>>] ELSE g[n]]
      OBVIOUS
    <2>3. g[m] \in S /\ step[<<m, g[m]>>] \in S
      BY <2>1
    <2>4. h \in [0 .. m + 1 -> S] /\ h[0] = base
      BY <2>1, <2>2, <2>3
    <2>5. ASSUME NEW n \in 0 .. m PROVE h[n + 1] = step[<<n, h[n]>>]
      <3>1. CASE n = m
        <4>1. m \in 0 .. m + 1 /\ m + 1 \in 0 .. m + 1 /\ m # m + 1
          OBVIOUS
        <4>2. h[m] = g[m] /\ h[m + 1] = step[<<m, g[m]>>]
          BY <2>2, <4>1
        <4>3. QED
          BY <3>1, <4>2
      <3>2. CASE n # m
        <4>1. n \in 0 .. m - 1 /\ n + 1 \in 0 .. m
          BY <3>2
        <4>2. h[n] = g[n] /\ h[n + 1] = g[n + 1]
          BY <2>2, <4>1
        <4>3. QED
          BY <2>1, <4>1, <4>2
      <3>3. QED
        BY <3>1, <3>2
    <2>6. RecursesTo(h, m + 1, S, base, step)
      BY <2>4, <2>5
    <2>7. QED
      BY <2>6
  <1> HIDE DEF T
  <1>3. N \in T
    BY <1>1, <1>2, Induction
  <1>4. QED
    BY <1>3 DEF T

-----------------------------------------------------------------------------
(* Rows of rows, one after the other.                                      *)

FlattensTo(flatten, parts) ==
    flatten = [i \in 1 .. Len(parts) |-> IF i = 1 THEN parts[i] ELSE flatten[i - 1] \o parts[i]]

LEMMA FlattenedRows ==
    ASSUME NEW S, NEW ss \in Seq(Seq(S))
    PROVE  FlattenSeq(ss) \in Seq(S)
  <1>1. Len(ss) \in Nat /\ \A i \in 1 .. Len(ss) : ss[i] \in Seq(S)
    BY LenProperties, ElementOfSeq
  <1>2. CASE Len(ss) = 0
    <2>1. ss = <<>>
      BY <1>2, EmptySeq
    <2>2. ss \in Seq(S)
      BY <2>1, EmptySeq
    <2>3. QED
      BY <1>2, <2>2 DEF FlattenSeq
  <1>3. CASE Len(ss) # 0
    <2>1. PICK m : m = Len(ss) - 1 /\ m \in Nat /\ Len(ss) = m + 1
      BY <1>1, <1>3
    <2>2. PICK step : step = [p \in Nat \X Seq(S) |->
                                 IF p[1] \in 0 .. m - 1 THEN p[2] \o ss[p[1] + 2] ELSE p[2]]
      OBVIOUS
    <2>3. step \in [Nat \X Seq(S) -> Seq(S)]
      <3>1. ASSUME NEW p \in Nat \X Seq(S), p[1] \in 0 .. m - 1
            PROVE  p[2] \o ss[p[1] + 2] \in Seq(S)
        <4>1. p[1] + 2 \in 1 .. Len(ss)
          BY <2>1, <3>1
        <4>2. p[2] \in Seq(S) /\ ss[p[1] + 2] \in Seq(S)
          BY <1>1, <4>1
        <4>3. QED
          BY <4>2, ConcatProperties
      <3>2. \A p \in Nat \X Seq(S) : p[2] \in Seq(S)
        OBVIOUS
      <3>3. QED
        BY <2>2, <3>1, <3>2
    <2>4. ss[1] \in Seq(S)
      BY <1>1, <2>1
    <2>5. PICK g : RecursesTo(g, m, Seq(S), ss[1], step)
      BY <2>1, <2>3, <2>4, Recursion, Zenon
    <2>6. /\ g \in [0 .. m -> Seq(S)] /\ g[0] = ss[1]
          /\ \A n \in 0 .. m - 1 : g[n + 1] = step[<<n, g[n]>>]
      BY <2>5 DEF RecursesTo
    <2>7. \A n \in 0 .. m - 1 : g[n + 1] = g[n] \o ss[n + 2]
      <3>1. ASSUME NEW n \in 0 .. m - 1 PROVE g[n + 1] = g[n] \o ss[n + 2]
        <4>1. n \in Nat /\ n \in 0 .. m /\ g[n] \in Seq(S)
          <5>1. n \in Nat /\ n \in 0 .. m
            BY <2>1
          <5>2. QED
            BY <2>6, <5>1
        <4>2. step[<<n, g[n]>>] = g[n] \o ss[n + 2]
          BY <2>2, <4>1
        <4>3. QED
          BY <2>6, <4>2
      <3>2. QED
        BY <3>1
    <2>8. PICK h : h = [i \in 1 .. Len(ss) |-> g[i - 1]]
      OBVIOUS
    <2>9. FlattensTo(h, ss)
      <3>1. ASSUME NEW i \in 1 .. Len(ss)
            PROVE  g[i - 1] = IF i = 1 THEN ss[i] ELSE h[i - 1] \o ss[i]
        <4>1. CASE i = 1
          BY <2>6, <4>1
        <4>2. CASE i # 1
          <5>1. i - 2 \in 0 .. m - 1 /\ i - 1 \in 1 .. Len(ss)
            BY <2>1, <4>2
          <5>2. g[(i - 2) + 1] = g[i - 2] \o ss[(i - 2) + 2]
            BY <2>7, <5>1
          <5>3. (i - 2) + 1 = i - 1 /\ (i - 2) + 2 = i /\ (i - 1) - 1 = i - 2
            OBVIOUS
          <5>4. h[i - 1] = g[i - 2]
            BY <2>8, <5>1, <5>3
          <5>5. QED
            BY <4>2, <5>2, <5>3, <5>4
        <4>3. QED
          BY <4>1, <4>2
      <3>2. QED
        BY <2>8, <3>1 DEF FlattensTo
    <2>10. PICK f : f = CHOOSE x : FlattensTo(x, ss)
      OBVIOUS
    <2>11. FlattensTo(f, ss)
      BY <2>9, <2>10, Zenon
    <2>12. FlattenSeq(ss) = f[Len(ss)]
      BY <1>3, <2>10, Zenon DEF FlattenSeq, FlattensTo
    <2>13. \A i \in 1 .. Len(ss) : f[i] = IF i = 1 THEN ss[i] ELSE f[i - 1] \o ss[i]
      BY <2>11 DEF FlattensTo
    <2> DEFINE T == {n \in Nat : n + 1 \in 1 .. Len(ss) => f[n + 1] \in Seq(S)}
    <2>14. 0 \in T
      BY <1>1, <2>13
    <2>15. ASSUME NEW n \in Nat, n \in T PROVE n + 1 \in T
      <3>1. SUFFICES ASSUME (n + 1) + 1 \in 1 .. Len(ss) PROVE f[(n + 1) + 1] \in Seq(S)
        OBVIOUS
      <3>2. n + 1 \in 1 .. Len(ss) /\ (n + 1) + 1 # 1 /\ ((n + 1) + 1) - 1 = n + 1
        BY <1>1, <3>1
      <3>3. f[n + 1] \in Seq(S)
        BY <2>15, <3>2
      <3>4. f[(n + 1) + 1] = f[n + 1] \o ss[(n + 1) + 1]
        BY <2>13, <3>1, <3>2
      <3>5. ss[(n + 1) + 1] \in Seq(S)
        BY <1>1, <3>1
      <3>6. QED
        BY <3>3, <3>4, <3>5, ConcatProperties
    <2> HIDE DEF T
    <2>16. m \in T
      BY <2>1, <2>14, <2>15, Induction
    <2>17. f[m + 1] \in Seq(S)
      BY <2>1, <2>16 DEF T
    <2>18. QED
      BY <2>1, <2>12, <2>17
  <1>4. QED
    BY <1>2, <1>3

-----------------------------------------------------------------------------
(* What a batch contributes.                                               *)

LEMMA SpeechAssembled ==
    ASSUME NEW result, result.words \in Seq(WordHypotheses),
           result.events \in Seq(SpeechHypotheses), result.prosody \in Seq(ProsodyHypotheses),
           ~AssembleSpeech(result).raises
    PROVE  /\ AssembleSpeech(result).tokens \in Seq(Tokens)
           /\ AssembleSpeech(result).events \in Seq(SpeechEvents)
           /\ AssembleSpeech(result).prosody \in Seq(Readings)
  <1>1. PICK words, said, readings :
            /\ words = Mapped(result.words, TokenOf)
            /\ said = Mapped(result.events, SpeechEventOf)
            /\ readings = Mapped(result.prosody, ProsodyOf)
    OBVIOUS
  <1>2. /\ AssembleSpeech(result).tokens = words
        /\ AssembleSpeech(result).events = said
        /\ AssembleSpeech(result).prosody = readings
        /\ \A n \in DOMAIN said : IsSpeechEvent(said[n])
    BY <1>1 DEF AssembleSpeech
  <1>3. words \in Seq(Tokens)
    <2>1. /\ Len(result.words) \in Nat /\ DOMAIN result.words = 1 .. Len(result.words)
          /\ \A n \in 1 .. Len(result.words) : result.words[n] \in WordHypotheses
      BY LenProperties
    <2>2. ASSUME NEW h \in WordHypotheses PROVE TokenOf(h) \in Tokens
      <3>1. PICK f \in BOOLEAN : TokenOf(h) = TokenWith(h, f)
        BY DEF TokenOf, TokenWith
      <3>2. QED
        BY <3>1 DEF Tokens
    <2>3. words \in [1 .. Len(result.words) -> Tokens]
      BY <1>1, <2>1, <2>2 DEF Mapped
    <2>4. QED
      BY <2>1, <2>3, Tabulated
  <1>4. said \in Seq(SpeechEvents)
    <2>1. /\ Len(result.events) \in Nat /\ DOMAIN result.events = 1 .. Len(result.events)
          /\ \A n \in 1 .. Len(result.events) : result.events[n] \in SpeechHypotheses
      BY LenProperties
    <2>2. said = [n \in 1 .. Len(result.events) |-> SpeechEventOf(result.events[n])]
      BY <1>1, <2>1 DEF Mapped
    <2>3. \A n \in 1 .. Len(result.events) : said[n] \in SpeechEvents
      BY <1>2, <2>1, <2>2 DEF SpeechEvents
    <2>4. said \in [1 .. Len(result.events) -> SpeechEvents]
      BY <2>2, <2>3
    <2>5. QED
      BY <2>1, <2>4, Tabulated
  <1>5. readings \in Seq(Readings)
    <2>1. /\ Len(result.prosody) \in Nat /\ DOMAIN result.prosody = 1 .. Len(result.prosody)
          /\ \A n \in 1 .. Len(result.prosody) : result.prosody[n] \in ProsodyHypotheses
      BY LenProperties
    <2>2. \A h \in ProsodyHypotheses : ProsodyOf(h) \in Readings
      BY DEF Readings
    <2>3. readings \in [1 .. Len(result.prosody) -> Readings]
      BY <1>1, <2>1, <2>2 DEF Mapped
    <2>4. QED
      BY <2>1, <2>3, Tabulated
  <1>6. QED
    BY <1>2, <1>3, <1>4, <1>5

(* No word stands before one that sorts ahead of it.                       *)
Ordered(s) == \A j, k \in DOMAIN s : j < k => ~InOrder(s[k], s[j])

(* The stable sort of a transcript leaves it in order (_ordering).         *)
LEMMA CanonicalOrders ==
    ASSUME NEW s \in Seq(Tokens)
    PROVE  Canonical(s) \in Seq(Tokens) /\ Ordered(Canonical(s)) /\ Len(Canonical(s)) = Len(s)
  <1>1. PICK n \in Nat : n = Len(s) /\ DOMAIN s = 1 .. n /\ \A k \in 1 .. n : s[k] \in Tokens
    BY LenProperties
  <1>2. PICK D : D = 1 .. n
    OBVIOUS
  <1>3. IsFiniteSet(D) /\ Cardinality(D) = n
    <2>1. PICK a \in Int, b \in Int : a = 1 /\ b = n
      OBVIOUS
    <2>2. IsFiniteSet(a .. b) /\ Cardinality(a .. b) = IF a > b THEN 0 ELSE b - a + 1
      BY FS_Interval, Zenon
    <2>3. QED
      BY <1>2, <2>1, <2>2
  <1> DEFINE before(j, k) == InOrder(s[j], s[k]) \/ (j < k /\ ~InOrder(s[k], s[j]))
  <1>4. PICK R : R = {p \in D \X D : before(p[1], p[2])}
    OBVIOUS
  <1>5. \A j, k \in D : <<j, k>> \in R <=> before(j, k)
    BY <1>4
  <1>6. StrictlyOrders(R, D)
    <2>1. \A k \in D : /\ k \in Int /\ s[k].start \in Int /\ s[k].end \in Int
                       /\ DigestOf[s[k].id] \in Int
      BY <1>1, <1>2, TokenKeys
    <2>2. \A k \in D : ~before(k, k)
      BY <2>1 DEF InOrder
    <2>3. ASSUME NEW i \in D, NEW j \in D, NEW k \in D, before(i, j), before(j, k)
          PROVE  before(i, k)
      <3>1. PICK x, y, z : x = s[i] /\ y = s[j] /\ z = s[k]
        OBVIOUS
      <3>2. PICK a \in Int, b \in Int, c \in Int :
               a = DigestOf[x.id] /\ b = DigestOf[y.id] /\ c = DigestOf[z.id]
        BY <2>1, <3>1
      <3>3. /\ i \in Int /\ x.start \in Int /\ x.end \in Int
            /\ j \in Int /\ y.start \in Int /\ y.end \in Int
            /\ k \in Int /\ z.start \in Int /\ z.end \in Int
        BY <2>1, <3>1
      <3>4. /\ InOrder(x, y) \/ (i < j /\ ~InOrder(y, x))
            /\ InOrder(y, z) \/ (j < k /\ ~InOrder(z, y))
        BY <2>3, <3>1
      <3>5. InOrder(x, z) \/ (i < k /\ ~InOrder(z, x))
        <4> HIDE DEF before
        <4>1. CASE x.start = y.start /\ y.start = z.start
          <5>1. CASE x.end = y.end /\ y.end = z.end
            <6>1. /\ a < b \/ (i < j /\ ~(b < a))
                  /\ b < c \/ (j < k /\ ~(c < b))
              BY <3>2, <3>3, <3>4, <4>1, <5>1 DEF InOrder
            <6>2. a < c \/ (i < k /\ ~(c < a))
              BY <3>3, <6>1
            <6>3. QED
              BY <3>2, <3>3, <4>1, <5>1, <6>2 DEF InOrder
          <5>2. CASE ~(x.end = y.end /\ y.end = z.end)
            BY <3>2, <3>3, <3>4, <4>1, <5>2 DEF InOrder
          <5>3. QED
            BY <5>1, <5>2
        <4>2. CASE ~(x.start = y.start /\ y.start = z.start)
          BY <3>2, <3>3, <3>4, <4>2 DEF InOrder
        <4>3. QED
          BY <4>1, <4>2
      <3>6. QED
        BY <3>1, <3>5
    <2>4. \A j, k \in D : j # k => before(j, k) \/ before(k, j)
      BY <2>1 DEF InOrder
    <2>5. QED
      BY <1>5, <2>2, <2>3, <2>4, Zenon DEF StrictlyOrders
  <1>7. PICK place : place = Sorted(D, before)
    OBVIOUS
  <1>8. \A x \in D : {y \in D : before(y, x)} = {y \in D : <<y, x>> \in R}
    BY <1>5
  <1>9. /\ place = [k \in 1 .. Cardinality(D) |-> place[k]]
        /\ \A k \in 1 .. Cardinality(D) :
              (\E x \in D : Cardinality({y \in D : <<y, x>> \in R}) = k - 1) =>
                 place[k] \in D /\ Cardinality({y \in D : <<y, place[k]>> \in R}) = k - 1
    <2> DEFINE e(k) == CHOOSE x \in D : Cardinality({y \in D : before(y, x)}) = k - 1
    <2>1. place = [k \in 1 .. Cardinality(D) |-> e(k)]
      BY <1>7 DEF Sorted
    <2>2. ASSUME NEW k \in 1 .. Cardinality(D),
                 NEW x \in D, Cardinality({y \in D : <<y, x>> \in R}) = k - 1
          PROVE  place[k] \in D /\ Cardinality({y \in D : <<y, place[k]>> \in R}) = k - 1
      <3> HIDE DEF before
      <3>1. Cardinality({y \in D : before(y, x)}) = k - 1
        BY <1>8, <2>2, Zenon
      <3>2. place[k] = CHOOSE z \in D : Cardinality({y \in D : before(y, z)}) = k - 1
        BY <2>1, Zenon
      <3>3. place[k] \in D /\ Cardinality({y \in D : before(y, place[k])}) = k - 1
        BY <3>1, <3>2, Zenon
      <3>4. QED
        BY <1>8, <3>3, Zenon
    <2> HIDE DEF e
    <2>3. place = [k \in 1 .. Cardinality(D) |-> place[k]]
      BY <2>1
    <2>4. QED
      BY <2>2, <2>3, Zenon
  <1>10. IsSorting(place, D, R)
    BY <1>3, <1>6, <1>9, RanksSort, Zenon
  <1>11. /\ place \in [1 .. n -> D]
         /\ \A j, k \in 1 .. n : j < k => before(place[j], place[k])
    <2> HIDE DEF before
    <2>1. /\ place \in [1 .. n -> D]
          /\ \A j, k \in 1 .. n : j < k <=> <<place[j], place[k]>> \in R
      BY <1>3, <1>10, Zenon DEF IsSorting
    <2>2. \A k \in 1 .. n : place[k] \in D
      BY <2>1, Zenon
    <2>3. QED
      BY <1>5, <2>1, <2>2, Zenon
  <1>12. Canonical(s) = [k \in 1 .. n |-> s[place[k]]]
    BY <1>1, <1>2, <1>7, Zenon DEF Canonical
  <1>13. Canonical(s) \in [1 .. n -> Tokens]
    BY <1>1, <1>2, <1>11, <1>12
  <1>14. ASSUME NEW j \in 1 .. n, NEW k \in 1 .. n, j < k
         PROVE  ~InOrder(Canonical(s)[k], Canonical(s)[j])
    <2>1. PICK x \in Tokens, y \in Tokens : x = s[place[j]] /\ y = s[place[k]]
      BY <1>1, <1>2, <1>11
    <2>2. InOrder(x, y) \/ ~InOrder(y, x)
      BY <1>11, <1>14, <2>1
    <2>3. ~InOrder(y, x)
      BY <2>2, TokenKeys DEF InOrder
    <2>4. QED
      BY <1>12, <2>1, <2>3
  <1>15. QED
    BY <1>1, <1>13, <1>14, Tabulated DEF Ordered

(* A transcript that grows by a batch and is finalized stays in order.     *)
LEMMA TranscriptTyped ==
    ASSUME NEW held \in Seq(Tokens), NEW words \in Seq(Tokens), NEW boundary
    PROVE  /\ FinalizeThrough(WithProvisional(held, words), boundary) \in Seq(Tokens)
           /\ Ordered(FinalizeThrough(WithProvisional(held, words), boundary))
  <1>1. PICK t : t = WithProvisional(held, words) /\ t \in Seq(Tokens) /\ Ordered(t)
    <2>1. PICK P : P = {n \in DOMAIN held : held[n].final}
      OBVIOUS
    <2>2. P \subseteq DOMAIN held
      BY <2>1
    <2>3. Those(held, P) \in Seq(Tokens)
      BY <2>2, ThoseAreThere, Zenon
    <2>4. PICK all : all = Those(held, P) \o words /\ all \in Seq(Tokens)
      BY <2>3, ConcatProperties
    <2>5. WithProvisional(held, words) = Canonical(all)
      BY <2>1, <2>4 DEF WithProvisional, FinalTokens
    <2>6. QED
      BY <2>4, <2>5, CanonicalOrders
  <1>2. Len(t) \in Nat /\ DOMAIN t = 1 .. Len(t) /\ \A n \in 1 .. Len(t) : t[n] \in Tokens
    BY <1>1, LenProperties
  <1>3. ASSUME NEW token \in Tokens
        PROVE  [token EXCEPT !.final = @ \/ token.end <= boundary] \in Tokens
    <2>1. PICK h \in WordHypotheses, f \in BOOLEAN : token = TokenWith(h, f)
      BY DEF Tokens
    <2>2. PICK g : g = (token.final \/ token.end <= boundary) /\ g \in BOOLEAN
      OBVIOUS
    <2>3. [token EXCEPT !.final = @ \/ token.end <= boundary] = TokenWith(h, g)
      BY <2>1, <2>2 DEF TokenWith
    <2>4. TokenWith(h, g) \in Tokens
      <3>1. h \in WordHypotheses /\ g \in BOOLEAN
        BY <2>2
      <3>2. QED
        BY <3>1 DEF Tokens
    <2>5. QED
      BY <2>3, <2>4, Zenon
  <1>4. /\ FinalizeThrough(t, boundary) \in Seq(Tokens)
        /\ Ordered(FinalizeThrough(t, boundary))
    <2>1. CASE boundary <= Frontier(t)
      BY <1>1, <2>1 DEF FinalizeThrough
    <2>2. CASE ~(boundary <= Frontier(t))
      <3>1. PICK u : u = FinalizeThrough(t, boundary)
        OBVIOUS
      <3>2. u = [n \in 1 .. Len(t) |-> [t[n] EXCEPT !.final = @ \/ t[n].end <= boundary]]
        BY <1>2, <2>2, <3>1 DEF FinalizeThrough, Mapped
      <3>3. u \in [1 .. Len(t) -> Tokens]
        BY <1>2, <1>3, <3>2
      <3>4. u \in Seq(Tokens) /\ DOMAIN u = 1 .. Len(t)
        BY <1>2, <3>3, Tabulated
      <3>5. ASSUME NEW n \in 1 .. Len(t)
            PROVE  u[n].start = t[n].start /\ u[n].end = t[n].end /\ u[n].id = t[n].id
        <4>1. PICK h \in WordHypotheses, f \in BOOLEAN : t[n] = TokenWith(h, f)
          BY <1>2 DEF Tokens
        <4>2. u[n] = [t[n] EXCEPT !.final = @ \/ t[n].end <= boundary]
          BY <3>2
        <4>3. QED
          BY <4>1, <4>2 DEF TokenWith
      <3>6. \A j, k \in 1 .. Len(t) : InOrder(u[k], u[j]) <=> InOrder(t[k], t[j])
        BY <3>5 DEF InOrder
      <3>7. QED
        BY <1>1, <1>2, <3>1, <3>4, <3>6 DEF Ordered
    <2>3. QED
      BY <2>1, <2>2
  <1>5. QED
    BY <1>1, <1>4

(* A transcript in order, with no identifier twice, is what sorting the    *)
(* set of its words gives (build).                                         *)
LEMMA OrderedReadBack ==
    ASSUME NEW s \in Seq(Tokens), Ordered(s),
           \A j, k \in DOMAIN s : s[j].id = s[k].id => j = k
    PROVE  Sorted({s[n] : n \in DOMAIN s}, InOrder) = s
  <1>1. PICK n \in Nat : n = Len(s) /\ DOMAIN s = 1 .. n /\ \A k \in 1 .. n : s[k] \in Tokens
    BY LenProperties
  <1>2. PICK E : E = {s[k] : k \in 1 .. n}
    OBVIOUS
  <1>3. \A j, k \in 1 .. n : InOrder(s[j], s[k]) <=> j < k
    <2>1. ASSUME NEW j \in 1 .. n, NEW k \in 1 .. n, j < k
          PROVE  InOrder(s[j], s[k]) /\ ~InOrder(s[k], s[j])
      <3>1. PICK x \in Tokens, y \in Tokens : x = s[j] /\ y = s[k]
        BY <1>1
      <3>2. x.id # y.id /\ ~InOrder(y, x)
        BY <1>1, <2>1, <3>1 DEF Ordered
      <3>3. /\ x.start \in Int /\ x.end \in Int /\ DigestOf[x.id] \in Int
            /\ y.start \in Int /\ y.end \in Int /\ DigestOf[y.id] \in Int
            /\ x.id \in DOMAIN DigestOf /\ y.id \in DOMAIN DigestOf
        BY TokenKeys
      <3>4. DigestOf[x.id] # DigestOf[y.id]
        BY <3>2, <3>3, IdentifiersAssumption
      <3>5. InOrder(x, y)
        BY <3>2, <3>3, <3>4 DEF InOrder
      <3>6. QED
        BY <3>1, <3>2, <3>5
    <2>2. \A k \in 1 .. n : ~InOrder(s[k], s[k])
      BY <1>1, TokenKeys DEF InOrder
    <2>3. \A j, k \in 1 .. n : j < k \/ k < j \/ j = k
      OBVIOUS
    <2>4. QED
      BY <2>1, <2>2, <2>3
  <1>4. \A j, k \in 1 .. n : s[j] = s[k] => j = k
    BY <1>1
  <1>5. ASSUME NEW k \in 1 .. n
        PROVE  Cardinality({y \in E : InOrder(y, s[k])}) = k - 1
    <2>1. PICK f : f = [j \in 1 .. k - 1 |-> s[j]]
      OBVIOUS
    <2>2. PICK B : B = {y \in E : InOrder(y, s[k])}
      OBVIOUS
    <2>3. B = {s[j] : j \in 1 .. k - 1}
      BY <1>2, <1>3, <2>2
    <2>4. IsFiniteSet(1 .. k - 1) /\ Cardinality(1 .. k - 1) = k - 1
      <3>1. PICK a \in Int, b \in Int : a = 1 /\ b = k - 1
        OBVIOUS
      <3>2. IsFiniteSet(a .. b) /\ Cardinality(a .. b) = IF a > b THEN 0 ELSE b - a + 1
        BY FS_Interval, Zenon
      <3>3. QED
        BY <3>1, <3>2
    <2>5. f \in Bijection(1 .. k - 1, B)
      BY <1>4, <2>1, <2>3 DEF Bijection, Injection, Surjection, IsInjective
    <2>5a. ExistsBijection(1 .. k - 1, B)
      BY <2>5, Zenon DEF ExistsBijection
    <2>6. Cardinality(1 .. k - 1) = Cardinality(B)
      BY <2>4, <2>5a, FS_Bijection, Zenon
    <2>7. QED
      BY <2>2, <2>4, <2>6
  <1>6. Cardinality(E) = n
    <2>1. PICK f : f = [j \in 1 .. n |-> s[j]]
      OBVIOUS
    <2>2. IsFiniteSet(1 .. n) /\ Cardinality(1 .. n) = n
      <3>1. PICK a \in Int, b \in Int : a = 1 /\ b = n
        OBVIOUS
      <3>2. IsFiniteSet(a .. b) /\ Cardinality(a .. b) = IF a > b THEN 0 ELSE b - a + 1
        BY FS_Interval, Zenon
      <3>3. QED
        BY <3>1, <3>2
    <2>3. f \in Bijection(1 .. n, E)
      BY <1>2, <1>4, <2>1 DEF Bijection, Injection, Surjection, IsInjective
    <2>3a. ExistsBijection(1 .. n, E)
      BY <2>3, Zenon DEF ExistsBijection
    <2>4. Cardinality(1 .. n) = Cardinality(E)
      BY <2>2, <2>3a, FS_Bijection, Zenon
    <2>5. QED
      BY <2>2, <2>4
  <1> DEFINE e(k) == CHOOSE x \in E : Cardinality({y \in E : InOrder(y, x)}) = k - 1
  <1>7. ASSUME NEW k \in 1 .. n PROVE e(k) = s[k]
    <2>1. s[k] \in E /\ Cardinality({y \in E : InOrder(y, s[k])}) = k - 1
      BY <1>2, <1>5
    <2>2. e(k) \in E /\ Cardinality({y \in E : InOrder(y, e(k))}) = k - 1
      BY <2>1, Zenon
    <2> HIDE DEF e
    <2>3. PICK j \in 1 .. n : e(k) = s[j]
      BY <1>2, <2>2
    <2>4. Cardinality({y \in E : InOrder(y, s[j])}) = j - 1
      BY <1>5
    <2>5. j - 1 = k - 1
      BY <2>2, <2>3, <2>4
    <2>6. QED
      BY <2>3, <2>5
  <1>8. Sorted(E, InOrder) = [k \in 1 .. Cardinality(E) |-> e(k)]
    BY DEF Sorted
  <1> HIDE DEF e
  <1>9. s = [k \in 1 .. n |-> s[k]]
    BY <1>1
  <1>10. Sorted(E, InOrder) = s
    BY <1>6, <1>7, <1>8, <1>9
  <1>11. QED
    BY <1>1, <1>2, <1>10, Zenon

LEMMA VisualAssembled ==
    ASSUME NEW result, result.events \in Seq(VisualHypotheses), result.quality \in Seq(Signals),
           NEW gate, ~AssembleVisual(result, gate).raises
    PROVE  /\ AssembleVisual(result, gate).events \in Seq(VisualEvents)
           /\ AssembleVisual(result, gate).windows \in Seq(Availabilities)
           /\ FlattenSeq(Mapped(result.quality, AssessmentsOf)) \in Seq(Assessments)
           /\ \E passing :
                 /\ AreThoseKept(AssembleVisual(result, gate).events, passing, result.events, gate)
                 /\ AssembleVisual(result, gate).gatedOut = Len(result.events) - Len(passing)
  <1>1. PICK passing : passing = Those(result.events, Kept(result.events, gate))
    OBVIOUS
  <1>2. PICK seen : seen = [n \in DOMAIN passing |-> VisualEventOf(passing[n])]
    OBVIOUS
  <1>3. Kept(result.events, gate) =
            {n \in DOMAIN result.events : PassesGate(result.events[n], gate)}
    BY DEF Kept
  <1>4. PICK all : all = AssembleVisual(result, gate)
    OBVIOUS
  <1>5. all = [raises   |-> \/ \E n \in DOMAIN seen : ~IsVisualEvent(seen[n])
                            \/ \E n \in DOMAIN result.quality : ~IsInterval(result.quality[n]),
               events   |-> seen,
               windows  |-> [n \in DOMAIN result.quality |-> AvailabilityOf(result.quality[n])],
               gatedOut |-> Len(result.events) - Len(passing)]
    BY <1>1, <1>2, <1>3, <1>4, Zenon DEF AssembleVisual
  <1>6. /\ all.events = seen /\ all.gatedOut = Len(result.events) - Len(passing)
        /\ all.windows = [n \in DOMAIN result.quality |-> AvailabilityOf(result.quality[n])]
        /\ \A n \in DOMAIN seen : IsVisualEvent(seen[n])
    BY <1>4, <1>5
  <1>7. seen \in Seq(VisualEvents)
    <2>1. PICK P : P = Kept(result.events, gate) /\ P \subseteq DOMAIN result.events
      BY DEF Kept
    <2>2. PICK c : c = Cardinality(P) /\ c \in Nat
      BY <2>1, ThoseAreThere, Zenon
    <2>3. passing \in Seq(VisualHypotheses) /\ DOMAIN passing = 1 .. c
      BY <1>1, <2>1, <2>2, ThoseAreThere, Zenon
    <2>4. \A n \in 1 .. c : passing[n] \in VisualHypotheses
      BY <2>3, LenProperties
    <2>5. seen = [n \in 1 .. c |-> VisualEventOf(passing[n])]
      BY <1>2, <2>3
    <2>6. \A n \in 1 .. c : seen[n] \in VisualEvents
      BY <1>6, <2>4, <2>5 DEF VisualEvents
    <2>7. seen \in [1 .. c -> VisualEvents]
      BY <2>5, <2>6
    <2>8. QED
      BY <2>2, <2>7, Tabulated
  <1>8. /\ Len(result.quality) \in Nat /\ DOMAIN result.quality = 1 .. Len(result.quality)
        /\ \A n \in 1 .. Len(result.quality) : result.quality[n] \in Signals
    BY LenProperties
  <1>9. all.windows \in Seq(Availabilities)
    <2>1. all.windows \in [1 .. Len(result.quality) -> Availabilities]
      BY <1>6, <1>8 DEF Availabilities
    <2>2. QED
      BY <1>8, <2>1, Tabulated
  <1>10. FlattenSeq(Mapped(result.quality, AssessmentsOf)) \in Seq(Assessments)
    <2>1. PICK rs : rs = Mapped(result.quality, AssessmentsOf)
      OBVIOUS
    <2>2. rs \in [1 .. Len(result.quality) -> Seq(Assessments)]
      BY <1>8, <2>1, AssessmentsOfTyped DEF Mapped
    <2>3. rs \in Seq(Seq(Assessments))
      BY <1>8, <2>2, Tabulated
    <2>4. FlattenSeq(rs) \in Seq(Assessments)
      BY <2>3, FlattenedRows
    <2>5. QED
      BY <2>1, <2>4
  <1>11. AreThoseKept(seen, passing, result.events, gate)
    BY <1>1, <1>2 DEF AreThoseKept
  <1>12. QED
    BY <1>4, <1>6, <1>7, <1>9, <1>10, <1>11

-----------------------------------------------------------------------------
(* The inductive invariant: what a run holds has the shape its             *)
(* constructors gave it, its words are in order, events are held under     *)
(* their own identifiers, the gate's account is right, and what a          *)
(* completion stored is what the run still holds and the tables accepted.  *)

EvidenceTyped ==
    /\ tokens \in Seq(Tokens) /\ Ordered(tokens) /\ prosody \in Seq(Readings)
    /\ IsDictionary(speechEvents, SpeechEvents)
    /\ IsDictionary(visualEvents, VisualEvents)
    /\ assessments \in Seq(Assessments) /\ availability \in Seq(Availabilities)
    /\ observed \in Seq(VisualHypotheses)

GateAccounted ==
    IF phase = "none" THEN observed = <<>> /\ visualEvents = <<>> /\ gatedOut = 0
    ELSE Accounted(configuration.gate, observed, visualEvents, gatedOut)

Stored ==
    phase = "completed" => document.evidence = Bundle /\ rows = RowsOf(Bundle) /\ Accepted(Bundle)

RInv ==
    /\ CInv
    /\ phase # "none" => configuration \in Snapshots
    /\ EvidenceTyped
    /\ GateAccounted
    /\ Stored

(* A step of the configuration, or of nothing.                             *)
LEMMA ConfigurationKept ==
    ASSUME RInv, [Next]_vars PROVE CInv'
  <1>1. CInv
    BY DEF RInv
  <1>2. CASE ConfigurationNext
    BY <1>1, <1>2, ConfigurationStepInv
  <1>3. CASE UNCHANGED configurationVars
    BY <1>1, <1>3 DEF CInv, configurationVars, IdsAreUnique, Agrees, Rows
  <1>4. QED
    BY <1>2, <1>3, RunsLeaveTheConfiguration DEF vars

LEMMA BundleKept ==
    ASSUME UNCHANGED <<configuration, arrived, evidenceVars>> PROVE Bundle' = Bundle
  BY DEF evidenceVars, audioVars, videoVars, Bundle, LossOf

LEMMA NothingIsAccounted ==
    ASSUME NEW gate PROVE Accounted(gate, <<>>, <<>>, 0)
  <1>1. Kept(<<>>, gate) = {} /\ DOMAIN <<>> = {} /\ Len(<<>>) = 0
    BY DEF Kept
  <1>2. Cardinality({}) = 0
    BY FS_EmptySet
  <1>3. PICK none : none = Kept(<<>>, gate) /\ none = {} /\ Cardinality(none) = 0
    BY <1>1, <1>2
  <1>4. {IdOf(<<>>[n]) : n \in none} = {}
    BY <1>3
  <1>5. DOMAIN <<>> = {IdOf(<<>>[n]) : n \in none}
    BY <1>1, <1>4
  <1>6. 0 = Len(<<>>) - Cardinality(none)
    BY <1>1, <1>3
  <1>7. \A n \in none : FALSE
    BY <1>3
  <1>8. QED
    BY <1>3, <1>5, <1>6, <1>7, Zenon DEF Accounted

LEMMA OpenInv ==
    ASSUME RInv, NEW s \in Requests, NEW b \in Builds, Open(s, b), CInv'
    PROVE  RInv'
  <1>1. phase = "none" /\ phase' = "live" /\ configuration' = Current(b)
        /\ UNCHANGED evidenceVars
    BY DEF Open
  <1>2. configuration' \in Snapshots'
    <2>1. Current(b) \in Snapshots
      BY CurrentIsSnapshot DEF RInv
    <2>2. QED
      BY <1>1, <2>1 DEF Snapshots
  <1>3. EvidenceTyped'
    BY <1>1 DEF RInv, EvidenceTyped, evidenceVars, audioVars, videoVars
  <1>4. GateAccounted'
    <2>1. observed' = <<>> /\ visualEvents' = <<>> /\ gatedOut' = 0
      BY <1>1 DEF RInv, GateAccounted, evidenceVars, videoVars
    <2>2. QED
      BY <1>1, <2>1, NothingIsAccounted, Zenon DEF GateAccounted
  <1>5. Stored'
    BY <1>1 DEF Stored
  <1>6. QED
    BY <1>2, <1>3, <1>4, <1>5, Zenon DEF RInv

LEMMA OfferStored ==
    ASSUME NEW m, NEW n, Offer(m, n), phase' = phase \/ phase' = "raised"
    PROVE  Stored' /\ phase # "none" /\ phase' # "none" /\ configuration' = configuration
  BY DEF Offer, Stored

LEMMA IngestAudioInv ==
    ASSUME RInv, NEW n \in Chunks.audio, NEW result \in SpeechResults[n],
           IngestAudio(n, result), CInv'
    PROVE  RInv'
  <1>1. /\ Offer("audio", n) /\ UNCHANGED videoVars
        /\ phase' = phase \/ phase' = "raised"
    BY DEF IngestAudio
  <1>2. Stored' /\ phase # "none" /\ phase' # "none" /\ configuration' = configuration
    BY <1>1, OfferStored
  <1>3. EvidenceTyped'
    <2>1. CASE UNCHANGED audioVars
      BY <1>1, <2>1 DEF RInv, EvidenceTyped, audioVars, videoVars
    <2>2. CASE ~UNCHANGED audioVars
      <3>1. PICK assembled : assembled = AssembleSpeech(result)
        OBVIOUS
      <3>2. /\ ~assembled.raises
            /\ tokens' = FinalizeThrough(WithProvisional(tokens, assembled.tokens), result.stable)
            /\ speechEvents' = Updated(speechEvents, assembled.events)
            /\ prosody' = prosody \o assembled.prosody
        BY <2>2, <3>1 DEF IngestAudio
      <3>3. /\ result.words \in Seq(WordHypotheses) /\ result.events \in Seq(SpeechHypotheses)
            /\ result.prosody \in Seq(ProsodyHypotheses)
        BY ResultsAssumption DEF Chunks
      <3>4. /\ assembled.tokens \in Seq(Tokens) /\ assembled.events \in Seq(SpeechEvents)
            /\ assembled.prosody \in Seq(Readings)
        BY <3>1, <3>2, <3>3, SpeechAssembled
      <3>5. tokens' \in Seq(Tokens) /\ Ordered(tokens')
        BY <3>2, <3>4, TranscriptTyped DEF RInv, EvidenceTyped
      <3>6. IsDictionary(speechEvents', SpeechEvents)
        BY <3>2, <3>4, UpdatedIsDictionary DEF RInv, EvidenceTyped
      <3>7. prosody' \in Seq(Readings)
        BY <3>2, <3>4, ConcatProperties DEF RInv, EvidenceTyped
      <3>8. /\ IsDictionary(visualEvents, VisualEvents) /\ assessments \in Seq(Assessments)
            /\ availability \in Seq(Availabilities) /\ observed \in Seq(VisualHypotheses)
            /\ visualEvents' = visualEvents /\ assessments' = assessments
            /\ availability' = availability /\ observed' = observed
        BY <1>1 DEF RInv, EvidenceTyped, videoVars
      <3>9. QED
        BY <3>5, <3>6, <3>7, <3>8 DEF EvidenceTyped
    <2>3. QED
      BY <2>1, <2>2
  <1>4. GateAccounted'
    BY <1>1, <1>2 DEF RInv, GateAccounted, videoVars
  <1>5. QED
    BY <1>2, <1>3, <1>4 DEF RInv

LEMMA IngestVideoInv ==
    ASSUME RInv, NEW n \in Chunks.video, NEW result \in VisualResults[n],
           IngestVideo(n, result), CInv'
    PROVE  RInv'
  <1>1. /\ Offer("video", n) /\ UNCHANGED audioVars
        /\ phase' = phase \/ phase' = "raised"
    BY DEF IngestVideo
  <1>2. Stored' /\ phase # "none" /\ phase' # "none" /\ configuration' = configuration
    BY <1>1, OfferStored
  <1>3. EvidenceTyped' /\ GateAccounted'
    <2>1. CASE UNCHANGED videoVars
      BY <1>1, <1>2, <2>1 DEF RInv, EvidenceTyped, GateAccounted, audioVars, videoVars
    <2>2. CASE ~UNCHANGED videoVars
      <3>1. PICK gate : gate = configuration.gate
        OBVIOUS
      <3>2. PICK assembled : assembled = AssembleVisual(result, gate)
        OBVIOUS
      <3>3. /\ ~assembled.raises
            /\ visualEvents' = Updated(visualEvents, assembled.events)
            /\ assessments' = assessments \o FlattenSeq(Mapped(result.quality, AssessmentsOf))
            /\ availability' = availability \o assembled.windows
            /\ gatedOut' = gatedOut + assembled.gatedOut
            /\ observed' = observed \o result.events
        BY <2>2, <3>1, <3>2 DEF IngestVideo
      <3>4. result.events \in Seq(VisualHypotheses) /\ result.quality \in Seq(Signals)
        BY ResultsAssumption DEF Chunks
      <3>5. /\ AssembleVisual(result, gate).events \in Seq(VisualEvents)
            /\ AssembleVisual(result, gate).windows \in Seq(Availabilities)
            /\ FlattenSeq(Mapped(result.quality, AssessmentsOf)) \in Seq(Assessments)
            /\ \E passing :
                  /\ AreThoseKept(AssembleVisual(result, gate).events, passing, result.events,
                                  gate)
                  /\ AssembleVisual(result, gate).gatedOut = Len(result.events) - Len(passing)
        BY <3>2, <3>3, <3>4, VisualAssembled, Zenon
      <3>6. /\ visualEvents' \in {visualEvents'} /\ IsDictionary(visualEvents, VisualEvents)
            /\ assessments \in Seq(Assessments) /\ availability \in Seq(Availabilities)
            /\ observed \in Seq(VisualHypotheses)
            /\ Accounted(gate, observed, visualEvents, gatedOut)
        BY <1>2, <3>1 DEF RInv, EvidenceTyped, GateAccounted
      <3>7. IsDictionary(visualEvents', VisualEvents)
        BY <3>2, <3>3, <3>5, <3>6, UpdatedIsDictionary
      <3>8. /\ assessments' \in Seq(Assessments) /\ availability' \in Seq(Availabilities)
            /\ observed' \in Seq(VisualHypotheses)
        BY <3>2, <3>3, <3>4, <3>5, <3>6, ConcatProperties
      <3>9. Accounted(gate, observed', visualEvents', gatedOut')
        <4>1. PICK passing : /\ AreThoseKept(assembled.events, passing, result.events, gate)
                             /\ assembled.gatedOut = Len(result.events) - Len(passing)
          BY <3>2, <3>5, Zenon
        <4>2. assembled.events \in Seq(VisualEvents)
          BY <3>2, <3>5, Zenon
        <4>3. Accounted(gate, observed \o result.events, Updated(visualEvents, assembled.events),
                        gatedOut + (Len(result.events) - Len(passing)))
          BY <3>4, <3>6, <4>1, <4>2, BatchIsAccounted, Zenon
        <4>4. QED
          BY <3>3, <4>1, <4>3, Zenon
      <3>10. EvidenceTyped'
        BY <1>1, <3>7, <3>8 DEF RInv, EvidenceTyped, audioVars
      <3>11. GateAccounted'
        BY <1>2, <3>1, <3>9 DEF GateAccounted
      <3>12. QED
        BY <3>10, <3>11
    <2>3. QED
      BY <2>1, <2>2
  <1>4. QED
    BY <1>2, <1>3 DEF RInv

LEMMA CompleteInv ==
    ASSUME RInv, Complete, CInv' PROVE RInv'
  <1>1. /\ phase = "live" /\ UNCHANGED <<configuration, arrived, evidenceVars>>
        /\ \/ phase' = "raised"
           \/ /\ phase' = "completed" /\ rows' = RowsOf(Bundle) /\ document'.evidence = Bundle
              /\ Accepted(Bundle)
    BY DEF Complete
  <1>2. Bundle' = Bundle
    BY <1>1, BundleKept
  <1>3. Stored'
    BY <1>1, <1>2, Zenon DEF Stored
  <1>4. EvidenceTyped'
    BY <1>1 DEF RInv, EvidenceTyped, evidenceVars, audioVars, videoVars
  <1>5. GateAccounted' /\ (phase' # "none" => configuration' \in Snapshots)
    BY <1>1 DEF RInv, GateAccounted, evidenceVars, videoVars
  <1>6. QED
    BY <1>3, <1>4, <1>5 DEF RInv

(* Neither an administrator nor a runtime that fails changes the evidence. *)
LEMMA OthersInv ==
    ASSUME RInv, UNCHANGED <<configuration, evidenceVars, storeVars, phase>>,
           UNCHANGED arrived \/ phase = "live", CInv'
    PROVE  RInv'
  <1>1. Stored'
    <2>1. CASE UNCHANGED arrived
      <3>1. Bundle' = Bundle
        BY <2>1, BundleKept
      <3>2. QED
        BY <3>1 DEF RInv, Stored, storeVars
    <2>2. CASE phase = "live"
      BY <2>2 DEF Stored
    <2>3. QED
      BY <2>1, <2>2
  <1>2. EvidenceTyped'
    BY DEF RInv, EvidenceTyped, evidenceVars, audioVars, videoVars
  <1>3. GateAccounted' /\ (phase' # "none" => configuration' \in Snapshots)
    BY DEF RInv, GateAccounted, evidenceVars, videoVars
  <1>4. QED
    BY <1>1, <1>2, <1>3 DEF RInv

LEMMA RunStepInv ==
    ASSUME RInv, [Next]_vars PROVE RInv'
  <1>1. CInv'
    BY ConfigurationKept
  <1>2. ASSUME NEW s \in Requests, NEW b \in Builds, Open(s, b) PROVE RInv'
    BY <1>1, <1>2, OpenInv
  <1>3. ASSUME NEW n \in Chunks.audio, NEW result \in SpeechResults[n], IngestAudio(n, result)
        PROVE  RInv'
    BY <1>1, <1>3, IngestAudioInv
  <1>4. ASSUME NEW n \in Chunks.video, NEW result \in VisualResults[n], IngestVideo(n, result)
        PROVE  RInv'
    BY <1>1, <1>4, IngestVideoInv
  <1>5. CASE Complete
    BY <1>1, <1>5, CompleteInv
  <1>6. CASE Administer \/ UNCHANGED vars
    <2>1. UNCHANGED <<configuration, evidenceVars, storeVars, phase>> /\ UNCHANGED arrived
      BY <1>6 DEF Administer, vars
    <2>2. QED
      BY <1>1, <2>1, OthersInv
  <1>7. ASSUME NEW m, NEW n, RuntimeFails(m, n) PROVE RInv'
    <2>1. UNCHANGED <<configuration, evidenceVars, storeVars, phase>> /\ phase = "live"
      BY <1>7 DEF RuntimeFails, Offer
    <2>2. QED
      BY <1>1, <2>1, OthersInv
  <1>8. QED
    BY <1>2, <1>3, <1>4, <1>5, <1>6, <1>7 DEF Next

THEOREM RunIsSound == Spec => []RInv
  <1>1. Init => RInv
    <2> SUFFICES ASSUME Init PROVE RInv
      OBVIOUS
    <2>1. CInv
      BY InitialConfiguration DEF Init
    <2>2. EvidenceTyped
      <3>1. tokens = <<>> /\ speechEvents = <<>> /\ prosody = <<>> /\ visualEvents = <<>>
            /\ assessments = <<>> /\ availability = <<>> /\ observed = <<>>
        BY DEF Init
      <3>2. \A S : <<>> \in Seq(S)
        BY EmptySeq
      <3>3. DOMAIN <<>> = {} /\ IsFiniteSet({})
        BY FS_EmptySet
      <3>4. \A S : IsDictionary(<<>>, S)
        BY <3>3 DEF IsDictionary
      <3>4a. Ordered(<<>>)
        BY <3>3 DEF Ordered
      <3>5. QED
        BY <3>1, <3>2, <3>4, <3>4a, Zenon DEF EvidenceTyped
    <2>3. phase = "none" /\ GateAccounted
      BY DEF Init, GateAccounted
    <2>4. QED
      BY <2>1, <2>2, <2>3 DEF RInv, Stored
  <1>2. RInv /\ [Next]_vars => RInv'
    BY RunStepInv
  <1>3. QED
    BY <1>1, <1>2, PTL DEF Spec

-----------------------------------------------------------------------------
(* The quality report.                                                     *)

LEMMA ReasonsAgree ==
    ASSUME NEW records \in Seq(Availabilities), NEW window
    PROVE  LET reason == UnavailabilityFor(records, window)
           IN  /\ IsUsable(records, window) => reason = Absent
               /\ reason = Absent /\ ~IsUsable(records, window)
                     => Overlapping(records, window) = {}
  <1>1. PICK refusing : refusing = {n \in Overlapping(records, window) : IsUnusable(records[n])}
    OBVIOUS
  <1>2. Len(records) \in Nat /\ DOMAIN records = 1 .. Len(records)
    BY LenProperties
  <1>3. refusing \subseteq 1 .. Len(records) /\ Overlapping(records, window) \subseteq DOMAIN records
    BY <1>1, <1>2 DEF Overlapping
  <1>4. PICK reason : reason = UnavailabilityFor(records, window)
    OBVIOUS
  <1>5. reason = IF refusing # {} THEN records[Min(refusing)].reason
                 ELSE IF records = <<>> THEN "modality_not_captured" ELSE Absent
    BY <1>1, <1>4 DEF UnavailabilityFor
  <1>6. CASE refusing # {}
    <2>1. Min(refusing) \in refusing
      BY <1>2, <1>3, <1>6, Extremes
    <2>2. reason # Absent
      BY <1>1, <1>5, <1>6, <2>1 DEF IsUnusable
    <2>3. ~IsUsable(records, window)
      BY <1>1, <2>1 DEF IsUsable
    <2>4. QED
      BY <1>4, <2>2, <2>3
  <1>7. CASE refusing = {}
    <2>1. IsUsable(records, window) <=> Overlapping(records, window) # {}
      BY <1>1, <1>7 DEF IsUsable
    <2>2. Overlapping(records, window) # {} => records # <<>>
      BY <1>3
    <2>3. QED
      BY <1>4, <1>5, <1>7, <2>1, <2>2
  <1>8. QED
    BY <1>6, <1>7

(* A usable window has no reason against it, and one that is neither       *)
(* usable nor refused has no record at all (assessment.py).                *)
THEOREM ReasonsNeverContradict == Spec => []ReasonsMatchUsability
  <1>1. RInv => ReasonsMatchUsability
    BY ReasonsAgree, Zenon DEF RInv, EvidenceTyped, ReasonsMatchUsability
  <1>2. QED
    BY <1>1, RunIsSound, PTL

-----------------------------------------------------------------------------
(* The gate.                                                               *)

LEMMA LatestIsLast ==
    ASSUME NEW hypotheses \in Seq(VisualHypotheses), NEW places,
           places \subseteq DOMAIN hypotheses, NEW n \in places
    PROVE  LET latest == Max({k \in places : IdOf(hypotheses[k]) = IdOf(hypotheses[n])})
           IN  /\ latest \in places /\ IdOf(hypotheses[latest]) = IdOf(hypotheses[n])
               /\ IsLast(latest, places, hypotheses)
  <1>1. Len(hypotheses) \in Nat /\ DOMAIN hypotheses = 1 .. Len(hypotheses)
    BY LenProperties
  <1>2. PICK S : S = {k \in places : IdOf(hypotheses[k]) = IdOf(hypotheses[n])}
    OBVIOUS
  <1>3. S \subseteq 1 .. Len(hypotheses) /\ S # {}
    BY <1>1, <1>2
  <1>4. Max(S) \in S /\ \A k \in S : k <= Max(S)
    BY <1>1, <1>3, Extremes
  <1>5. QED
    BY <1>2, <1>4 DEF IsLast

(* What the stream holds is the last confirmed hypothesis under each       *)
(* identifier, and all the others were counted as gated out, whatever the  *)
(* runtime answers and however the chunks arrive (visual_assembly.py).     *)
THEOREM GateIsAccounted == Spec => []HypothesesAreAccounted
  <1>1. RInv => HypothesesAreAccounted
    <2> SUFFICES ASSUME RInv PROVE HypothesesAreAccounted
      OBVIOUS
    <2>1. observed \in Seq(VisualHypotheses)
      BY DEF RInv, EvidenceTyped
    <2>2. /\ Len(observed) \in Nat /\ DOMAIN observed = 1 .. Len(observed)
          /\ \A n \in DOMAIN observed : observed[n] \in VisualHypotheses
      BY <2>1, LenProperties
    <2>3. PICK kept : kept = {n \in DOMAIN observed : Confirmed(observed[n])}
      OBVIOUS
    <2>4. /\ DOMAIN visualEvents = {IdOf(observed[n]) : n \in kept}
          /\ \A n \in kept : IsLast(n, kept, observed) =>
                visualEvents[IdOf(observed[n])] = VisualEventOf(observed[n])
          /\ gatedOut = Len(observed) - Cardinality(kept)
      <3>1. CASE phase = "none"
        <4>1. observed = <<>> /\ visualEvents = <<>> /\ gatedOut = 0
          BY <3>1 DEF RInv, GateAccounted
        <4>2. kept = {} /\ DOMAIN visualEvents = {} /\ Len(observed) = 0
          BY <2>3, <4>1
        <4>3. Cardinality(kept) = 0
          BY <4>2, FS_EmptySet
        <4>4. QED
          BY <4>1, <4>2, <4>3
      <3>2. CASE phase # "none"
        <4>1. PICK gate \in Int : gate = configuration.gate
          BY <3>2, ThresholdsAssumption DEF RInv, Snapshots
        <4>2. \A n \in DOMAIN observed : PassesGate(observed[n], gate) <=> Confirmed(observed[n])
          BY <2>2, <4>1, GateConfirms DEF Confirmed
        <4>3. kept = Kept(observed, gate)
          BY <2>3, <4>2 DEF Kept
        <4>4. Accounted(gate, observed, visualEvents, gatedOut)
          BY <3>2, <4>1 DEF RInv, GateAccounted
        <4>5. QED
          BY <4>3, <4>4, Zenon DEF Accounted
      <3>3. QED
        BY <3>1, <3>2
    <2>5. ASSUME NEW i \in DOMAIN visualEvents
          PROVE  visualEvents[i] =
                    VisualEventOf(observed[Max({n \in kept : IdOf(observed[n]) = i})])
      <3>1. PICK n \in kept : i = IdOf(observed[n])
        BY <2>4
      <3>2. PICK last : last = Max({k \in kept : IdOf(observed[k]) = IdOf(observed[n])})
        OBVIOUS
      <3>3. /\ last \in kept /\ IdOf(observed[last]) = IdOf(observed[n])
            /\ IsLast(last, kept, observed)
        <4>1. kept \subseteq DOMAIN observed
          BY <2>3
        <4>2. QED
          BY <2>1, <3>2, <4>1, LatestIsLast
      <3>4. QED
        BY <2>4, <3>1, <3>2, <3>3, Zenon
    <2>6. QED
      BY <2>3, <2>4, <2>5, Zenon DEF HypothesesAreAccounted, IdOf
  <1>2. QED
    BY <1>1, RunIsSound, PTL

-----------------------------------------------------------------------------
(* The rows.                                                               *)

LEMMA MappedThere ==
    ASSUME NEW S, NEW s \in Seq(S)
    PROVE  DOMAIN s = 1 .. Len(s) /\ Len(s) \in Nat /\ (\A n \in DOMAIN s : s[n] \in S)
           /\ s = [n \in DOMAIN s |-> s[n]]
  BY LenProperties

(* Every kind of evidence, but for the model of a reading, is what was     *)
(* written.                                                                *)
LEMMA EvidenceReadsBack ==
    ASSUME RInv, Accepted(Bundle)
    PROVE  LET back == BundleOf(RowsOf(Bundle))
           IN  /\ back.tokens = Bundle.tokens /\ back.speech = Bundle.speech
               /\ back.visual = Bundle.visual
               /\ Mapped(back.prosody, RenderProsody) = Mapped(Bundle.prosody, RenderProsody)
               /\ back.assessments = Bundle.assessments
               /\ back.availability = Bundle.availability
               /\ back.cooccurrences = Bundle.cooccurrences
  <1>1. PICK bundle : bundle = Bundle
    OBVIOUS
  <1>2. PICK all : all = RowsOf(bundle)
    OBVIOUS
  <1>3. PICK back : back = BundleOf(all)
    OBVIOUS
  <1>4. /\ bundle.tokens = tokens /\ bundle.prosody = prosody
        /\ bundle.availability = availability
        /\ bundle.speech = {speechEvents[i] : i \in DOMAIN speechEvents}
        /\ bundle.visual = {visualEvents[i] : i \in DOMAIN visualEvents}
        /\ bundle.assessments = assessments \o <<LossOf("audio")>>
                                  \o (IF arrived.video = {} THEN <<>> ELSE <<LossOf("video")>>)
    BY <1>1 DEF Bundle
  <1>5. /\ all.tokens = {TokenRow(bundle.tokens[n]) : n \in DOMAIN bundle.tokens}
        /\ all.speech = {SpeechRow(e) : e \in bundle.speech}
        /\ all.visual = {VisualRow(e) : e \in bundle.visual}
        /\ all.prosody = [n \in DOMAIN bundle.prosody |-> ProsodyRow(bundle.prosody[n])]
        /\ all.assessments =
              [n \in DOMAIN bundle.assessments |-> AssessmentRow(bundle.assessments[n])]
        /\ all.availability =
              [n \in DOMAIN bundle.availability |-> AvailabilityRow(bundle.availability[n])]
        /\ all.pairs = bundle.cooccurrences
    BY <1>2 DEF RowsOf, Mapped
  <1>6. PICK model : model = AudioModel(all)
    OBVIOUS
  <1>7. /\ back.tokens = Sorted({RowToken(row) : row \in all.tokens}, InOrder)
        /\ back.speech = {RowSpeech(row) : row \in all.speech}
        /\ back.visual = {RowVisual(row) : row \in all.visual}
        /\ back.prosody = [n \in DOMAIN all.prosody |-> RowProsody(all.prosody[n], model)]
        /\ back.assessments = [n \in DOMAIN all.assessments |-> RowAssessment(all.assessments[n])]
        /\ back.availability =
              [n \in DOMAIN all.availability |-> RowAvailability(all.availability[n])]
        /\ back.cooccurrences = all.pairs
    BY <1>3, <1>6 DEF BundleOf, Mapped
  <1>8. back.tokens = tokens
    <2>1. PICK t : t = tokens /\ t \in Seq(Tokens) /\ Ordered(t)
      BY DEF RInv, EvidenceTyped
    <2>2. \A n \in DOMAIN t : RowToken(TokenRow(t[n])) = t[n]
      BY <2>1, MappedThere, TokensReadBack
    <2>3. all.tokens = {TokenRow(t[n]) : n \in DOMAIN t}
      BY <1>4, <1>5, <2>1
    <2>4. {RowToken(row) : row \in all.tokens} = {t[n] : n \in DOMAIN t}
      BY <2>2, <2>3
    <2>5. \A j, k \in DOMAIN t : t[j].id = t[k].id => j = k
      <3>1. IsInjective([n \in DOMAIN t |-> t[n].id])
        BY <1>1, <1>4, <2>1 DEF Accepted, Mapped
      <3>2. QED
        BY <3>1 DEF IsInjective
    <2>6. Sorted({t[n] : n \in DOMAIN t}, InOrder) = t
      BY <2>1, <2>5, OrderedReadBack, Zenon
    <2>7. QED
      BY <1>7, <2>1, <2>4, <2>6, Zenon
  <1>9. back.speech = bundle.speech
    <2>1. \A e \in bundle.speech : RowSpeech(SpeechRow(e)) = e
      BY <1>4, SpeechReadsBack DEF RInv, EvidenceTyped, IsDictionary
    <2>2. back.speech = {RowSpeech(SpeechRow(e)) : e \in bundle.speech}
      BY <1>5, <1>7
    <2>3. QED
      BY <2>1, <2>2
  <1>10. back.visual = bundle.visual
    <2>1. \A e \in bundle.visual : RowVisual(VisualRow(e)) = e
      BY <1>4, VisualReadsBack DEF RInv, EvidenceTyped, IsDictionary
    <2>2. back.visual = {RowVisual(VisualRow(e)) : e \in bundle.visual}
      BY <1>5, <1>7
    <2>3. QED
      BY <2>1, <2>2
  <1>11. Mapped(back.prosody, RenderProsody) = Mapped(bundle.prosody, RenderProsody)
    <2>1. \A n \in DOMAIN prosody : prosody[n] \in Readings
      BY MappedThere DEF RInv, EvidenceTyped
    <2>2. all.prosody = [n \in DOMAIN prosody |-> ProsodyRow(prosody[n])]
      BY <1>4, <1>5
    <2>3. back.prosody = [n \in DOMAIN prosody |-> RowProsody(ProsodyRow(prosody[n]), model)]
      BY <1>7, <2>2
    <2>4. ASSUME NEW r \in Readings
          PROVE  RenderProsody(RowProsody(ProsodyRow(r), model)) = RenderProsody(r)
      BY ReadingsReadBack DEF RenderProsody
    <2>5. Mapped(back.prosody, RenderProsody) =
              [n \in DOMAIN prosody |-> RenderProsody(RowProsody(ProsodyRow(prosody[n]), model))]
      BY <2>3 DEF Mapped
    <2>6. Mapped(prosody, RenderProsody) = [n \in DOMAIN prosody |-> RenderProsody(prosody[n])]
      BY DEF Mapped
    <2>7. Mapped(back.prosody, RenderProsody) = Mapped(prosody, RenderProsody)
      BY <2>1, <2>4, <2>5, <2>6
    <2>8. QED
      BY <1>4, <2>7
  <1>12. back.assessments = bundle.assessments
    <2>1. PICK V : V = Assessments \cup {LossOf("audio"), LossOf("video")}
      OBVIOUS
    <2>2. bundle.assessments \in Seq(V)
      <3>1. PICK audio \in V, video \in V : audio = LossOf("audio") /\ video = LossOf("video")
        BY <2>1
      <3>2. PICK first, second : /\ first = <<audio>>
                                 /\ second = IF arrived.video = {} THEN <<>> ELSE <<video>>
        OBVIOUS
      <3>3. first \in Seq(V) /\ second \in Seq(V)
        <4>1. <<audio>> \in Seq(V) /\ <<video>> \in Seq(V)
          BY RowsOfOne
        <4>2. <<>> \in Seq(V)
          BY EmptySeq
        <4>3. QED
          BY <3>2, <4>1, <4>2, Zenon
      <3>4. assessments \in Seq(V)
        <4>1. /\ assessments \in Seq(Assessments) /\ Len(assessments) \in Nat
              /\ assessments \in [1 .. Len(assessments) -> Assessments]
          BY LenProperties DEF RInv, EvidenceTyped
        <4>2. assessments \in [1 .. Len(assessments) -> V]
          BY <2>1, <4>1
        <4>3. QED
          BY <4>1, <4>2, Tabulated
      <3>5. assessments \o first \in Seq(V)
        BY <3>3, <3>4, ConcatProperties
      <3>6. (assessments \o first) \o second \in Seq(V)
        BY <3>3, <3>5, ConcatProperties
      <3>7. QED
        BY <1>4, <3>1, <3>2, <3>6, Zenon
    <2>3. \A a \in V : RowAssessment(AssessmentRow(a)) = a
      BY <2>1, AssessmentsReadBack, LossesReadBack
    <2>4. PICK s : s = bundle.assessments
      OBVIOUS
    <2>5. s = [n \in DOMAIN s |-> s[n]] /\ \A n \in DOMAIN s : s[n] \in V
      BY <2>2, <2>4, MappedThere
    <2>6. all.assessments = [n \in DOMAIN s |-> AssessmentRow(s[n])]
      BY <1>5, <2>4, Zenon
    <2>7. back.assessments = [n \in DOMAIN s |-> RowAssessment(AssessmentRow(s[n]))]
      BY <1>7, <2>6
    <2>8. QED
      BY <2>3, <2>4, <2>5, <2>7
  <1>13. back.availability = availability
    <2>1. /\ availability = [n \in DOMAIN availability |-> availability[n]]
          /\ \A n \in DOMAIN availability : availability[n] \in Availabilities
      BY MappedThere DEF RInv, EvidenceTyped
    <2>2. all.availability = [n \in DOMAIN availability |-> AvailabilityRow(availability[n])]
      BY <1>4, <1>5
    <2>3. back.availability =
              [n \in DOMAIN availability |-> RowAvailability(AvailabilityRow(availability[n]))]
      BY <1>7, <2>2
    <2>4. QED
      BY <2>1, <2>3, AvailabilitiesReadBack
  <1>14. back.cooccurrences = bundle.cooccurrences
    BY <1>5, <1>7
  <1>15. QED
    BY <1>1, <1>2, <1>3, <1>4, <1>8, <1>9, <1>10, <1>11, <1>12, <1>13, <1>14, Zenon

(* Whoever reads a completed session, on a build that speaks of its        *)
(* taxonomy, is given what was completed, its words in their order,        *)
(* whatever the run held (mapping.py, _read_bundle, transcript.py,         *)
(* serialization.py).                                                      *)
THEOREM DocumentsAreRead == Spec => []DocumentsReadBack
  <1>1. RInv => DocumentsReadBack
    <2> SUFFICES ASSUME RInv, phase = "completed"
                 PROVE  Render(BundleOf(rows)) = Render(document.evidence)
      BY DEF DocumentsReadBack
    <2>1. PICK bundle : /\ bundle = Bundle /\ document.evidence = bundle /\ rows = RowsOf(bundle)
                        /\ Accepted(Bundle)
      BY DEF RInv, Stored
    <2>2. PICK back : back = BundleOf(rows)
      OBVIOUS
    <2>3. /\ back.tokens = bundle.tokens /\ back.speech = bundle.speech
          /\ back.visual = bundle.visual
          /\ Mapped(back.prosody, RenderProsody) = Mapped(bundle.prosody, RenderProsody)
          /\ back.assessments = bundle.assessments
          /\ back.availability = bundle.availability
          /\ back.cooccurrences = bundle.cooccurrences
      BY <2>1, <2>2, EvidenceReadsBack, Zenon
    <2>4. Render(back) = Render(bundle)
      BY <2>3, Zenon DEF Render
    <2>5. QED
      BY <2>1, <2>2, <2>4, Zenon
  <1>2. QED
    BY <1>1, RunIsSound, PTL

-----------------------------------------------------------------------------
(* The pairs.                                                              *)

LEMMA GapIsReach ==
    ASSUME NEW e, e.start \in Int, e.end \in Int, IsInterval(e),
           NEW f, f.start \in Int, f.end \in Int, IsInterval(f), NEW width \in Nat
    PROVE  GapTo(e, f) <= width <=> WithinReach(e, f, width)
  BY DEF IsInterval, GapTo, Overlap, WithinReach

(* Each pair is of two events within reach, all such pairs are there, and  *)
(* they are in the order of the speech events, then of the visual events.  *)
ArePairsOf(pairs, speech, visual, width) ==
    /\ \A n \in DOMAIN pairs : \E e \in speech, f \in visual :
          pairs[n].speech = e.id /\ pairs[n].visual = f.id /\ WithinReach(e, f, width)
    /\ \A e \in speech, f \in visual : WithinReach(e, f, width) =>
          \E n \in DOMAIN pairs : pairs[n].speech = e.id /\ pairs[n].visual = f.id
    /\ \A j, k \in DOMAIN pairs : j < k =>
          \E e1, e2 \in speech, f1, f2 \in visual :
             /\ pairs[j].speech = e1.id /\ pairs[j].visual = f1.id
             /\ pairs[k].speech = e2.id /\ pairs[k].visual = f2.id
             /\ InOrder(e1, e2) \/ (e1 = e2 /\ InOrder(f1, f2))

LEMMA PairsAreComplete ==
    ASSUME NEW speech, IsFiniteSet(speech), Identified(speech),
           NEW visual, IsFiniteSet(visual), Identified(visual),
           \A e \in speech \cup visual : IsInterval(e),
           NEW width \in Nat
    PROVE  ArePairsOf(Correlate(speech, visual, width), speech, visual, width)
  <1>1. PICK m, n : m = Cardinality(speech) /\ n = Cardinality(visual)
    OBVIOUS
  <1>2. PICK outer, inner : outer = Sorted(speech, InOrder) /\ inner = Sorted(visual, InOrder)
    OBVIOUS
  <1>3. /\ m \in Nat /\ outer \in [1 .. m -> speech]
        /\ \A e \in speech : \E k \in 1 .. m : outer[k] = e
        /\ \A j, k \in 1 .. m : j < k <=> InOrder(outer[j], outer[k])
    BY <1>1, <1>2, SortedEvents, Zenon
  <1>4. /\ n \in Nat /\ inner \in [1 .. n -> visual]
        /\ \A f \in visual : \E k \in 1 .. n : inner[k] = f
        /\ \A j, k \in 1 .. n : j < k <=> InOrder(inner[j], inner[k])
    BY <1>1, <1>2, SortedEvents, Zenon
  <1>5. PICK admitted :
            admitted = {p \in (1 .. m) \X (1 .. n) : GapTo(outer[p[1]], inner[p[2]]) <= width}
    OBVIOUS
  <1>6. PICK steps, c : steps = Sorted(admitted, Lexicographic) /\ c = Cardinality(admitted)
    OBVIOUS
  <1>7. /\ c \in Nat /\ steps \in [1 .. c -> admitted]
        /\ \A p \in admitted : \E k \in 1 .. c : steps[k] = p
        /\ \A j, k \in 1 .. c : j < k <=> Lexicographic(steps[j], steps[k])
    <2>1. m \in Nat
      BY <1>3
    <2>2. n \in Nat
      BY <1>4
    <2>3. admitted \subseteq (1 .. m) \X (1 .. n)
      BY <1>5
    <2>4. /\ Cardinality(admitted) \in Nat
          /\ Sorted(admitted, Lexicographic) \in [1 .. Cardinality(admitted) -> admitted]
          /\ \A p \in admitted : \E k \in 1 .. Cardinality(admitted) :
                Sorted(admitted, Lexicographic)[k] = p
          /\ \A j, k \in 1 .. Cardinality(admitted) :
                j < k <=> Lexicographic(Sorted(admitted, Lexicographic)[j],
                                        Sorted(admitted, Lexicographic)[k])
      BY <2>1, <2>2, <2>3, SortedSteps
    <2>5. QED
      BY <1>6, <2>4, Zenon
  <1>8. PICK pairs : pairs = Correlate(speech, visual, width)
    OBVIOUS
  <1>9. pairs = [k \in 1 .. c |-> Pair(outer[steps[k][1]], inner[steps[k][2]], width)]
    BY <1>1, <1>2, <1>5, <1>6, <1>8, Zenon DEF Correlate
  <1>10. ASSUME NEW p \in admitted
         PROVE  /\ p[1] \in 1 .. m /\ p[2] \in 1 .. n
                /\ outer[p[1]] \in speech /\ inner[p[2]] \in visual
                /\ WithinReach(outer[p[1]], inner[p[2]], width)
    <2>1. p[1] \in 1 .. m /\ p[2] \in 1 .. n /\ GapTo(outer[p[1]], inner[p[2]]) <= width
      BY <1>5
    <2>2. PICK e \in speech, f \in visual : e = outer[p[1]] /\ f = inner[p[2]]
      BY <1>3, <1>4, <2>1
    <2>3. /\ e.start \in Int /\ e.end \in Int /\ IsInterval(e)
          /\ f.start \in Int /\ f.end \in Int /\ IsInterval(f)
      BY DEF Identified
    <2>4. GapTo(e, f) <= width <=> WithinReach(e, f, width)
      BY <2>3, GapIsReach, Zenon
    <2>5. QED
      BY <2>1, <2>2, <2>4, Zenon
  <1>11. /\ DOMAIN pairs = 1 .. c
         /\ \A k \in 1 .. c : /\ pairs[k].speech = outer[steps[k][1]].id
                              /\ pairs[k].visual = inner[steps[k][2]].id
    BY <1>9 DEF Pair
  <1>12. ASSUME NEW k \in DOMAIN pairs
         PROVE  \E e \in speech, f \in visual :
                   pairs[k].speech = e.id /\ pairs[k].visual = f.id /\ WithinReach(e, f, width)
    <2>1. steps[k] \in admitted
      BY <1>7, <1>11
    <2>2. QED
      BY <1>10, <1>11, <2>1, Zenon
  <1>13. ASSUME NEW e \in speech, NEW f \in visual, WithinReach(e, f, width)
         PROVE  \E k \in DOMAIN pairs : pairs[k].speech = e.id /\ pairs[k].visual = f.id
    <2>1. PICK i \in 1 .. m : outer[i] = e
      BY <1>3, Zenon
    <2>2. PICK j \in 1 .. n : inner[j] = f
      BY <1>4, Zenon
    <2>3. /\ e.start \in Int /\ e.end \in Int /\ IsInterval(e)
          /\ f.start \in Int /\ f.end \in Int /\ IsInterval(f)
      BY DEF Identified
    <2>4. GapTo(e, f) <= width
      BY <1>13, <2>3, GapIsReach, Zenon
    <2>5. <<i, j>> \in admitted
      BY <1>5, <2>1, <2>2, <2>4
    <2>6. PICK k \in 1 .. c : steps[k] = <<i, j>>
      BY <1>7, <2>5, Zenon
    <2>7. steps[k][1] = i /\ steps[k][2] = j
      BY <2>6
    <2>8. QED
      BY <1>11, <2>1, <2>2, <2>7, Zenon
  <1>14. ASSUME NEW j \in DOMAIN pairs, NEW k \in DOMAIN pairs, j < k
         PROVE  \E e1, e2 \in speech, f1, f2 \in visual :
                   /\ pairs[j].speech = e1.id /\ pairs[j].visual = f1.id
                   /\ pairs[k].speech = e2.id /\ pairs[k].visual = f2.id
                   /\ InOrder(e1, e2) \/ (e1 = e2 /\ InOrder(f1, f2))
    <2>1. PICK p \in admitted, q \in admitted : p = steps[j] /\ q = steps[k]
      BY <1>7, <1>11
    <2>2. p[1] < q[1] \/ (p[1] = q[1] /\ p[2] < q[2])
      BY <1>7, <1>11, <1>14, <2>1, Zenon DEF Lexicographic
    <2>3. PICK e1 \in speech, e2 \in speech, f1 \in visual, f2 \in visual :
            e1 = outer[p[1]] /\ e2 = outer[q[1]] /\ f1 = inner[p[2]] /\ f2 = inner[q[2]]
      BY <1>10, Zenon
    <2>4. InOrder(e1, e2) \/ (e1 = e2 /\ InOrder(f1, f2))
      BY <1>3, <1>4, <1>10, <2>2, <2>3, Zenon
    <2>5. /\ pairs[j].speech = e1.id /\ pairs[j].visual = f1.id
          /\ pairs[k].speech = e2.id /\ pairs[k].visual = f2.id
      BY <1>11, <2>1, <2>3, Zenon
    <2>6. QED
      BY <2>4, <2>5, Zenon
  <1>15. ArePairsOf(pairs, speech, visual, width)
    BY <1>12, <1>13, <1>14, Zenon DEF ArePairsOf
  <1>16. QED
    BY <1>8, <1>15, Zenon

LEMMA DictionariesIdentify ==
    ASSUME NEW held, NEW S, IsDictionary(held, S),
           \A e \in S : e.id \in DOMAIN DigestOf /\ e.start \in Int /\ e.end \in Int
    PROVE  /\ IsFiniteSet({held[i] : i \in DOMAIN held})
           /\ Identified({held[i] : i \in DOMAIN held})
  <1>1. IsFiniteSet({held[i] : i \in DOMAIN held})
    BY FiniteValues DEF IsDictionary
  <1>2. PICK E : E = {held[i] : i \in DOMAIN held}
    OBVIOUS
  <1>3. \A e \in E : e \in S /\ e.id \in DOMAIN held /\ e = held[e.id]
    BY <1>2 DEF IsDictionary
  <1>4. Identified(E)
    BY <1>3, Zenon DEF Identified
  <1>5. QED
    BY <1>1, <1>2, <1>4, Zenon

(* The co-occurrences of a document are all the pairs within the window it *)
(* ran under and no others, once each, in an order that depends on the     *)
(* events alone (cooccurrence.py, fusion.py, NFR-015).                     *)
THEOREM PairingIsComplete == Spec => []CooccurrencesAreComplete
  <1>1. RInv => CooccurrencesAreComplete
    <2> SUFFICES ASSUME RInv, phase = "completed"
                 PROVE  CooccurrencesAreComplete
      BY DEF CooccurrencesAreComplete
    <2>1. PICK speech : speech = {speechEvents[i] : i \in DOMAIN speechEvents}
      OBVIOUS
    <2>2. PICK visual : visual = {visualEvents[i] : i \in DOMAIN visualEvents}
      OBVIOUS
    <2>3. PICK width \in Nat : width = configuration.width
      BY ThresholdsAssumption DEF RInv, Snapshots
    <2>4. PICK pairs : pairs = Correlate(speech, visual, width)
      OBVIOUS
    <2>5. /\ document.evidence.speech = speech /\ document.evidence.visual = visual
          /\ document.evidence.cooccurrences = pairs
      <3>1. document.evidence = Bundle
        BY DEF RInv, Stored
      <3>2. /\ Bundle.speech = speech /\ Bundle.visual = visual
            /\ Bundle.cooccurrences = Correlate(speech, visual, configuration.width)
        BY <2>1, <2>2 DEF Bundle
      <3>3. QED
        BY <2>3, <2>4, <3>1, <3>2, Zenon
    <2>6. /\ IsDictionary(speechEvents, SpeechEvents) /\ IsDictionary(visualEvents, VisualEvents)
      BY DEF RInv, EvidenceTyped
    <2>7. /\ \A e \in speech : e \in SpeechEvents /\ speechEvents[e.id] = e
          /\ \A f \in visual : f \in VisualEvents /\ visualEvents[f.id] = f
      BY <2>1, <2>2, <2>6 DEF IsDictionary
    <2>8. IsFiniteSet(speech) /\ Identified(speech)
      <3>1. \A e \in SpeechEvents : e.id \in DOMAIN DigestOf /\ e.start \in Int /\ e.end \in Int
        BY SpeechEventTyped
      <3>2. QED
        BY <2>1, <2>6, <3>1, DictionariesIdentify, Zenon
    <2>9. IsFiniteSet(visual) /\ Identified(visual)
      <3>1. \A e \in VisualEvents : e.id \in DOMAIN DigestOf /\ e.start \in Int /\ e.end \in Int
        BY VisualEventTyped
      <3>2. QED
        BY <2>2, <2>6, <3>1, DictionariesIdentify, Zenon
    <2>10. \A e \in speech \cup visual : IsInterval(e)
      BY <2>7, SpeechEventTyped, VisualEventTyped
    <2>11. ArePairsOf(pairs, speech, visual, width)
      BY <2>4, <2>8, <2>9, <2>10, PairsAreComplete, Zenon
    <2>12. {<<p.speech, p.visual>> : p \in ToSet(pairs)} =
              {<<q[1].id, q[2].id>> : q \in {q \in speech \X visual : WithinReach(q[1], q[2], width)}}
      <3>1. PICK found : found = {<<p.speech, p.visual>> : p \in ToSet(pairs)}
        OBVIOUS
      <3>2. PICK near : near = {q \in speech \X visual : WithinReach(q[1], q[2], width)}
        OBVIOUS
      <3>3. PICK due : due = {<<q[1].id, q[2].id>> : q \in near}
        OBVIOUS
      <3>4. ASSUME NEW x \in found PROVE x \in due
        <4>1. PICK n \in DOMAIN pairs : x = <<pairs[n].speech, pairs[n].visual>>
          BY <3>1 DEF ToSet
        <4>2. PICK e \in speech, f \in visual :
                 pairs[n].speech = e.id /\ pairs[n].visual = f.id /\ WithinReach(e, f, width)
          BY <2>11, Zenon DEF ArePairsOf
        <4>3. <<e, f>> \in near /\ x = <<e.id, f.id>>
          BY <3>2, <4>1, <4>2
        <4>4. <<e, f>>[1] = e /\ <<e, f>>[2] = f
          OBVIOUS
        <4>5. QED
          BY <3>3, <4>3, <4>4
      <3>5. ASSUME NEW x \in due PROVE x \in found
        <4>1. PICK e \in speech, f \in visual : WithinReach(e, f, width) /\ x = <<e.id, f.id>>
          BY <3>2, <3>3, <3>5
        <4>2. PICK n \in DOMAIN pairs : pairs[n].speech = e.id /\ pairs[n].visual = f.id
          BY <2>11, <4>1, Zenon DEF ArePairsOf
        <4>3. pairs[n] \in ToSet(pairs)
          BY DEF ToSet
        <4>4. QED
          BY <3>1, <4>1, <4>2, <4>3
      <3>6. found = due
        BY <3>4, <3>5
      <3>7. QED
        BY <3>1, <3>2, <3>3, <3>6, Zenon
    <2>13. ASSUME NEW j \in DOMAIN pairs, NEW k \in DOMAIN pairs, j < k
           PROVE  \/ InOrder(speechEvents[pairs[j].speech], speechEvents[pairs[k].speech])
                  \/ /\ pairs[j].speech = pairs[k].speech
                     /\ InOrder(visualEvents[pairs[j].visual], visualEvents[pairs[k].visual])
      <3>1. PICK e1 \in speech, e2 \in speech, f1 \in visual, f2 \in visual :
               /\ pairs[j].speech = e1.id /\ pairs[j].visual = f1.id
               /\ pairs[k].speech = e2.id /\ pairs[k].visual = f2.id
               /\ InOrder(e1, e2) \/ (e1 = e2 /\ InOrder(f1, f2))
        BY <2>11, <2>13, Zenon DEF ArePairsOf
      <3>2. QED
        BY <2>7, <3>1, Zenon
    <2>14. QED
      BY <2>3, <2>5, <2>12, <2>13, Zenon DEF CooccurrencesAreComplete
  <1>2. QED
    BY <1>1, RunIsSound, PTL

=============================================================================
