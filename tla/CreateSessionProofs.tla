------------------------- MODULE CreateSessionProofs -------------------------
(***************************************************************************)
(* Proofs about session creation, for any requests, keys, limit and degree *)
(* of concurrency.                                                         *)
(***************************************************************************)
EXTENDS CreateSession, FiniteSetTheorems, TLAPS

BeforeAdd == {"idle", "check", "negotiate", "claim", "replay", "add"}

(* How far each request has come, and what that says of the stores. *)
Progress ==
    \A r \in Requests :
        /\ pc[r] \in BeforeAdd => r \notin sessions
        /\ pc[r] \in {"freeze", "audit", "consume"} => r \in sessions
        /\ pc[r] \in {"audit", "consume"} => r \in frozen
        /\ pc[r] # "answered" => answer[r] = None
        /\ pc[r] = "claim" => Keyed(r)

(* The account of a request that has been answered and of its key. *)
Inv == TypeOK /\ Progress /\ AnswersAreBacked

(* The empty service (CreateSession has no state of its own). *)
LEMMA InitInv == Init => Inv
<1> SUFFICES ASSUME Init PROVE Inv
  OBVIOUS
<1> USE KeysAssumption, BoundsAssumption DEF Init
<1>1. TypeOK
  BY DEF TypeOK, Steps
<1>2. Progress
  BY DEF Progress
<1>3. AnswersAreBacked
  BY DEF AnswersAreBacked
<1> QED BY <1>1, <1>2, <1>3 DEF Inv

(* Replay either answers with the stored session of the key, or moves on   *)
(* to a step that writes nothing before the next check (_replay).          *)
LEMMA ReplayInv ==
    ASSUME Inv, NEW r \in Requests, NEW step \in {"idle", "replay"},
           NEW otherwise \in {"check", "add"}, Replay(r, step, otherwise)
    PROVE  Inv'
<1> USE KeysAssumption DEF Inv, Replay, stored, quota
<1>1. CASE Replays(r)
  <2>1. /\ Keyed(r) /\ claims[KeyOf[r]] \in sessions /\ KeyOf[r] \in Keys
        /\ r \notin sessions
        /\ pc' = [pc EXCEPT ![r] = "answered"]
        /\ answer' = [answer EXCEPT ![r] = claims[KeyOf[r]]]
        /\ UNCHANGED <<claims, sessions, frozen, audited, window, used>>
    BY <1>1 DEF Replays, Keyed, Answer, Goto, Progress, BeforeAdd, TypeOK
  <2>2. TypeOK'
    BY <2>1 DEF TypeOK, Steps
  <2>3. Progress'
    BY <2>1 DEF Progress, BeforeAdd, TypeOK, Keyed
  <2>4. AnswersAreBacked'
    BY <2>1 DEF AnswersAreBacked, TypeOK, Keyed
  <2> QED BY <2>2, <2>3, <2>4
<1>2. CASE ~Replays(r)
  <2>1. /\ pc' = [pc EXCEPT ![r] = otherwise]
        /\ UNCHANGED <<claims, sessions, frozen, audited, window, used, answer>>
    BY <1>2 DEF Goto
  <2>2. TypeOK'
    BY <2>1 DEF TypeOK, Steps, WorkingSteps, AdmittedSteps
  <2>3. Progress'
    BY <2>1 DEF Progress, BeforeAdd, TypeOK, Keyed
  <2>4. AnswersAreBacked'
    BY <2>1 DEF AnswersAreBacked, Keyed
  <2> QED BY <2>2, <2>3, <2>4
<1> QED BY <1>1, <1>2

(* Every step of a request keeps the account (CreateSession.execute). *)
LEMMA NextInv == Inv /\ [Next]_vars => Inv'
<1> SUFFICES ASSUME Inv, [Next]_vars PROVE Inv'
  OBVIOUS
<1> USE KeysAssumption, BoundsAssumption DEF stored, quota
<1> DEFINE Silent(r, steps) ==
      /\ pc' \in {[pc EXCEPT ![r] = step] : step \in steps}
      /\ UNCHANGED <<claims, sessions, frozen, audited, window, used, answer>>
<1>0. ASSUME NEW r \in Requests, NEW steps \in SUBSET Steps,
             Silent(r, steps),
             \/ pc[r] \in BeforeAdd /\ steps \subseteq {"negotiate", "claim", "add", "refused"}
                /\ ("claim" \in steps => Keyed(r))
             \/ pc[r] \in WorkingSteps /\ steps = {"dead"}
      PROVE Inv'
  <2>1. PICK step \in steps : pc' = [pc EXCEPT ![r] = step]
    BY <1>0
  <2>2. TypeOK'
    BY <1>0, <2>1 DEF Inv, TypeOK
  <2>3. Progress'
    BY <1>0, <2>1 DEF Inv, Progress, TypeOK, BeforeAdd, Keyed,
                      WorkingSteps, AdmittedSteps
  <2>4. AnswersAreBacked'
    BY <1>0 DEF Inv, AnswersAreBacked, Keyed
  <2> QED BY <2>2, <2>3, <2>4 DEF Inv
<1>1. ASSUME NEW r \in Requests, Start(r) PROVE Inv'
  BY <1>1, ReplayInv DEF Start
<1>2. ASSUME NEW r \in Requests, ReplayAfterClaim(r) PROVE Inv'
  BY <1>2, ReplayInv DEF ReplayAfterClaim
<1>3. ASSUME NEW r \in Requests, CheckQuota(r) PROVE Inv'
  <2>1. Silent(r, {"negotiate", "refused"})
    BY <1>3 DEF CheckQuota, Goto
  <2>2. pc[r] \in BeforeAdd /\ {"negotiate", "refused"} \in SUBSET Steps
    BY <1>3 DEF CheckQuota, BeforeAdd, Steps, WorkingSteps, AdmittedSteps
  <2> HIDE DEF Silent
  <2> QED BY <1>0, <2>1, <2>2
<1>4. ASSUME NEW r \in Requests, Negotiate(r) PROVE Inv'
  <2> DEFINE steps == {"refused", IF Keyed(r) THEN "claim" ELSE "add"}
  <2>1. Silent(r, steps)
    BY <1>4 DEF Negotiate, Goto
  <2>2. pc[r] \in BeforeAdd /\ steps \in SUBSET Steps
    BY <1>4 DEF Negotiate, BeforeAdd, Steps, WorkingSteps, AdmittedSteps
  <2>3. steps \subseteq {"negotiate", "claim", "add", "refused"}
    OBVIOUS
  <2>4. "claim" \in steps => Keyed(r)
    OBVIOUS
  <2> HIDE DEF Silent, steps
  <2> QED BY <1>0, <2>1, <2>2, <2>3, <2>4
<1>5. ASSUME NEW r \in Requests, Fail(r) PROVE Inv'
  <2>1. Silent(r, {"dead"})
    BY <1>5 DEF Fail, Goto
  <2>2. pc[r] \in WorkingSteps /\ {"dead"} \in SUBSET Steps
    BY <1>5 DEF Fail, Steps
  <2> HIDE DEF Silent
  <2> QED BY <1>0, <2>1, <2>2
<1>6. ASSUME NEW r \in Requests, Claim(r) PROVE Inv'
  <2>1. /\ pc[r] = "claim" /\ Keyed(r) /\ KeyOf[r] \in Keys
        /\ \/ claims[KeyOf[r]] = None /\ claims' = [claims EXCEPT ![KeyOf[r]] = r]
              /\ pc' = [pc EXCEPT ![r] = "add"]
           \/ claims' = claims /\ pc' = [pc EXCEPT ![r] = "replay"]
        /\ UNCHANGED <<sessions, frozen, audited, window, used, answer>>
    BY <1>6 DEF Claim, Goto, Inv, Progress, Keyed
  <2>2. TypeOK'
    BY <2>1 DEF Inv, TypeOK, Steps, WorkingSteps, AdmittedSteps
  <2>3. Progress'
    BY <2>1 DEF Inv, Progress, TypeOK, BeforeAdd, Keyed
  <2>4. AnswersAreBacked'
    BY <2>1 DEF Inv, AnswersAreBacked, TypeOK, Keyed
  <2> QED BY <2>2, <2>3, <2>4 DEF Inv
<1>7. ASSUME NEW r \in Requests, Add(r) \/ Freeze(r) \/ Audit(r) PROVE Inv'
  <2>1. /\ \/ pc[r] = "add" /\ sessions' = sessions \cup {r}
              /\ pc' = [pc EXCEPT ![r] = "freeze"] /\ UNCHANGED <<frozen, audited>>
           \/ pc[r] = "freeze" /\ frozen' = frozen \cup {r}
              /\ pc' = [pc EXCEPT ![r] = "audit"] /\ UNCHANGED <<sessions, audited>>
           \/ pc[r] = "audit" /\ audited' = audited \cup {r}
              /\ pc' = [pc EXCEPT ![r] = "consume"] /\ UNCHANGED <<sessions, frozen>>
        /\ UNCHANGED <<claims, window, used, answer>>
    BY <1>7 DEF Add, Freeze, Audit, Goto
  <2>2. TypeOK'
    BY <2>1 DEF Inv, TypeOK, Progress, Steps, WorkingSteps, AdmittedSteps
  <2>3. Progress'
    BY <2>1 DEF Inv, Progress, TypeOK, BeforeAdd, Keyed
  <2>4. AnswersAreBacked'
    BY <2>1 DEF Inv, AnswersAreBacked, TypeOK, Progress, Keyed
  <2> QED BY <2>2, <2>3, <2>4 DEF Inv
<1>8. ASSUME NEW r \in Requests, Consume(r) PROVE Inv'
  <2>1. /\ pc[r] = "consume" /\ r \in sessions
        /\ used' = used + 1
        /\ pc' = [pc EXCEPT ![r] = "answered"]
        /\ answer' = [answer EXCEPT ![r] = r]
        /\ UNCHANGED <<claims, sessions, frozen, audited, window>>
    BY <1>8 DEF Consume, Answer, Goto, Inv, Progress
  <2>2. TypeOK'
    BY <2>1 DEF Inv, TypeOK, Steps
  <2>3. Progress'
    BY <2>1 DEF Inv, Progress, TypeOK, BeforeAdd, Keyed
  <2>4. AnswersAreBacked'
    BY <2>1 DEF Inv, AnswersAreBacked, TypeOK, Keyed
  <2> QED BY <2>2, <2>3, <2>4 DEF Inv
<1>9. CASE NextWindow \/ UNCHANGED vars
  <2>1. /\ window' \in 0 .. MaxWindows /\ used' \in Nat
        /\ UNCHANGED <<claims, sessions, frozen, audited, pc, answer>>
    BY <1>9 DEF NextWindow, vars, Inv, TypeOK
  <2> QED BY <2>1 DEF Inv, TypeOK, Progress, AnswersAreBacked, Keyed
<1> QED BY <1>1, <1>2, <1>3, <1>4, <1>5, <1>6, <1>7, <1>8, <1>9 DEF Next

(* The account holds in every behaviour (CreateSession.execute). *)
LEMMA AlwaysInv == Spec => []Inv
BY InitInv, NextInv, PTL DEF Spec

(* Type correctness; a session is frozen only once stored and audited only *)
(* once frozen (CreateSession.execute).                                    *)
THEOREM TypeCorrect == Spec => []TypeOK
<1>1. Inv => TypeOK
  BY DEF Inv
<1> QED BY AlwaysInv, <1>1, PTL

(* Every answer is backed by a stored session (_replay). *)
THEOREM AnswersNameStoredSessions == Spec => []AnswersAreBacked
<1>1. Inv => AnswersAreBacked
  BY DEF Inv
<1> QED BY AlwaysInv, <1>1, PTL

(* A key that finds a session finds it for ever (claim_idempotency_key). *)
THEOREM RetriesAreStable == Spec => RetriesFindTheSame
<1> DEFINE Step == \A r \in Requests : Replays(r) => claims'[KeyOf[r]] = claims[KeyOf[r]]
<1>1. Inv /\ [Next]_vars => [Step]_vars
  <2> SUFFICES ASSUME Inv, Next, NEW r \in Requests, Replays(r)
               PROVE  claims'[KeyOf[r]] = claims[KeyOf[r]]
    OBVIOUS
  <2>1. claims[KeyOf[r]] # None /\ KeyOf[r] \in Keys
    BY KeysAssumption DEF Replays, Keyed, Inv, TypeOK
  <2>2. ASSUME NEW q \in Requests, Claim(q) PROVE claims'[KeyOf[r]] = claims[KeyOf[r]]
    <3>1. CASE claims' = claims
      BY <3>1
    <3>2. CASE claims[KeyOf[q]] = None /\ claims' = [claims EXCEPT ![KeyOf[q]] = q]
      BY <2>1, <3>2 DEF Inv, TypeOK
    <3> QED BY <2>2, <3>1, <3>2 DEF Claim
  <2>3. (\A q \in Requests : ~Claim(q)) => claims' = claims
    BY DEF Next, Start, Replay, CheckQuota, Negotiate, ReplayAfterClaim, Add,
           Freeze, Audit, Consume, Fail, NextWindow, stored
  <2> QED BY <2>2, <2>3
<1> QED BY AlwaysInv, <1>1, PTL DEF Spec, RetriesFindTheSame

-----------------------------------------------------------------------------
(***************************************************************************)
(* The quota.  What is counted and what is admitted but not yet counted    *)
(* stay together under the bound: a check admits only below the limit, and *)
(* from then on the sum cannot grow.                                       *)
(***************************************************************************)
Headroom ==
    /\ used + Cardinality(Admitted) <= Limit + MaxConcurrent - 1
    /\ Cardinality(InProgress) <= MaxConcurrent
    /\ Admitted # {} => Limit > 0

QuotaInv == TypeOK /\ Headroom

(* The requests counted are finitely many, the admitted in progress. *)
LEMMA CountsAreNumbers ==
    /\ IsFiniteSet(Admitted) /\ Cardinality(Admitted) \in Nat
    /\ IsFiniteSet(InProgress) /\ Cardinality(InProgress) \in Nat
    /\ Cardinality(Admitted) <= Cardinality(InProgress)
<1>1. Admitted \in SUBSET InProgress /\ InProgress \in SUBSET Requests
  BY DEF Admitted, InProgress, WorkingSteps
<1>2. IsFiniteSet(InProgress)
  BY <1>1, KeysAssumption, FS_Subset
<1>3. IsFiniteSet(Admitted) /\ Cardinality(Admitted) <= Cardinality(InProgress)
  BY <1>1, <1>2, FS_Subset
<1> QED BY <1>2, <1>3, FS_CardinalityType

(* A step that admits no one and counts no one keeps the headroom. *)
LEMMA QuietStep ==
    ASSUME QuotaInv, TypeOK', used' = used,
           Admitted' \subseteq Admitted, InProgress' \subseteq InProgress
    PROVE  Headroom'
<1>1. /\ Cardinality(Admitted') <= Cardinality(Admitted)
      /\ Cardinality(InProgress') <= Cardinality(InProgress)
  BY CountsAreNumbers, FS_Subset
<1>2. Cardinality(Admitted') \in Nat /\ Cardinality(InProgress') \in Nat
  BY CountsAreNumbers, FS_Subset, FS_CardinalityType
<1>3. Cardinality(Admitted)' = Cardinality(Admitted')
      /\ Cardinality(InProgress)' = Cardinality(InProgress')
  OBVIOUS
<1> QED BY <1>1, <1>2, <1>3, CountsAreNumbers, BoundsAssumption
        DEF QuotaInv, Headroom, TypeOK

(* Only a check admits, and only below the limit (QuotaGuard.check); only  *)
(* consume counts, a request that was admitted.                            *)
LEMMA NextHeadroom == QuotaInv /\ TypeOK' /\ [Next]_vars => QuotaInv'
<1> SUFFICES ASSUME QuotaInv, TypeOK', [Next]_vars PROVE Headroom'
  BY DEF QuotaInv
<1> USE KeysAssumption, BoundsAssumption DEF stored, quota
<1>t. /\ pc \in [Requests -> Steps] /\ used \in Nat
      /\ used' \in Nat
  BY DEF QuotaInv, TypeOK
<1>1. ASSUME NEW r \in Requests, Start(r) PROVE Headroom'
  <2>1. /\ pc[r] = "idle" /\ used' = used
        /\ \E step \in {"answered", "check"} : pc' = [pc EXCEPT ![r] = step]
        /\ Cardinality(InProgress) < MaxConcurrent
    BY <1>1 DEF Start, Replay, Answer, Goto
  <2>2. Admitted' = Admitted
    BY <2>1, <1>t DEF Admitted, AdmittedSteps
  <2>3. InProgress' \subseteq InProgress \cup {r}
    BY <2>1, <1>t DEF InProgress, WorkingSteps, AdmittedSteps
  <2>4. /\ Cardinality(InProgress \cup {r}) <= Cardinality(InProgress) + 1
        /\ IsFiniteSet(InProgress \cup {r})
        /\ Cardinality(InProgress \cup {r}) \in Nat
    BY CountsAreNumbers, FS_AddElement, FS_CardinalityType
  <2>5. /\ Cardinality(InProgress') <= Cardinality(InProgress \cup {r})
        /\ Cardinality(InProgress') \in Nat
    BY <2>3, <2>4, FS_Subset, FS_CardinalityType
  <2>6. Cardinality(InProgress') <= MaxConcurrent
    BY <2>1, <2>4, <2>5, CountsAreNumbers
  <2>7. Cardinality(Admitted') = Cardinality(Admitted)
    BY <2>2
  <2> QED BY <2>1, <2>2, <2>6, <2>7 DEF QuotaInv, Headroom
<1>2. ASSUME NEW r \in Requests, CheckQuota(r) PROVE Headroom'
  <2>1. /\ pc[r] = "check" /\ used' = used
        /\ pc' = [pc EXCEPT ![r] = IF WithinLimit THEN "negotiate" ELSE "refused"]
    BY <1>2 DEF CheckQuota, Goto
  <2>2. InProgress' \subseteq InProgress
    BY <2>1, <1>t DEF InProgress, WorkingSteps, AdmittedSteps
  <2>3. CASE ~WithinLimit
    <3>1. Admitted' \subseteq Admitted
      BY <2>1, <2>3, <1>t DEF Admitted, AdmittedSteps
    <3> QED BY <2>1, <2>2, <3>1, QuietStep
  <2>4. CASE WithinLimit
    <3>1. Limit > 0 /\ used + 1 <= Limit
      BY <2>4, <1>t DEF WithinLimit
    <3>2. Admitted' \in SUBSET InProgress'
      BY DEF Admitted, InProgress, WorkingSteps
    <3>3. /\ IsFiniteSet(InProgress')
          /\ Cardinality(InProgress') <= Cardinality(InProgress)
          /\ Cardinality(InProgress') \in Nat
      BY <2>2, CountsAreNumbers, FS_Subset, FS_CardinalityType
    <3>4. /\ Cardinality(Admitted') <= Cardinality(InProgress')
          /\ Cardinality(Admitted') \in Nat
      BY <3>2, <3>3, FS_Subset, FS_CardinalityType
    <3>5. Cardinality(InProgress) <= MaxConcurrent
      BY DEF QuotaInv, Headroom
    <3>6. /\ used' + Cardinality(Admitted') <= Limit + MaxConcurrent - 1
          /\ Cardinality(InProgress') <= MaxConcurrent
      BY <2>1, <3>1, <3>3, <3>4, <3>5, CountsAreNumbers, <1>t
    <3> QED BY <3>1, <3>6 DEF Headroom
  <2> QED BY <2>3, <2>4
<1>3. ASSUME NEW r \in Requests, Consume(r) PROVE Headroom'
  <2>1. /\ pc[r] = "consume" /\ used' = used + 1
        /\ pc' = [pc EXCEPT ![r] = "answered"]
    BY <1>3 DEF Consume, Answer, Goto
  <2>2. /\ Admitted' = Admitted \ {r} /\ r \in Admitted
        /\ InProgress' \subseteq InProgress
    BY <2>1, <1>t DEF Admitted, InProgress, WorkingSteps, AdmittedSteps
  <2>3. Cardinality(Admitted') = Cardinality(Admitted) - 1
    BY <2>2, CountsAreNumbers, FS_RemoveElement
  <2>4. /\ Cardinality(InProgress') <= Cardinality(InProgress)
        /\ Cardinality(InProgress') \in Nat
    BY <2>2, CountsAreNumbers, FS_Subset, FS_CardinalityType
  <2>5. /\ used + Cardinality(Admitted) <= Limit + MaxConcurrent - 1
        /\ Cardinality(InProgress) <= MaxConcurrent /\ Limit > 0
    BY <2>2 DEF QuotaInv, Headroom
  <2>6. /\ used' + Cardinality(Admitted') <= Limit + MaxConcurrent - 1
        /\ Cardinality(InProgress') <= MaxConcurrent
    BY <2>1, <2>3, <2>4, <2>5, CountsAreNumbers, <1>t
  <2> QED BY <2>5, <2>6 DEF Headroom
<1>4. ASSUME NEW r \in Requests,
             \/ Negotiate(r) \/ Claim(r) \/ ReplayAfterClaim(r) \/ Add(r)
             \/ Freeze(r) \/ Audit(r) \/ Fail(r)
      PROVE Headroom'
  <2>1. /\ used' = used
        /\ \/ /\ pc[r] \in AdmittedSteps
              /\ \E step \in AdmittedSteps \cup {"answered", "refused"} :
                    pc' = [pc EXCEPT ![r] = step]
           \/ pc' = [pc EXCEPT ![r] = "dead"]
    <3>1. CASE Negotiate(r)
      BY <3>1 DEF Negotiate, Goto, AdmittedSteps
    <3>2. CASE Claim(r)
      BY <3>2 DEF Claim, Goto, AdmittedSteps
    <3>3. CASE ReplayAfterClaim(r)
      BY <3>3 DEF ReplayAfterClaim, Replay, Answer, Goto, AdmittedSteps
    <3>4. CASE Add(r) \/ Freeze(r) \/ Audit(r)
      BY <3>4 DEF Add, Freeze, Audit, Goto, AdmittedSteps
    <3>5. CASE Fail(r)
      BY <3>5 DEF Fail, Goto
    <3> QED BY <1>4, <3>1, <3>2, <3>3, <3>4, <3>5
  <2>2. Admitted' \subseteq Admitted /\ InProgress' \subseteq InProgress
    BY <2>1, <1>t DEF Admitted, InProgress, WorkingSteps, AdmittedSteps
  <2> QED BY <2>1, <2>2, QuietStep
<1>5. CASE NextWindow
  <2>1. used' = 0 /\ pc' = pc
    BY <1>5 DEF NextWindow
  <2>2. Admitted' = Admitted /\ InProgress' = InProgress
    BY <2>1 DEF Admitted, InProgress
  <2>3. CASE Admitted = {}
    <3>1. Cardinality(Admitted') = 0
      BY <2>2, <2>3, FS_EmptySet
    <3> QED BY <2>1, <2>2, <3>1, <2>3 DEF QuotaInv, Headroom
  <2>4. CASE Admitted # {}
    <3>1. Limit > 0 /\ Cardinality(InProgress) <= MaxConcurrent
      BY <2>4 DEF QuotaInv, Headroom
    <3>2. Cardinality(Admitted') <= MaxConcurrent /\ Cardinality(Admitted') \in Nat
      BY <2>2, <3>1, CountsAreNumbers
    <3>3. used' + Cardinality(Admitted') <= Limit + MaxConcurrent - 1
      BY <2>1, <3>1, <3>2
    <3> QED BY <2>2, <3>1, <3>3 DEF Headroom
  <2> QED BY <2>3, <2>4
<1>6. CASE UNCHANGED vars
  <2>1. used' = used /\ Admitted' = Admitted /\ InProgress' = InProgress
    BY <1>6 DEF vars, Admitted, InProgress
  <2> QED BY <2>1, QuietStep
<1> QED BY <1>1, <1>2, <1>3, <1>4, <1>5, <1>6 DEF Next

(* At the start nothing is counted and no one is admitted. *)
LEMMA InitHeadroom == Init => Headroom
<1> SUFFICES ASSUME Init PROVE Headroom
  OBVIOUS
<1>1. Admitted = {} /\ InProgress = {} /\ used = 0
  BY DEF Init, Admitted, InProgress, WorkingSteps, AdmittedSteps
<1>2. Cardinality(Admitted) = 0 /\ Cardinality(InProgress) = 0
  BY <1>1, FS_EmptySet
<1> QED BY <1>1, <1>2, BoundsAssumption DEF Headroom

(* No window counts more sessions than the limit and the requests in       *)
(* progress at once, less one (create_session.py, check and consume).      *)
THEOREM QuotaOvershootIsBounded == Spec => []OvershootIsBounded
<1>1. Init => QuotaInv
  BY InitInv, InitHeadroom DEF QuotaInv, Inv
<1>2. QuotaInv => OvershootIsBounded
  BY CountsAreNumbers, BoundsAssumption
     DEF QuotaInv, Headroom, OvershootIsBounded, TypeOK
<1> QED BY <1>1, NextHeadroom, <1>2, TypeCorrect, PTL DEF Spec
=============================================================================
