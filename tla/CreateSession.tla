---------------------------- MODULE CreateSession ----------------------------
(***************************************************************************)
(* POST /v1/sessions of one application: idempotency keys and the session  *)
(* quota, under concurrent and retried requests.                           *)
(*                                                                         *)
(* Each call of a repository or of the quota guard is an await, so one     *)
(* action.  A request generates the identifier of the session it may       *)
(* create, so the session is named by the request; a retry is another      *)
(* request with the same key.  The two reads of find_by_idempotency_key    *)
(* are one step: claims and sessions are only ever added, so reading them  *)
(* together loses no outcome.                                              *)
(***************************************************************************)
EXTENDS Integers, FiniteSets

CONSTANTS
    Requests,       \* the requests, each with the session it may create
    Keys,           \* idempotency keys
    KeyOf,          \* the key of each request, NoKey without one
    Limit,          \* sessions per quota window
    MaxConcurrent,  \* requests the service works on at once
    MaxFailures,    \* bound on the requests that fail half-way
    MaxWindows      \* bound on the quota windows

NoKey == "no_key"
None == "none"

ASSUME KeysAssumption ==
    /\ IsFiniteSet(Requests)
    /\ NoKey \notin Keys
    /\ None \notin Requests
    /\ KeyOf \in [Requests -> Keys \cup {NoKey}]

ASSUME BoundsAssumption ==
    /\ Limit \in Nat
    /\ MaxConcurrent \in Nat \ {0}
    /\ MaxFailures \in Nat
    /\ MaxWindows \in Nat

VARIABLES
    claims,    \* the session each key was claimed for
    sessions,  \* sessions stored, by the request that created them
    frozen,    \* sessions whose configuration is frozen
    audited,   \* sessions whose creation is audited
    window,    \* the current quota window
    used,      \* sessions counted in it
    pc,        \* where each request stands
    answer     \* the session each request was answered with

stored == <<claims, sessions, frozen, audited>>
quota  == <<window, used>>
vars   == <<stored, quota, pc, answer>>

(* Steps of a request that the quota has admitted and not yet counted. *)
AdmittedSteps == {"negotiate", "claim", "replay", "add", "freeze", "audit", "consume"}

WorkingSteps == {"check"} \cup AdmittedSteps

Steps == WorkingSteps \cup {"idle", "answered", "refused", "dead"}

Admitted == {r \in Requests : pc[r] \in AdmittedSteps}
InProgress == {r \in Requests : pc[r] \in WorkingSteps}

Init ==
    /\ claims = [k \in Keys |-> None]
    /\ sessions = {}
    /\ frozen = {}
    /\ audited = {}
    /\ window = 0
    /\ used = 0
    /\ pc = [r \in Requests |-> "idle"]
    /\ answer = [r \in Requests |-> None]

Goto(r, step) == pc' = [pc EXCEPT ![r] = step]

Answer(r, s) ==
    /\ Goto(r, "answered")
    /\ answer' = [answer EXCEPT ![r] = s]

Keyed(r) == KeyOf[r] # NoKey

(* Variant: the claim is trusted, stored session or not. *)
ReplaysClaimed(r) == Keyed(r) /\ claims[KeyOf[r]] # None

(* find_by_idempotency_key returns a session only when the claimed one is  *)
(* stored.                                                                 *)
Replays(r) == Keyed(r) /\ claims[KeyOf[r]] \in sessions

(* _replay: answer with the session of the key, or go on. *)
Replay(r, step, otherwise) ==
    /\ pc[r] = step
    /\ IF Replays(r) THEN Answer(r, claims[KeyOf[r]])
       ELSE Goto(r, otherwise) /\ UNCHANGED answer
    /\ UNCHANGED <<stored, quota>>

Start(r) ==
    /\ Cardinality(InProgress) < MaxConcurrent
    /\ Replay(r, "idle", "check")

(* Variant: the request being admitted is not counted. *)
WithinLimitExclusive == used <= Limit

WithinLimit == used + 1 <= Limit

(* QuotaGuard.check reads the counter; consume increments it much later. *)
CheckQuota(r) ==
    /\ pc[r] = "check"
    /\ Goto(r, IF WithinLimit THEN "negotiate" ELSE "refused")
    /\ UNCHANGED <<stored, quota, answer>>

(* Capabilities the service supports, or not: nothing is persisted yet. *)
Negotiate(r) ==
    /\ pc[r] = "negotiate"
    /\ \E outcome \in {"refused", IF Keyed(r) THEN "claim" ELSE "add"} :
          Goto(r, outcome)
    /\ UNCHANGED <<stored, quota, answer>>

(* Variant: a later claim replaces an earlier one. *)
ClaimOverwriting(r) ==
    /\ pc[r] = "claim"
    /\ claims' = [claims EXCEPT ![KeyOf[r]] = r]
    /\ Goto(r, "add")
    /\ UNCHANGED <<sessions, frozen, audited, quota, answer>>

(* claim_idempotency_key: the primary key arbitrates. *)
Claim(r) ==
    /\ pc[r] = "claim"
    /\ \/ /\ claims[KeyOf[r]] = None
          /\ claims' = [claims EXCEPT ![KeyOf[r]] = r]
          /\ Goto(r, "add")
       \/ /\ claims[KeyOf[r]] # None
          /\ Goto(r, "replay")
          /\ UNCHANGED claims
    /\ UNCHANGED <<sessions, frozen, audited, quota, answer>>

(* The claim was lost: answer with the winner's session.  When the winner  *)
(* has not stored it, the request goes on and creates its own.             *)
ReplayAfterClaim(r) == Replay(r, "replay", "add")

Add(r) ==
    /\ pc[r] = "add"
    /\ sessions' = sessions \cup {r}
    /\ Goto(r, "freeze")
    /\ UNCHANGED <<claims, frozen, audited, quota, answer>>

Freeze(r) ==
    /\ pc[r] = "freeze"
    /\ frozen' = frozen \cup {r}
    /\ Goto(r, "audit")
    /\ UNCHANGED <<claims, sessions, audited, quota, answer>>

Audit(r) ==
    /\ pc[r] = "audit"
    /\ audited' = audited \cup {r}
    /\ Goto(r, "consume")
    /\ UNCHANGED <<claims, sessions, frozen, quota, answer>>

(* QuotaGuard.consume counts in the window of the moment, which need not   *)
(* be the one that was checked.                                            *)
Consume(r) ==
    /\ pc[r] = "consume"
    /\ used' = used + 1
    /\ Answer(r, r)
    /\ UNCHANGED <<stored, window>>

(* A call raises or the process dies: what was written stays written. *)
Fail(r) ==
    /\ pc[r] \in WorkingSteps
    /\ Cardinality({x \in Requests : pc[x] = "dead"}) < MaxFailures
    /\ Goto(r, "dead")
    /\ UNCHANGED <<stored, quota, answer>>

NextWindow ==
    /\ window < MaxWindows
    /\ window' = window + 1
    /\ used' = 0
    /\ UNCHANGED <<stored, pc, answer>>

Next ==
    \/ \E r \in Requests :
          \/ Start(r) \/ CheckQuota(r) \/ Negotiate(r) \/ Claim(r)
          \/ ReplayAfterClaim(r) \/ Add(r) \/ Freeze(r) \/ Audit(r)
          \/ Consume(r) \/ Fail(r)
    \/ NextWindow

Spec == Init /\ [][Next]_vars

-----------------------------------------------------------------------------
TypeOK ==
    /\ claims \in [Keys -> Requests \cup {None}]
    /\ sessions \subseteq Requests
    /\ frozen \subseteq sessions
    /\ audited \subseteq frozen
    /\ window \in 0 .. MaxWindows
    /\ used \in Nat
    /\ pc \in [Requests -> Steps]
    /\ answer \in [Requests -> Requests \cup {None}]

(* Checking the quota long before counting the session lets concurrent     *)
(* requests exceed it, but in no window by more than the requests in       *)
(* progress at once, less one, even when a request is checked in one       *)
(* window and counted in the next (create_session.py, check and consume).  *)
OvershootIsBounded == used <= Limit + MaxConcurrent - 1

(* Every answer names a stored session: the one the request created, or    *)
(* the one its key is claimed for, and only one of the two (_replay).      *)
AnswersAreBacked ==
    \A r \in Requests :
        answer[r] # None =>
            /\ answer[r] \in sessions
            /\ answer[r] # r => /\ r \notin sessions
                                /\ Keyed(r) /\ answer[r] = claims[KeyOf[r]]

(* A session is found under its key from the moment it is stored, by the   *)
(* same claim for ever: a retry can lose its own race, but never finds     *)
(* another session than the retries before it (find_by_idempotency_key).   *)
RetriesFindTheSame ==
    [][\A r \in Requests : Replays(r) => claims'[KeyOf[r]] = claims[KeyOf[r]]]_vars

(* create_session.py: "one session per key, and 'usually one' is not       *)
(* that".                                                                  *)
OneSessionPerKey ==
    \A r1, r2 \in sessions : Keyed(r1) /\ KeyOf[r1] = KeyOf[r2] => r1 = r2

=============================================================================
