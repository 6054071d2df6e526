------------------------ MODULE SessionAccessProofs ------------------------
(***************************************************************************)
(* Theorems about SessionAccess, for any keys, tenants, sessions, requests *)
(* and object names, and listings of any number of pages.                  *)
(***************************************************************************)
EXTENDS SessionAccess, TLAPS

-----------------------------------------------------------------------------
(* What a request can be. *)

Located == {"revoke", "relist", "purge", "rows", "mark", "row", "bundle"}

\* The session of such a request is of its tenant; a replay's answer is none.
Own == Located \cup {"mint", "created", "deleted", "document"}

\* And what such a request claims is of its session.
Claiming == Own \cup {"count", "clean"}

Lifecycle == {"created", "capturing", "completed", "evidence_deleted"}

Creating ==
    [key : Keys, session : {None}, pc : {"replay", "add"},
     age : Nat, cursor : Nat, found : SUBSET Names, loaded : Lifecycle \cup {None}]

Jobs ==
    [key : Keys, session : SessionIds, pc : Located \cup {"mint", "get", "read", "count"},
     age : Nat, cursor : Nat, found : SUBSET Names, loaded : Lifecycle \cup {None}]

Outcomes ==
    [pc : {"created", "replayed", "deleted", "clean"}, key : Keys, session : SessionIds]
        \cup [pc : {"document"}, key : Keys, session : SessionIds, whole : BOOLEAN]

Types ==
    /\ owner \in [SessionIds -> Tenants \cup {None}]
    /\ state \in [SessionIds -> Lifecycle]
    /\ objects \in [SessionIds -> SUBSET Names]
    /\ req \in [Requests -> {Idle} \cup Creating \cup Jobs \cup Outcomes]
    /\ seen \in [Requests -> SUBSET Names]
    /\ unread \in [Requests -> SUBSET Names]
    /\ grants \subseteq [key : Keys, session : SessionIds, left : Int]
    /\ streams \subseteq [key : Keys, session : SessionIds]

-----------------------------------------------------------------------------
(* The inductive invariant: a request that has located its session is of   *)
(* its tenant; what a listing had to find and has passed, it has found; a  *)
(* verification for another tenant's session had nothing to find.          *)

Remaining(r) == seen[r] \cap objects[req[r].session]

SoundRequest(r) ==
    /\ req[r].pc \in Own => Tenant(r) = owner[req[r].session]
    /\ req[r].pc \in {"revoke", "purge", "count"}
          => \A n \in Remaining(r) : n <= req[r].cursor => n \in req[r].found
    /\ req[r].pc \in {"rows", "mark", "deleted"} => Remaining(r) \subseteq unread[r]
    /\ req[r].pc \in {"count", "clean"} /\ Tenant(r) # owner[req[r].session] => seen[r] = {}
    /\ req[r].pc = "clean" => Remaining(r) = {}

SoundStreams == \A c \in streams : TenantOf[c.key] = owner[c.session]

IInv == Types /\ SoundStreams /\ \A r \in Requests : SoundRequest(r)

-----------------------------------------------------------------------------
(* A step leaves a request sound that it does not move, if it neither      *)
(* gives a stored session away nor restores an object the request had to   *)
(* find.                                                                   *)
LEMMA UntouchedStaysSound ==
    ASSUME IInv, NEW q \in Requests,
           req'[q] = req[q], unread'[q] = unread[q], seen'[q] \subseteq seen[q],
           req[q].pc \in Claiming =>
               LET s == req[q].session
               IN /\ owner'[s] = owner[s] \/ owner[s] = None
                  /\ seen'[q] \cap objects'[s] \subseteq seen[q] \cap objects[s]
    PROVE  SoundRequest(q)'
  <1>1. CASE req[q].pc \in Claiming
    <2> DEFINE s == req[q].session
    <2>1. s \in SessionIds /\ req[q].key \in Keys
      BY <1>1 DEF IInv, Types, Idle, Creating, Jobs, Outcomes, Located, Own, Claiming
    <2>2. TenantOf[req[q].key] \in Tenants /\ None \notin Tenants
      BY <2>1, KeysAssumption
    <2>3. owner'[s] = owner[s] \/ owner[s] = None
      BY <1>1
    <2>4. seen'[q] \cap objects'[s] \subseteq seen[q] \cap objects[s]
      BY <1>1
    <2>5. SoundRequest(q)
      BY DEF IInv
    <2>6. req[q].pc \in Own => TenantOf[req[q].key] = owner'[s]
      BY <2>2, <2>3, <2>5 DEF SoundRequest, Tenant
    <2>7. req[q].pc \in {"count", "clean"} /\ TenantOf[req[q].key] # owner'[s]
             => seen'[q] = {}
      BY <2>2, <2>3, <2>5 DEF SoundRequest, Tenant
    <2>8. QED
      BY <2>4, <2>5, <2>6, <2>7 DEF SoundRequest, Tenant, Remaining
  <1>2. CASE req[q].pc \notin Claiming
    BY <1>2 DEF SoundRequest, Located, Own, Claiming
  <1>3. QED
    BY <1>1, <1>2

(* A step of one request that adds and removes no other's claims.          *)
LEMMA OthersStaySound ==
    ASSUME IInv, NEW r \in Requests, Types',
           \A q \in Requests \ {r} :
               req'[q] = req[q] /\ seen'[q] = seen[q] /\ unread'[q] = unread[q],
           \A s \in SessionIds : owner'[s] = owner[s] \/ owner[s] = None,
           \A s \in SessionIds : objects'[s] \subseteq objects[s],
           SoundRequest(r)'
    PROVE  \A q \in Requests : SoundRequest(q)'
  <1> SUFFICES ASSUME NEW q \in Requests \ {r} PROVE SoundRequest(q)'
    OBVIOUS
  <1>1. req[q].pc \in Claiming
           => req[q].session \in SessionIds
    BY DEF IInv, Types, Idle, Creating, Jobs, Outcomes, Located, Own, Claiming
  <1>2. QED
    BY <1>1, UntouchedStaysSound

(* Sockets stay with their tenant when none is opened.                     *)
LEMMA StreamsStaySound ==
    ASSUME IInv, streams' \subseteq streams,
           \A s \in SessionIds : owner'[s] = owner[s] \/ owner[s] = None
    PROVE  SoundStreams'
  <1> SUFFICES ASSUME NEW c \in streams' PROVE TenantOf[c.key] = owner'[c.session]
    BY DEF SoundStreams
  <1>1. c \in streams /\ c.key \in Keys /\ c.session \in SessionIds
    BY DEF IInv, Types
  <1>2. TenantOf[c.key] = owner[c.session] /\ TenantOf[c.key] # None
    BY <1>1, KeysAssumption DEF IInv, SoundStreams
  <1>3. QED
    BY <1>1, <1>2

-----------------------------------------------------------------------------
LEMMA GrantTypes ==
    ASSUME Types, NEW k \in Keys, NEW s \in SessionIds, NEW left \in Int,
           MintGrant(k, s, left)
    PROVE  grants' \subseteq [key : Keys, session : SessionIds, left : Int]
  BY DEF Types, MintGrant, Grant

LEMMA NewJobTypes ==
    ASSUME NEW k \in Keys
    PROVE  /\ NewJob(k, None, "replay") \in Creating
           /\ \A s \in SessionIds :
                 /\ NewJob(k, s, "get") \in Jobs
                 /\ NewJob(k, s, "read") \in Jobs
                 /\ NewJob(k, s, "count") \in Jobs
  BY DEF NewJob, Creating, Jobs

LEMMA ListingTypes ==
    ASSUME Types, NEW r \in Requests, NEW job \in Jobs,
           NEW step \in {"revoke", "purge", "count"}, Listing(r, job, step)
    PROVE  /\ req' \in [Requests -> {Idle} \cup Creating \cup Jobs \cup Outcomes]
           /\ seen' \in [Requests -> SUBSET Names]
           /\ unread' \in [Requests -> SUBSET Names]
  <1>1. [job EXCEPT !.pc = step, !.cursor = 0, !.found = {}] \in Jobs
    BY DEF Jobs, Located
  <1>2. Below(TenantOf[job.key], job.session) \subseteq Names
    BY DEF Types, Below, Jobs
  <1>3. QED
    BY <1>1, <1>2 DEF Listing, Types

(* The steps of a request: what they leave, and their types.               *)
RequestStep(r) ==
    \/ \E k \in Keys :
          \/ StartCreate(r, k)
          \/ \E s \in SessionIds : StartDelete(r, k, s) \/ StartVerify(r, k, s)
                                  \/ StartRead(r, k, s)
    \/ CreateStep(r) \/ Get(r) \/ Page(r) \/ RevokeSignatures(r)
    \/ Relist(r) \/ DeleteForSession(r) \/ PurgeRows(r) \/ Mark(r)
    \/ Verify(r) \/ Raise(r) \/ ReadSession(r) \/ ReadDocumentRow(r) \/ ReadBundle(r)

LEMMA RequestStepTypes ==
    ASSUME Types, NEW r \in Requests, RequestStep(r)
    PROVE  Types'
  <1> USE DEF Types, access, history
  <1>1. ASSUME NEW k \in Keys, StartCreate(r, k) PROVE Types'
    BY <1>1, NewJobTypes DEF StartCreate, Enter
  <1>2. ASSUME NEW k \in Keys, NEW s \in SessionIds, StartDelete(r, k, s) PROVE Types'
    BY <1>2, NewJobTypes DEF StartDelete, Enter
  <1>3. ASSUME NEW k \in Keys, NEW s \in SessionIds, StartVerify(r, k, s) PROVE Types'
    BY <1>3, NewJobTypes, ListingTypes DEF StartVerify
  <1>4. ASSUME NEW k \in Keys, NEW s \in SessionIds, StartRead(r, k, s) PROVE Types'
    BY <1>4, NewJobTypes DEF StartRead, Enter
  <1>5. CASE Replay(r)
    <2>1. req[r] \in Creating
      BY <1>5 DEF Replay, Idle, Creating, Jobs, Outcomes, Located
    <2>2. grants' \subseteq [key : Keys, session : SessionIds, left : Int]
      BY <1>5, <2>1, GrantTypes, StoreAssumption DEF Replay, Stored, Creating
    <2>3. QED
      BY <1>5, <2>1, <2>2 DEF Replay, Answer, Goto, Stored, Creating, Outcomes
  <1>6. CASE Add(r)
    <2>1. req[r] \in Creating
      BY <1>6 DEF Add, Idle, Creating, Jobs, Outcomes, Located
    <2>2. Tenant(r) \in Tenants
      BY <2>1, KeysAssumption DEF Tenant, Creating
    <2>3. QED
      BY <1>6, <2>1, <2>2 DEF Add, Leave, Creating, Jobs
  <1>7. CASE Mint(r)
    <2>1. req[r] \in Jobs
      BY <1>7 DEF Mint, Idle, Creating, Jobs, Outcomes, Located
    <2>2. grants' \subseteq [key : Keys, session : SessionIds, left : Int]
      BY <1>7, <2>1, GrantTypes, StoreAssumption DEF Mint, Jobs
    <2>3. QED
      BY <1>7, <2>1, <2>2 DEF Mint, Answer, Jobs, Outcomes
  <1>8. CASE req[r] \in Jobs
    <2>1. CASE Get(r)
      <3>1. [req[r] EXCEPT !.loaded = state[req[r].session]] \in Jobs
        BY <1>8 DEF Jobs
      <3>2. CASE Leave(r)
        BY <2>1, <3>2 DEF Get, Leave
      <3>3. CASE Listing(r, [req[r] EXCEPT !.loaded = state[req[r].session]], "revoke")
        BY <2>1, <3>1, <3>3, ListingTypes DEF Get
      <3>4. QED
        BY <2>1, <3>2, <3>3 DEF Get
    <2>2. CASE Page(r)
      <3>1. Ahead(r) \subseteq Names /\ Ahead(r) \subseteq Nat
        BY <1>8, StoreAssumption DEF Ahead, Below, Jobs
      <3>2. PICK next \in Ahead(r) :
              req' = [req EXCEPT ![r] =
                        [req[r] EXCEPT !.cursor = next, !.found = @ \cup {next}]]
        BY <2>2 DEF Page
      <3>3. [req[r] EXCEPT !.cursor = next, !.found = @ \cup {next}] \in Jobs
        BY <1>8, <3>1 DEF Jobs
      <3>4. QED
        BY <2>2, <3>2, <3>3 DEF Page
    <2>3. CASE RevokeSignatures(r)
      BY <1>8, <2>3 DEF RevokeSignatures, DeleteFound, Goto, Jobs, Located
    <2>4. CASE Relist(r)
      BY <1>8, <2>4, ListingTypes DEF Relist
    <2>5. CASE DeleteForSession(r)
      BY <1>8, <2>5 DEF DeleteForSession, DeleteFound, Goto, Jobs, Located
    <2>6. CASE PurgeRows(r)
      BY <1>8, <2>6 DEF PurgeRows, Goto, Jobs, Located
    <2>7. CASE Mark(r)
      <3>1. [pc |-> "deleted", key |-> req[r].key, session |-> req[r].session] \in Outcomes
        BY <1>8 DEF Jobs, Outcomes
      <3>2. state' \in [SessionIds -> Lifecycle]
        BY <2>7 DEF Mark, Lifecycle
      <3>3. CASE Attest(r, "deleted")
        BY <2>7, <3>1, <3>2, <3>3 DEF Mark, Attest, Answer
      <3>4. CASE Leave(r)
        BY <2>7, <3>2, <3>4 DEF Mark, Leave
      <3>5. QED
        BY <2>7, <3>3, <3>4 DEF Mark
    <2>8. CASE Verify(r)
      BY <1>8, <2>8 DEF Verify, Attest, Answer, Leave, Jobs, Outcomes
    <2>9. CASE ReadSession(r)
      BY <1>8, <2>9 DEF ReadSession, Goto, Leave, Jobs, Located
    <2>10. CASE ReadDocumentRow(r)
      BY <1>8, <2>10 DEF ReadDocumentRow, Goto, Leave, Jobs, Located
    <2>11. CASE ReadBundle(r)
      BY <1>8, <2>11 DEF ReadBundle, Jobs, Outcomes
    <2>12. CASE Raise(r)
      BY <2>12 DEF Raise, Leave
    <2>13. QED
      BY <2>1, <2>2, <2>3, <2>4, <2>5, <2>6, <2>7, <2>8, <2>9, <2>10, <2>11, <2>12,
         <1>1, <1>2, <1>3, <1>4, <1>5, <1>6, <1>7 DEF RequestStep, CreateStep
  <1>9. CASE req[r] \notin Jobs
    BY <1>9, <1>1, <1>2, <1>3, <1>4, <1>5, <1>6, <1>7
       DEF RequestStep, CreateStep, Get, Page, RevokeSignatures, EndListing, Relist,
           DeleteForSession, PurgeRows, Mark, Verify, Raise, ReadSession, ReadDocumentRow,
           ReadBundle, Idle, Creating, Outcomes
  <1>10. QED
    BY <1>8, <1>9

-----------------------------------------------------------------------------
(* The environment: keys, workers and uploads, sockets, time.              *)
EnvironmentStep ==
    \/ \E k \in Keys : Issue(k) \/ Revoke(k)
    \/ \E s \in SessionIds : Put(s) \/ Upload(s) \/ Complete(s)
    \/ \E g \in grants : OpenStream(g)
    \/ Tick

LEMMA NextIsRequestsAndEnvironment ==
    ASSUME Next PROVE EnvironmentStep \/ \E r \in Requests : RequestStep(r)
  BY DEF Next, EnvironmentStep, RequestStep

LEMMA EnvironmentStepTypes ==
    ASSUME Types, EnvironmentStep
    PROVE  Types'
  <1> USE DEF Types, access, history
  <1>1. ASSUME NEW k \in Keys, Issue(k) \/ Revoke(k) PROVE Types'
    BY <1>1 DEF Issue, Revoke
  <1>2. ASSUME NEW s \in SessionIds, NEW n \in Names, Write(s, n),
               UNCHANGED <<access, owner, state, rows, req, unread>>
        PROVE  Types'
    BY <1>2 DEF Write
  <1>3. ASSUME NEW s \in SessionIds, Put(s) \/ Upload(s) PROVE Types'
    BY <1>2, <1>3, StoreAssumption DEF Put, Upload
  <1>4. ASSUME NEW s \in SessionIds, Complete(s) PROVE Types'
    BY <1>4 DEF Complete, Lifecycle
  <1>5. ASSUME NEW g \in grants, OpenStream(g) PROVE Types'
    BY <1>5 DEF OpenStream, Lifecycle
  <1>6. CASE Tick
    <2>1. ASSUME NEW r \in Requests
          PROVE  req'[r] \in {Idle} \cup Creating \cup Jobs \cup Outcomes
      <3>1. CASE req[r].pc \in {"add", "mint"} /\ req[r].age < GrantLife
        <4>1. req[r] \in Creating \cup Jobs
          BY <3>1 DEF Idle, Outcomes
        <4>2. [req[r] EXCEPT !.age = @ + 1] \in Creating \cup Jobs
          BY <4>1 DEF Creating, Jobs
        <4>3. QED
          BY <1>6, <3>1, <4>2 DEF Tick
      <3>2. CASE ~(req[r].pc \in {"add", "mint"} /\ req[r].age < GrantLife)
        BY <1>6, <3>2 DEF Tick
      <3>3. QED
        BY <3>1, <3>2
    <2>2. grants' \subseteq [key : Keys, session : SessionIds, left : Int]
      BY <1>6 DEF Tick
    <2>3. req' \in [Requests -> {Idle} \cup Creating \cup Jobs \cup Outcomes]
      BY <1>6, <2>1 DEF Tick
    <2>4. QED
      BY <1>6, <2>2, <2>3 DEF Tick
  <1>7. QED
    BY <1>1, <1>3, <1>4, <1>5, <1>6 DEF EnvironmentStep

-----------------------------------------------------------------------------
(* The steps of a request keep it sound.                                   *)

LEMMA LeaveSound ==
    ASSUME Types, NEW r \in Requests, Leave(r)
    PROVE  SoundRequest(r)'
  <1>1. req'[r].pc = "idle"
    BY DEF Leave, Types, Idle
  <1>2. QED
    BY <1>1 DEF SoundRequest, Located, Own

(* A listing that begins has passed nothing: names are positive.           *)
LEMMA ListingSound ==
    ASSUME Types, NEW r \in Requests, NEW job \in Jobs,
           NEW step \in {"revoke", "purge", "count"}, Listing(r, job, step),
           step # "count" => TenantOf[job.key] = owner[job.session],
           UNCHANGED <<owner, objects>>
    PROVE  SoundRequest(r)'
  <1> DEFINE listed == [job EXCEPT !.pc = step, !.cursor = 0, !.found = {}]
  <1>1. /\ listed.pc = step /\ listed.cursor = 0
        /\ listed.key = job.key /\ listed.session = job.session
    BY DEF Jobs
  <1>2. req'[r] = listed /\ seen'[r] = Below(TenantOf[job.key], job.session)
    BY DEF Listing, Types
  <1>3. seen'[r] \subseteq Names /\ \A n \in Names : ~(n <= 0)
    BY <1>2, StoreAssumption DEF Below, Types, Jobs
  <1>4. TenantOf[job.key] # owner[job.session] => seen'[r] = {}
    BY <1>2 DEF Below
  <1> HIDE DEF listed
  <1>5. QED
    BY <1>1, <1>2, <1>3, <1>4 DEF SoundRequest, Located, Own, Remaining, Tenant

(* At the end of a listing that reached the session, what it had to find   *)
(* and is still stored has been found.                                     *)
LEMMA EndListingFindsAll ==
    ASSUME IInv, NEW r \in Requests, NEW step \in {"revoke", "purge", "count"},
           EndListing(r, step)
    PROVE  /\ req[r] \in Jobs /\ req[r].pc = step
           /\ Remaining(r) \subseteq req[r].found
  <1>1. req[r] \in Jobs /\ req[r].pc = step
    BY DEF EndListing, IInv, Types, Idle, Creating, Outcomes
  <1>2. SoundRequest(r) /\ Remaining(r) \subseteq Nat /\ req[r].cursor \in Nat
    BY <1>1, StoreAssumption DEF IInv, Types, Jobs, Remaining
  <1>3. ASSUME NEW n \in Remaining(r) PROVE n \in req[r].found
    <2>1. Tenant(r) = owner[req[r].session]
      BY <1>1, <1>2, <1>3 DEF SoundRequest, Located, Own, Remaining
    <2>2. n \in Below(Tenant(r), req[r].session)
      BY <2>1, <1>3 DEF Below, Remaining
    <2>3. n <= req[r].cursor
      BY <2>2, <1>2, <1>3 DEF EndListing, Ahead
    <2>4. QED
      BY <1>1, <1>2, <1>3, <2>3 DEF SoundRequest
  <1>4. QED
    BY <1>1, <1>3

(* The smallest name ahead is the only one up to it that is not yet found. *)
LEMMA PageSound ==
    ASSUME IInv, NEW r \in Requests, Page(r)
    PROVE  SoundRequest(r)'
  <1>1. req[r] \in Jobs /\ req[r].pc \in {"revoke", "purge", "count"}
    BY DEF Page, IInv, Types, Idle, Creating, Outcomes
  <1>2. PICK next \in Ahead(r) :
          /\ \A n \in Ahead(r) : next <= n
          /\ req' = [req EXCEPT ![r] =
                       [req[r] EXCEPT !.cursor = next, !.found = @ \cup {next}]]
    BY DEF Page
  <1>3. /\ req'[r].pc = req[r].pc /\ req'[r].key = req[r].key
        /\ req'[r].session = req[r].session
        /\ req'[r].cursor = next /\ req'[r].found = req[r].found \cup {next}
    BY <1>1, <1>2 DEF IInv, Types, Jobs
  <1>4. UNCHANGED <<owner, objects, seen, unread>>
    BY DEF Page, history
  <1>5. /\ SoundRequest(r) /\ Remaining(r) \subseteq Nat
        /\ req[r].cursor \in Nat /\ next \in Nat
    BY <1>1, StoreAssumption DEF IInv, Types, Jobs, Remaining, Ahead, Below
  <1>6. ASSUME NEW n \in Remaining(r), n <= next PROVE n \in req'[r].found
    <2>1. CASE n <= req[r].cursor
      BY <1>1, <1>3, <1>5, <1>6, <2>1 DEF SoundRequest
    <2>2. CASE ~(n <= req[r].cursor)
      <3>1. Tenant(r) = owner[req[r].session]
        BY <1>1, <1>5, <1>6 DEF SoundRequest, Located, Own, Remaining
      <3>2. n \in Ahead(r)
        BY <3>1, <2>2, <1>5, <1>6 DEF Ahead, Below, Remaining
      <3>3. n = next
        BY <3>2, <1>2, <1>5, <1>6
      <3>4. QED
        BY <3>3, <1>3
    <2>3. QED
      BY <2>1, <2>2
  <1>7. Remaining(r)' = Remaining(r) /\ Tenant(r)' = Tenant(r)
    BY <1>3, <1>4 DEF Remaining, Tenant
  <1>8. QED
    BY <1>1, <1>3, <1>4, <1>5, <1>6, <1>7 DEF SoundRequest, Located, Own

(* Both deletions of a drill: what is left was reported and not read.      *)
LEMMA DeleteFoundSound ==
    ASSUME IInv, NEW r \in Requests, UNCHANGED owner,
           \/ EndListing(r, "revoke") /\ DeleteFound(r, "relist")
           \/ EndListing(r, "purge") /\ DeleteFound(r, "rows")
    PROVE  SoundRequest(r)' /\ \A s \in SessionIds : objects'[s] \subseteq objects[s]
  <1>1. /\ req[r] \in Jobs /\ req[r].pc \in {"revoke", "purge"}
        /\ Remaining(r) \subseteq req[r].found
    BY EndListingFindsAll
  <1>2. PICK step \in {"relist", "rows"} : DeleteFound(r, step)
    OBVIOUS
  <1>3. PICK errors \in SUBSET (req[r].found \cap objects[req[r].session]) :
          /\ objects' = [objects EXCEPT ![req[r].session] = @ \ (req[r].found \ errors)]
          /\ unread' = [unread EXCEPT ![r] = errors]
          /\ req' = [req EXCEPT ![r] = [req[r] EXCEPT !.pc = step]]
          /\ UNCHANGED seen
    BY <1>2 DEF DeleteFound, Goto
  <1>4. /\ req'[r].pc = step /\ req'[r].key = req[r].key
        /\ req'[r].session = req[r].session /\ req[r].session \in SessionIds
    BY <1>1, <1>3 DEF IInv, Types, Jobs
  <1>5. Tenant(r)' = owner'[req'[r].session]
    BY <1>1, <1>4 DEF IInv, SoundRequest, Tenant, Located, Own
  <1>6. Remaining(r)' \subseteq unread'[r]
    <2>1. objects'[req[r].session] = objects[req[r].session] \ (req[r].found \ errors)
      BY <1>3, <1>4 DEF IInv, Types
    <2>2. unread'[r] = errors /\ seen'[r] = seen[r]
      BY <1>3 DEF IInv, Types
    <2>3. QED
      BY <1>1, <1>4, <2>1, <2>2 DEF Remaining
  <1>7. SoundRequest(r)'
    BY <1>4, <1>5, <1>6 DEF SoundRequest, Located, Own
  <1>8. \A s \in SessionIds : objects'[s] \subseteq objects[s]
    BY <1>3, <1>4 DEF IInv, Types
  <1>9. QED
    BY <1>7, <1>8

(* What a request that does not write objects leaves to the others.        *)
LEMMA RequestStepFrame ==
    ASSUME IInv, NEW r \in Requests, RequestStep(r)
    PROVE  /\ \A q \in Requests \ {r} :
                 req'[q] = req[q] /\ seen'[q] = seen[q] /\ unread'[q] = unread[q]
           /\ streams' = streams
           /\ \A s \in SessionIds : owner'[s] = owner[s] \/ owner[s] = None
           /\ RevokeSignatures(r) \/ DeleteForSession(r) \/ objects' = objects
  <1> USE DEF IInv, Types, access, history, Leave, Goto, Attest, Answer, Listing, Enter
  <1>1. CASE \E k \in Keys :
                \/ StartCreate(r, k)
                \/ \E s \in SessionIds : StartDelete(r, k, s) \/ StartVerify(r, k, s)
                                        \/ StartRead(r, k, s)
    BY <1>1 DEF StartCreate, StartDelete, StartVerify, StartRead
  <1>2. CASE Replay(r)
    BY <1>2 DEF Replay
  <1>3. CASE Add(r)
    BY <1>3 DEF Add, Stored
  <1>4. CASE Mint(r)
    BY <1>4 DEF Mint
  <1>5. CASE Get(r) \/ Page(r) \/ Relist(r)
    BY <1>5 DEF Get, Page, Relist
  <1>6. CASE RevokeSignatures(r) \/ DeleteForSession(r)
    BY <1>6 DEF RevokeSignatures, DeleteForSession, DeleteFound
  <1>7. CASE PurgeRows(r) \/ Mark(r) \/ Verify(r) \/ Raise(r)
    BY <1>7 DEF PurgeRows, Mark, Verify, Raise
  <1>8. CASE ReadSession(r) \/ ReadDocumentRow(r) \/ ReadBundle(r)
    BY <1>8 DEF ReadSession, ReadDocumentRow, ReadBundle
  <1>9. QED
    BY <1>1, <1>2, <1>3, <1>4, <1>5, <1>6, <1>7, <1>8 DEF RequestStep, CreateStep

(* A request that goes on from one step to the next keeps what it claims.  *)
LEMMA GoesOnSound ==
    ASSUME IInv, NEW r \in Requests, req[r] \in Jobs,
           req'[r].key = req[r].key, req'[r].session = req[r].session,
           UNCHANGED <<owner, objects, history>>,
           \/ req[r].pc = "rows" /\ req'[r].pc = "mark"
           \/ req[r].pc = "mark" /\ req'[r].pc = "deleted"
           \/ req[r].pc = "read" /\ req'[r].pc = "row"
                 /\ Locates(Tenant(r), req[r].session)
           \/ req[r].pc = "row" /\ req'[r].pc = "bundle"
           \/ req[r].pc = "bundle" /\ req'[r].pc = "document"
           \/ req[r].pc = "count" /\ req'[r].pc = "clean" /\ Remaining(r) = {}
    PROVE  SoundRequest(r)'
  <1>1. SoundRequest(r) /\ Remaining(r)' = Remaining(r) /\ Tenant(r)' = Tenant(r)
    BY DEF IInv, Remaining, Tenant, history
  <1>2. seen' = seen /\ unread' = unread
    BY DEF history
  <1>3. QED
    BY <1>1, <1>2 DEF SoundRequest, Located, Own, Locates

LEMMA RequestStepSound ==
    ASSUME IInv, NEW r \in Requests, RequestStep(r)
    PROVE  SoundRequest(r)'
  <1>0. ASSUME req'[r].pc \in {"replay", "get", "read", "add", "replayed"}
        PROVE  SoundRequest(r)'
    BY <1>0 DEF SoundRequest, Located, Own
  <1>1. ASSUME NEW k \in Keys, StartCreate(r, k) PROVE SoundRequest(r)'
    BY <1>0, <1>1 DEF StartCreate, Enter, NewJob, IInv, Types
  <1>2. ASSUME NEW k \in Keys, NEW s \in SessionIds,
               StartDelete(r, k, s) \/ StartRead(r, k, s)
        PROVE  SoundRequest(r)'
    BY <1>0, <1>2 DEF StartDelete, StartRead, Enter, NewJob, IInv, Types
  <1>3. ASSUME NEW k \in Keys, NEW s \in SessionIds, StartVerify(r, k, s)
        PROVE  SoundRequest(r)'
    BY <1>3, NewJobTypes, ListingSound DEF StartVerify, IInv
  <1>4. CASE Leave(r)
    BY <1>4, LeaveSound DEF IInv
  <1>5. CASE CreateStep(r) /\ ~Leave(r)
    <2>1. req[r] \in Creating \cup Jobs
      BY <1>5 DEF CreateStep, Replay, Add, Mint, IInv, Types, Idle, Outcomes
    <2>2. CASE Replay(r)
      <3>1. req'[r].pc \in {"add", "replayed"}
        BY <1>5, <2>1, <2>2 DEF Replay, Answer, Goto, IInv, Types, Creating, Jobs
      <3>2. QED
        BY <1>0, <3>1
    <2>3. CASE Add(r)
      <3>1. PICK s \in SessionIds : /\ owner' = [owner EXCEPT ![s] = Tenant(r)]
                                    /\ req' = [req EXCEPT ![r].pc = "mint", ![r].session = s]
        BY <1>5, <2>3 DEF Add
      <3>2. req'[r].pc = "mint" /\ req'[r].session = s /\ req'[r].key = req[r].key
        BY <2>1, <3>1 DEF IInv, Types, Creating, Jobs
      <3>3. owner'[s] = Tenant(r)
        BY <3>1 DEF IInv, Types
      <3>4. QED
        BY <3>2, <3>3 DEF SoundRequest, Located, Own, Tenant
    <2>4. CASE Mint(r)
      <3>1. /\ req'[r].pc = "created" /\ req'[r].session = req[r].session
            /\ req'[r].key = req[r].key /\ req[r].pc = "mint" /\ owner' = owner
        BY <2>1, <2>4 DEF Mint, Answer, IInv, Types
      <3>2. Tenant(r) = owner[req[r].session]
        BY <3>1 DEF IInv, SoundRequest, Own
      <3>3. QED
        BY <3>1, <3>2 DEF SoundRequest, Located, Own, Tenant
    <2>5. QED
      BY <1>5, <2>2, <2>3, <2>4 DEF CreateStep
  <1>6. CASE req[r] \in Jobs
    <2>0. Types /\ SoundRequest(r)
      BY DEF IInv
    <2>1. CASE Get(r) /\ ~Leave(r)
      <3>1. [req[r] EXCEPT !.loaded = state[req[r].session]] \in Jobs
        BY <1>6, <2>0 DEF Types, Jobs
      <3>2. /\ Listing(r, [req[r] EXCEPT !.loaded = state[req[r].session]], "revoke")
            /\ owner[req[r].session] = Tenant(r)
            /\ UNCHANGED <<owner, objects>>
        BY <2>1 DEF Get, Locates
      <3>3. /\ [req[r] EXCEPT !.loaded = state[req[r].session]].key = req[r].key
            /\ [req[r] EXCEPT !.loaded = state[req[r].session]].session = req[r].session
        BY <1>6 DEF Jobs
      <3>4. QED
        BY <3>1, <3>2, <3>3, <2>0, ListingSound DEF Tenant
    <2>2. CASE Page(r)
      BY <2>2, PageSound
    <2>3. CASE RevokeSignatures(r) \/ DeleteForSession(r)
      BY <2>3, DeleteFoundSound DEF RevokeSignatures, DeleteForSession
    <2>4. CASE Relist(r)
      <3>1. TenantOf[req[r].key] = owner[req[r].session]
        BY <2>0, <2>4 DEF Relist, SoundRequest, Located, Own, Tenant
      <3>2. QED
        BY <1>6, <2>0, <2>4, <3>1, ListingSound DEF Relist
    <2>5. CASE PurgeRows(r)
      BY <1>6, <2>0, <2>5, GoesOnSound DEF PurgeRows, Goto, Types, Jobs
    <2>6. CASE Mark(r) /\ ~Leave(r)
      <3>1. Attest(r, "deleted") /\ req[r].pc = "mark" /\ UNCHANGED <<owner, objects>>
        BY <2>6 DEF Mark
      <3>2. QED
        BY <1>6, <2>0, <3>1, GoesOnSound DEF Attest, Answer, Types
    <2>7. CASE Verify(r) /\ ~Leave(r)
      <3>1. /\ EndListing(r, "count") /\ req[r].found = {} /\ Attest(r, "clean")
            /\ UNCHANGED <<owner, objects>>
        BY <2>7 DEF Verify
      <3>2. Remaining(r) = {} /\ req[r].pc = "count"
        BY <3>1, EndListingFindsAll
      <3>3. QED
        BY <1>6, <2>0, <3>1, <3>2, GoesOnSound DEF Attest, Answer, Types
    <2>8. CASE ReadSession(r) /\ ~Leave(r)
      BY <1>6, <2>0, <2>8, GoesOnSound DEF ReadSession, Goto, Types, Jobs
    <2>9. CASE ReadDocumentRow(r) /\ ~Leave(r)
      BY <1>6, <2>0, <2>9, GoesOnSound DEF ReadDocumentRow, Goto, Types, Jobs
    <2>10. CASE ReadBundle(r)
      BY <1>6, <2>0, <2>10, GoesOnSound DEF ReadBundle, Types
    <2>11. Raise(r) => Leave(r)
      BY DEF Raise
    <2>12. QED
      BY <1>1, <1>2, <1>3, <1>4, <1>5, <2>1, <2>2, <2>3, <2>4, <2>5, <2>6, <2>7,
         <2>8, <2>9, <2>10, <2>11 DEF RequestStep
  <1>7. CASE req[r] \notin Jobs
    <2>1. \/ CreateStep(r)
          \/ \E k \in Keys : \/ StartCreate(r, k)
                            \/ \E s \in SessionIds : \/ StartDelete(r, k, s)
                                                    \/ StartVerify(r, k, s)
                                                    \/ StartRead(r, k, s)
      BY <1>7 DEF IInv, Types, RequestStep, Get, Page, RevokeSignatures, EndListing,
           Relist, DeleteForSession, PurgeRows, Mark, Verify, Raise, ReadSession,
           ReadDocumentRow, ReadBundle, Idle, Creating, Outcomes
    <2>2. QED
      BY <2>1, <1>1, <1>2, <1>3, <1>4, <1>5
  <1>8. QED
    BY <1>6, <1>7

-----------------------------------------------------------------------------
(* The environment keeps every request sound, and every socket.            *)

LEMMA StillStaysSound ==
    ASSUME IInv, UNCHANGED <<owner, objects, req, history>>, NEW q \in Requests
    PROVE  SoundRequest(q)'
  <1>1. SoundRequest(q)
    BY DEF IInv
  <1>2. /\ owner' = owner /\ objects' = objects /\ req' = req
        /\ seen' = seen /\ unread' = unread
    BY DEF history
  <1>3. QED
    BY <1>1, <1>2 DEF SoundRequest, Remaining, Tenant

(* What was overwritten is no longer what the listing had to find.         *)
LEMMA WriteStaysSound ==
    ASSUME IInv, NEW s \in SessionIds, NEW n \in Names, Write(s, n),
           UNCHANGED <<owner, req, unread>>, NEW q \in Requests
    PROVE  SoundRequest(q)'
  <1>1. /\ seen'[q] = IF WorksOn(q, s) THEN seen[q] \ {n} ELSE seen[q]
        /\ objects'[s] = objects[s] \cup {n}
        /\ \A other \in SessionIds \ {s} : objects'[other] = objects[other]
    BY DEF Write, IInv, Types
  <1>2. ASSUME req[q].pc \in Claiming
        PROVE  /\ req[q].session \in SessionIds
               /\ seen'[q] \cap objects'[req[q].session]
                      \subseteq seen[q] \cap objects[req[q].session]
    <2>1. req[q].session \in SessionIds /\ req[q].pc # "idle"
      BY <1>2 DEF IInv, Types, Idle, Creating, Jobs, Outcomes, Located, Own, Claiming
    <2>2. CASE req[q].session = s
      BY <1>1, <2>1, <2>2 DEF WorksOn
    <2>3. CASE req[q].session # s
      BY <1>1, <2>1, <2>3
    <2>4. QED
      BY <2>1, <2>2, <2>3
  <1>3. QED
    BY <1>1, <1>2, UntouchedStaysSound

LEMMA TickStaysSound ==
    ASSUME IInv, Tick, NEW q \in Requests
    PROVE  SoundRequest(q)'
  <1>1. UNCHANGED <<owner, objects, history>>
    BY DEF Tick
  <1>2. CASE req[q].pc \in {"add", "mint"}
    <2>1. req[q] \in Creating \cup Jobs
      BY <1>2 DEF IInv, Types, Idle, Outcomes
    <2>2. req'[q] = [req[q] EXCEPT !.age = @ + 1] \/ req'[q] = req[q]
      BY DEF Tick
    <2>3. /\ req'[q].pc = req[q].pc /\ req'[q].key = req[q].key
          /\ req'[q].session = req[q].session /\ owner' = owner
      BY <1>1, <2>1, <2>2 DEF Creating, Jobs
    <2>4. req[q].pc = "mint" => Tenant(q) = owner[req[q].session]
      BY DEF IInv, SoundRequest, Own
    <2>5. QED
      BY <1>2, <2>3, <2>4 DEF SoundRequest, Located, Own, Tenant
  <1>3. CASE req[q].pc \notin {"add", "mint"}
    <2>1. req'[q] = req[q]
      BY <1>3 DEF Tick
    <2>2. QED
      BY <1>1, <2>1, UntouchedStaysSound DEF history
  <1>4. QED
    BY <1>2, <1>3

LEMMA EnvironmentStepSound ==
    ASSUME IInv, EnvironmentStep
    PROVE  SoundStreams' /\ \A q \in Requests : SoundRequest(q)'
  <1>1. ASSUME NEW k \in Keys, Issue(k) \/ Revoke(k)
        PROVE  UNCHANGED <<owner, objects, req, history>> /\ streams' = streams
    BY <1>1 DEF Issue, Revoke
  <1>2. ASSUME NEW s \in SessionIds, Put(s) \/ Upload(s)
        PROVE  /\ \E n \in Names : Write(s, n)
               /\ UNCHANGED <<owner, req, unread>> /\ streams' = streams
    BY <1>2, StoreAssumption DEF Put, Upload, access
  <1>3. ASSUME NEW s \in SessionIds, Complete(s)
        PROVE  UNCHANGED <<owner, objects, req, history>> /\ streams' \subseteq streams
    BY <1>3 DEF Complete
  <1>4. ASSUME NEW g \in grants, OpenStream(g)
        PROVE  UNCHANGED <<owner, objects, req, history>> /\ SoundStreams'
    <2>1. /\ UNCHANGED <<owner, objects, req, history>>
          /\ owner[g.session] = TenantOf[g.key]
          /\ streams' = streams \cup {[key |-> g.key, session |-> g.session]}
      BY <1>4 DEF OpenStream, Locates
    <2>2. QED
      BY <2>1 DEF IInv, SoundStreams
  <1>5. CASE Tick
    BY <1>5, TickStaysSound, StreamsStaySound DEF Tick
  <1>6. CASE \E k \in Keys : Issue(k) \/ Revoke(k)
    BY <1>6, <1>1, StillStaysSound, StreamsStaySound
  <1>7. CASE \E s \in SessionIds : Put(s) \/ Upload(s)
    BY <1>7, <1>2, WriteStaysSound, StreamsStaySound
  <1>8. CASE \E s \in SessionIds : Complete(s)
    BY <1>8, <1>3, StillStaysSound, StreamsStaySound
  <1>9. CASE \E g \in grants : OpenStream(g)
    BY <1>9, <1>4, StillStaysSound
  <1>10. QED
    BY <1>5, <1>6, <1>7, <1>8, <1>9 DEF EnvironmentStep

-----------------------------------------------------------------------------
(* The types and the soundness of every request and socket are inductive.  *)
THEOREM AccessIsSound == Spec => []IInv
  <1>1. Init => IInv
    <2> SUFFICES ASSUME Init PROVE IInv
      OBVIOUS
    <2>1. Types
      BY DEF Init, Types, Lifecycle
    <2>2. SoundStreams
      BY DEF Init, SoundStreams
    <2>3. \A r \in Requests : SoundRequest(r)
      BY DEF Init, SoundRequest, Idle, Located, Own
    <2>4. QED
      BY <2>1, <2>2, <2>3 DEF IInv
  <1>2. IInv /\ [Next]_vars => IInv'
    <2> SUFFICES ASSUME IInv, [Next]_vars PROVE IInv'
      OBVIOUS
    <2>1. CASE UNCHANGED vars
      <3>1. /\ UNCHANGED <<owner, objects, req, history>>
            /\ streams' = streams /\ grants' = grants /\ state' = state
        BY <2>1 DEF vars, access
      <3>2. Types'
        BY <3>1 DEF IInv, Types, history
      <3>3. SoundStreams'
        BY <3>1, StreamsStaySound
      <3>4. \A q \in Requests : SoundRequest(q)'
        BY <3>1, StillStaysSound
      <3>5. QED
        BY <3>2, <3>3, <3>4 DEF IInv
    <2>2. CASE EnvironmentStep
      BY <2>2, EnvironmentStepTypes, EnvironmentStepSound DEF IInv
    <2>3. ASSUME NEW r \in Requests, RequestStep(r) PROVE IInv'
      <3>1. Types' /\ SoundRequest(r)'
        BY <2>3, RequestStepTypes, RequestStepSound DEF IInv
      <3>2. \A s \in SessionIds : objects'[s] \subseteq objects[s]
        BY <2>3, RequestStepFrame, DeleteFoundSound
           DEF RevokeSignatures, DeleteForSession
      <3>3. SoundStreams' /\ \A q \in Requests : SoundRequest(q)'
        BY <2>3, <3>1, <3>2, RequestStepFrame, OthersStaySound, StreamsStaySound
      <3>4. QED
        BY <3>1, <3>3 DEF IInv
    <2>4. QED
      BY <2>1, <2>2, <2>3, NextIsRequestsAndEnvironment
  <1>3. QED
    BY <1>1, <1>2, PTL DEF Spec

(* Beyond the answer of a replay, nothing a request does, and no socket,   *)
(* is on a session of another tenant than its key's (SessionRepository.get *)
(* against CreateSession._replay).                                         *)
THEOREM AccessInTenant == Spec => []AccessStaysInTenant
  <1>1. IInv => AccessStaysInTenant
    BY DEF IInv, SoundStreams, SoundRequest, Located, Own, AccessStaysInTenant
  <1>2. QED
    BY <1>1, AccessIsSound, PTL

(* A deletion that has purged the objects, and a verification that found   *)
(* none, leave nothing that was stored when their last listing began, but  *)
(* what the store reported in an answer nobody reads (S3MediaStore).       *)
THEOREM SweptIsGone == Spec => []SweptMediaIsGone
  <1>1. IInv => SweptMediaIsGone
    BY DEF IInv, SoundRequest, Remaining, SweptMediaIsGone
  <1>2. QED
    BY <1>1, AccessIsSound, PTL

=============================================================================
