---------------------------- MODULE SessionAccess ----------------------------
(***************************************************************************)
(* Who reaches a session and its media: API keys, the stream grants minted *)
(* with them, the tenant a session belongs to, and the deletion drill over *)
(* the S3 object store.                                                    *)
(*                                                                         *)
(* A key authenticates a request once, at its start; a grant is signed and *)
(* not stored, so a socket is opened with it without asking for the key    *)
(* again.  Deletion lists the objects of the session page by page and      *)
(* deletes what it listed, twice (revoke_signatures is a deletion too),    *)
(* while workers and presigned uploads go on writing.                      *)
(*                                                                         *)
(* Time has no bound: keys and grants carry what is left of their life,    *)
(* and Tick ages them.  All keys belong to one application, the scope of   *)
(* idempotency keys.  Capture and completion are one step each here;       *)
(* SessionService has their steps.                                         *)
(***************************************************************************)
EXTENDS Integers, FiniteSets

CONSTANTS
    Keys, Tenants,    \* API keys, and the tenants
    TenantOf,         \* the tenant of each key
    ScopesOf,         \* its scopes
    LifeOf,           \* ticks until it expires, Unlimited if it does not
    SessionIds,       \* identifiers of sessions: the bound on how many are made
    Requests,         \* requests at work at once
    Asks,             \* what each of them is asked: the bound on who meets whom
    Names,            \* object names below a session, in listing order
    UploadName,       \* the name every presigned upload writes to
    GrantLife         \* STREAM_TOKEN_TTL_MS, in ticks

Unlimited == -1
None == "none"
Scopes == {"write", "read", "delete", "admin"}

ASSUME KeysAssumption ==
    /\ TenantOf \in [Keys -> Tenants]
    /\ ScopesOf \in [Keys -> SUBSET Scopes]
    /\ LifeOf \in [Keys -> (Nat \ {0}) \cup {Unlimited}]
    /\ None \notin Tenants
    /\ Asks \in [Requests -> SUBSET {"create", "delete", "verify", "read"}]

ASSUME StoreAssumption ==
    /\ IsFiniteSet(Names) /\ Names \subseteq Nat \ {0}
    /\ UploadName \in Names
    /\ GrantLife \in Nat \ {0}

VARIABLES
    key,      \* each key: its status, and what is left of its life
    owner,    \* the tenant of each stored session
    state,    \* and its lifecycle state
    rows,     \* sessions whose document and evidence rows are stored
    grants,   \* signed grants that have not expired
    streams,  \* open sockets, as the grants they were opened with
    objects,  \* names of the objects stored for each session
    req,      \* what each request is doing
    seen,     \* history: what its last listing had to find, not written since
    unread    \* history: what the store told it that it could not delete

access == <<key, grants, streams>>
history == <<seen, unread>>
vars == <<access, owner, state, rows, objects, req, history>>

L == INSTANCE SessionLifecycle

Idle == [pc |-> "idle"]

NewKey(k) == [status |-> "unissued", life |-> LifeOf[k]]

Init ==
    /\ key = [k \in Keys |-> NewKey(k)]
    /\ owner = [s \in SessionIds |-> None]
    /\ state = [s \in SessionIds |-> "created"]
    /\ rows = {}
    /\ grants = {} /\ streams = {}
    /\ objects = [s \in SessionIds |-> {}]
    /\ req = [r \in Requests |-> Idle]
    /\ seen = [r \in Requests |-> {}]
    /\ unread = [r \in Requests |-> {}]

Stored == {s \in SessionIds : owner[s] # None}

(***************************************************************************)
(* API keys.                                                               *)
(***************************************************************************)
Issue(k) ==
    /\ key[k].status = "unissued"
    /\ key' = [key EXCEPT ![k].status = "active"]
    /\ UNCHANGED <<grants, streams, owner, state, rows, objects, req, history>>

Revoke(k) ==
    /\ key[k].status = "active"
    /\ key' = [key EXCEPT ![k].status = "revoked"]
    /\ UNCHANGED <<grants, streams, owner, state, rows, objects, req, history>>

(* Variant: a revoked key is refused only once it has expired too. *)
UsableAfterRevocation(k) == key[k].status # "unissued" /\ key[k].life # 0

IsUsable(k) == key[k].status = "active" /\ key[k].life # 0

Allows(k, scope) == {scope, "admin"} \cap ScopesOf[k] # {}

(* The answer is the same for unknown, revoked and expired keys, and a     *)
(* refusal (401, 403) changes nothing and is no step.                      *)
Authenticates(k, scope) == IsUsable(k) /\ Allows(k, scope)

(***************************************************************************)
(* The object store.  Objects lie below tenant/session/, so a listing for  *)
(* another tenant finds nothing.                                           *)
(***************************************************************************)
Below(t, s) == IF owner[s] = t THEN objects[s] ELSE {}

WorksOn(r, s) == req[r].pc # "idle" /\ req[r].session = s

(* Whatever was there under that name is gone. *)
Write(s, n) ==
    /\ objects' = [objects EXCEPT ![s] = @ \cup {n}]
    /\ seen' = [r \in Requests |->
                  IF WorksOn(r, s) THEN seen[r] \ {n} ELSE seen[r]]

(* A worker stores media or features, under the digest of the content. *)
Put(s) ==
    /\ s \in Stored
    /\ \E n \in Names \ {UploadName} : Write(s, n)
    /\ UNCHANGED <<access, owner, state, rows, req, unread>>

(* A client holds an upload link, which nothing records and nothing checks *)
(* against the session, before it was signed or after.                     *)
Upload(s) ==
    /\ s \in Stored
    /\ Write(s, UploadName)
    /\ UNCHANGED <<access, owner, state, rows, req, unread>>

(***************************************************************************)
(* Requests: authentication and scope are checked once, at the start.      *)
(***************************************************************************)
Tenant(r) == TenantOf[req[r].key]

Goto(r, step) == req' = [req EXCEPT ![r].pc = step]

(* Nothing of the request matters once it is over, unless it attests what  *)
(* became of the media, or answers with a session.                         *)
Leave(r) ==
    /\ req' = [req EXCEPT ![r] = Idle]
    /\ seen' = [seen EXCEPT ![r] = {}]
    /\ unread' = [unread EXCEPT ![r] = {}]

Answer(r, result, s) ==
    /\ req' = [req EXCEPT ![r] = [pc |-> result, key |-> @.key, session |-> s]]
    /\ UNCHANGED history

Attest(r, result) == Answer(r, result, req[r].session)

Free(r, op) ==
    op \in Asks[r] /\ req[r].pc \in {"idle", "deleted", "clean", "document", "created", "replayed"}

(* A listing begins: what is stored now is what it has to find. *)
Listing(r, job, step) ==
    /\ req' = [req EXCEPT ![r] = [job EXCEPT !.pc = step, !.cursor = 0, !.found = {}]]
    /\ seen' = [seen EXCEPT ![r] = Below(TenantOf[job.key], job.session)]
    /\ unread' = [unread EXCEPT ![r] = {}]

NewJob(k, s, step) ==
    [key |-> k, session |-> s, pc |-> step, age |-> 0,
     cursor |-> 0, found |-> {}, loaded |-> None]

Enter(r, job) ==
    /\ req' = [req EXCEPT ![r] = job]
    /\ seen' = [seen EXCEPT ![r] = {}]
    /\ unread' = [unread EXCEPT ![r] = {}]

StartCreate(r, k) ==
    /\ Free(r, "create") /\ Authenticates(k, "write")
    /\ Enter(r, NewJob(k, None, "replay"))
    /\ UNCHANGED <<access, owner, state, rows, objects>>

StartDelete(r, k, s) ==
    /\ Free(r, "delete") /\ Authenticates(k, "delete")
    /\ Enter(r, NewJob(k, s, "get"))
    /\ UNCHANGED <<access, owner, state, rows, objects>>

StartRead(r, k, s) ==
    /\ Free(r, "read") /\ Authenticates(k, "read")
    /\ Enter(r, NewJob(k, s, "read"))
    /\ UNCHANGED <<access, owner, state, rows, objects>>

(* The object store alone is asked, whatever the session. *)
StartVerify(r, k, s) ==
    /\ Free(r, "verify") /\ Authenticates(k, "delete")
    /\ Listing(r, NewJob(k, s, "count"), "count")
    /\ UNCHANGED <<access, owner, state, rows, objects>>

(* The grant names its session and its key, and through it the tenant. *)
Grant(k, s, left) == [key |-> k, session |-> s, left |-> left]

(* A grant whose life is over when it is signed opens nothing. *)
MintGrant(k, s, left) ==
    grants' = grants \cup
        {g \in {Grant(k, s, left)} : g.left > 0}

(* An idempotency key finds the session it made, and the caller is         *)
(* answered with it: its id, state, mode, capabilities and configuration,  *)
(* whatever its tenant.  Or the request goes on and reads the clock.       *)
(* Which key made which session is in CreateSession.                       *)
Replay(r) ==
    /\ req[r].pc = "replay"
    /\ \/ \E s \in Stored : MintGrant(req[r].key, s, GrantLife) /\ Answer(r, "replayed", s)
       \/ Goto(r, "add") /\ UNCHANGED <<grants, history>>
    /\ UNCHANGED <<key, streams, owner, state, rows, objects>>

Add(r) ==
    /\ req[r].pc = "add"
    /\ \/ \E s \in SessionIds \ Stored :
             /\ owner' = [owner EXCEPT ![s] = Tenant(r)]
             /\ req' = [req EXCEPT ![r].pc = "mint", ![r].session = s]
             /\ UNCHANGED history
       \/ Stored = SessionIds /\ Leave(r) /\ UNCHANGED owner
    /\ UNCHANGED <<access, state, rows, objects>>

(* The expiry counts from the instant read before the session was stored. *)
Mint(r) ==
    /\ req[r].pc = "mint"
    /\ MintGrant(req[r].key, req[r].session, GrantLife - req[r].age)
    /\ Answer(r, "created", req[r].session)
    /\ UNCHANGED <<key, streams, owner, state, rows, objects>>

CreateStep(r) == Replay(r) \/ Add(r) \/ Mint(r)

(* Variant: looked up by its identifier alone. *)
LocatesAnywhere(t, s) == s \in Stored

(* sessions.get: a session of another tenant is not found. *)
Locates(t, s) == owner[s] = t

(* DELETE: not found, already deleted, or on to the media. *)
Get(r) ==
    /\ req[r].pc = "get"
    /\ LET s == req[r].session
       IN IF Locates(Tenant(r), s) /\ state[s] # "evidence_deleted"
          THEN Listing(r, [req[r] EXCEPT !.loaded = state[s]], "revoke")
          ELSE Leave(r)
    /\ UNCHANGED <<access, owner, state, rows, objects>>

(* Variant: the listing ends with its first page. *)
AheadFirstPage(r) ==
    {n \in Below(Tenant(r), req[r].session) : req[r].cursor = 0}

(* The rest of a listing, of which each page is another request. *)
Ahead(r) ==
    {n \in Below(Tenant(r), req[r].session) : n > req[r].cursor}

Page(r) ==
    /\ req[r].pc \in {"revoke", "purge", "count"}
    /\ \E next \in Ahead(r) :
          /\ \A n \in Ahead(r) : next <= n
          /\ req' = [req EXCEPT ![r].cursor = next, ![r].found = @ \cup {next}]
    /\ UNCHANGED <<access, owner, state, rows, objects, history>>

(* delete_objects: an error for a key comes in an answer nobody reads.     *)
DeleteFound(r, step) ==
    \E errors \in SUBSET (req[r].found \cap objects[req[r].session]) :
        /\ objects' = [objects EXCEPT ![req[r].session] = @ \ (req[r].found \ errors)]
        /\ unread' = [unread EXCEPT ![r] = errors]
        /\ Goto(r, step)
        /\ UNCHANGED seen

EndListing(r, step) == req[r].pc = step /\ Ahead(r) = {}

(* revoke_signatures deletes, and delete_for_session lists again. *)
RevokeSignatures(r) ==
    /\ EndListing(r, "revoke")
    /\ DeleteFound(r, "relist")
    /\ UNCHANGED <<access, owner, state, rows>>

Relist(r) ==
    /\ req[r].pc = "relist"
    /\ Listing(r, req[r], "purge")
    /\ UNCHANGED <<access, owner, state, rows, objects>>

DeleteForSession(r) ==
    /\ EndListing(r, "purge")
    /\ DeleteFound(r, "rows")
    /\ UNCHANGED <<access, owner, state, rows>>

(* One transaction for the document and the evidence of every run. *)
PurgeRows(r) ==
    /\ req[r].pc = "rows"
    /\ rows' = rows \ {req[r].session}
    /\ Goto(r, "mark")
    /\ UNCHANGED <<access, owner, state, objects, history>>

(* The session that was loaded is marked, if it may be, and saved. *)
Mark(r) ==
    /\ req[r].pc = "mark"
    /\ IF L!CanTransition(req[r].loaded, "evidence_deleted")
       THEN /\ state' = [state EXCEPT ![req[r].session] = "evidence_deleted"]
            /\ Attest(r, "deleted")
       ELSE Leave(r) /\ UNCHANGED state
    /\ UNCHANGED <<access, owner, rows, objects>>

(* verify: no object is left, or some are. *)
Verify(r) ==
    /\ EndListing(r, "count")
    /\ IF req[r].found = {} THEN Attest(r, "clean") ELSE Leave(r)
    /\ UNCHANGED <<access, owner, state, rows, objects>>

(* A call to the object store or to the database raises, before or after   *)
(* it did its work, and ends the request: among others, the store refuses  *)
(* a batch of more than a thousand keys.                                   *)
Raise(r) ==
    /\ req[r].pc \in {"revoke", "relist", "purge", "rows", "mark", "count"}
    /\ Leave(r)
    /\ UNCHANGED <<access, owner, state, rows, objects>>

(***************************************************************************)
(* GET result: the session, then the row of its document, then the         *)
(* evidence of the run, each read on its own.                              *)
(***************************************************************************)
ReadSession(r) ==
    /\ req[r].pc = "read"
    /\ IF Locates(Tenant(r), req[r].session) /\ state[req[r].session] = "completed"
       THEN Goto(r, "row") /\ UNCHANGED history
       ELSE Leave(r)
    /\ UNCHANGED <<access, owner, state, rows, objects>>

ReadDocumentRow(r) ==
    /\ req[r].pc = "row"
    /\ IF req[r].session \in rows THEN Goto(r, "bundle") /\ UNCHANGED history
       ELSE Leave(r)
    /\ UNCHANGED <<access, owner, state, rows, objects>>

(* Rows that are gone by now are no error: the document is built without.  *)
ReadBundle(r) ==
    /\ req[r].pc = "bundle"
    /\ req' = [req EXCEPT ![r] = [pc |-> "document", key |-> @.key, session |-> @.session,
                                  whole |-> @.session \in rows]]
    /\ UNCHANGED <<access, owner, state, rows, objects, history>>

(***************************************************************************)
(* Sockets.  A grant is verified by its signature and its expiry alone.    *)
(* begin_capture is in one step here.                                      *)
(***************************************************************************)
Verifies(g) == g \in grants

OpenStream(g) ==
    /\ Verifies(g)
    /\ LET s == g.session
       IN /\ Locates(TenantOf[g.key], s)
          /\ L!CanTransition(state[s], "capturing")
          /\ state' = [state EXCEPT ![s] = "capturing"]
          /\ streams' = streams \cup {[key |-> g.key, session |-> s]}
    /\ UNCHANGED <<key, grants, owner, rows, objects, req, history>>

Complete(s) ==
    /\ state[s] = "capturing"
    /\ state' = [state EXCEPT ![s] = "completed"]
    /\ rows' = rows \cup {s}
    /\ streams' = {c \in streams : c.session # s}
    /\ UNCHANGED <<key, grants, owner, objects, req, history>>

Older(life) == IF life > 0 THEN life - 1 ELSE life

Tick ==
    /\ key' = [k \in Keys |-> IF key[k].status = "unissued" THEN key[k]
                              ELSE [key[k] EXCEPT !.life = Older(@)]]
    /\ grants' = {[g EXCEPT !.left = @ - 1] : g \in {h \in grants : h.left > 1}}
    /\ req' = [r \in Requests |->
                  IF req[r].pc \in {"add", "mint"} /\ req[r].age < GrantLife
                  THEN [req[r] EXCEPT !.age = @ + 1] ELSE req[r]]
    /\ UNCHANGED <<streams, owner, state, rows, objects, history>>

Next ==
    \/ \E k \in Keys : Issue(k) \/ Revoke(k)
    \/ \E s \in SessionIds : Put(s) \/ Upload(s) \/ Complete(s)
    \/ \E r \in Requests :
          \/ \E k \in Keys :
                \/ StartCreate(r, k)
                \/ \E s \in SessionIds : StartDelete(r, k, s) \/ StartVerify(r, k, s)
                                        \/ StartRead(r, k, s)
          \/ CreateStep(r) \/ Get(r) \/ Page(r) \/ RevokeSignatures(r)
          \/ Relist(r) \/ DeleteForSession(r) \/ PurgeRows(r) \/ Mark(r)
          \/ Verify(r) \/ Raise(r)
          \/ ReadSession(r) \/ ReadDocumentRow(r) \/ ReadBundle(r)
    \/ \E g \in grants : OpenStream(g)
    \/ Tick

Spec == Init /\ [][Next]_vars

(* Time passes, and a creation that has begun comes to its end. *)
FairSpec == Spec /\ WF_vars(Tick) /\ \A r \in Requests : WF_vars(CreateStep(r))

-----------------------------------------------------------------------------
(* After a deletion has purged the objects, and after a verification has     *)
(* found none, nothing is stored that was there when the listing began,    *)
(* however many pages it took and whatever was written meanwhile: only     *)
(* objects whose error the deletion left unread remain (S3MediaStore).     *)
SweptMediaIsGone ==
    \A r \in Requests :
        LET remaining == seen[r] \cap objects[req[r].session]
        IN /\ req[r].pc \in {"rows", "mark", "deleted"} => remaining \subseteq unread[r]
           /\ req[r].pc = "clean" /\ Tenant(r) = owner[req[r].session] => remaining = {}

(* Idempotency keys are scoped by application and sessions by tenant, so a *)
(* replay may answer with the session of another tenant and sign a grant   *)
(* for it.  The caller gets no further than that answer: no socket opens   *)
(* with such a grant, and whatever else is answered with, read, listed or  *)
(* deleted is of the tenant of the key (SessionRepository.get).            *)
AccessStaysInTenant ==
    /\ \A c \in streams : TenantOf[c.key] = owner[c.session]
    /\ \A r \in Requests :
          req[r].pc \in {"mint", "created", "revoke", "relist", "purge", "rows", "mark", "deleted",
                         "row", "bundle", "document"}
              => Tenant(r) = owner[req[r].session]

(* ports/repositories.py: "Every read is scoped by tenant".  It is not: a  *)
(* replay reads by application and idempotency key, and answers with the   *)
(* session it finds (CreateSession._replay).                               *)
RepliesStayInTenant ==
    \A r \in Requests : req[r].pc = "replayed" => Tenant(r) = owner[req[r].session]

(* A document that is answered carries the evidence of its run.  It does   *)
(* not: a deletion between the two reads takes the rows, and the document  *)
(* is answered without them (PostgresEvidenceRepository.load_document).    *)
AnsweredDocumentsAreWhole ==
    \A r \in Requests : req[r].pc = "document" => req[r].whole

Ended(k) == key[k].status = "revoked" \/ key[k].life = 0

(* Once a key is revoked or has expired, there comes a time from which no  *)
(* grant signed with it opens a socket: grants are not revoked with their  *)
(* key, they run out (HmacStreamTokenMinter.verify, _mint_grant).          *)
AccessEndsWithKey ==
    \A k \in Keys : Ended(k) ~> [](\A g \in grants : g.key # k)

=============================================================================
