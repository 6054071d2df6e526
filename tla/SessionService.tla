--------------------------- MODULE SessionService ---------------------------
(***************************************************************************)
(* One session of the service, as its concurrent requests see it: stream   *)
(* handlers (one per WebSocket connection), DELETE requests, the session   *)
(* repository, the run repository, the evidence store, the audit log and   *)
(* the processing lease.                                                   *)
(*                                                                         *)
(* Repositories are reached through awaits, and every await is a place     *)
(* where another request can run, or where the call raises.  So an         *)
(* operation is one action up to and including each read or write, and     *)
(* the aggregate it loaded travels in the request's own copy.              *)
(*                                                                         *)
(* A save is a merge, in two steps: it reads the row that is stored, and   *)
(* later writes the columns in which the aggregate differs from what it    *)
(* read.  No version is checked, so saves that overlap can store some      *)
(* columns of one aggregate and some of another.                           *)
(***************************************************************************)
EXTENDS SessionLifecycle, FiniteSets

CONSTANTS
    Conns,       \* stream connections; each opens at most one run
    Deleters,    \* DELETE /evidence requests
    LeaseExpires, \* whether a lease may run out under its holder
    MaxTime,     \* bound on the clock
    MaxCrashes   \* bound on handlers whose process dies

ASSUME BoundsAssumption ==
    /\ LeaseExpires \in BOOLEAN
    /\ MaxTime \in Nat
    /\ MaxCrashes \in Nat

NoRun == "no_run"
ASSUME NoRunAssumption == NoRun \notin Conns

VARIABLES
    now,         \* the clock every process reads
    session,     \* the stored session row and consent row
    lease,       \* whether the processing lease is held
    runs,        \* state of the run each connection opened
    bundles,     \* runs whose evidence bundle is stored
    document,    \* run and captured duration of the stored document
    audit,       \* audit records, by the request that wrote them
    pc,          \* where each stream handler stands
    copy,        \* the aggregate a stream handler loads, moves and saves; a
                 \* new session when it holds none
    wall,        \* the clock reading its completion was requested at
    seen,        \* the row its save has read and not yet written
    dpc,         \* where each DELETE request stands
    dcopy,       \* the aggregate a DELETE request loaded, likewise
    dseen,       \* the row its save has read and not yet written
    removed,     \* what each DELETE request under way removed, for its audit
                 \* record
    abandoned    \* handlers that ended between the two saves of a completion

handlerVars == <<runs, pc, copy, wall, seen, abandoned>>
deleterVars == <<dpc, dcopy, dseen, removed>>
storeVars   == <<bundles, document, audit>>
vars == <<now, session, lease, storeVars, handlerVars, deleterVars>>

(* Reading the row for an operation, and applying the operation. *)
Loading  == {"begin", "load_pause", "load_resume", "load_completion"}
Applying == {"apply_begin", "apply_pause", "apply_resume", "apply_completion"}

(* The two steps of a save. *)
Selecting  == {"save_begin", "save_control", "save_completing", "save_completed"}
Committing == {"commit_begin", "commit_control", "commit_completing",
               "commit_completed"}

(* The steps between the two saves of a completion. *)
MidCompletion == {"store_bundle", "store_document", "save_completed",
                  "commit_completed"}

(* The steps of a handler between acquiring the lease and releasing it. *)
Working == Loading \cup Applying \cup Selecting \cup Committing \cup
    {"open_run", "accept", "live", "store_bundle", "store_document", "audit",
     "close_run", "send_completed", "close_failed", "release"}

HandlerSteps == Working \cup {"idle", "busy", "closed", "dead"}

DeleterSteps == {"idle", "purge", "clear", "mark", "commit", "audit", "done",
                 "already_deleted", "refused", "failed", "half_done"}

NoDocument == [run |-> NoRun, captured |-> 0]

Rows == [state : States, clock : Clock]
Row(s) == [state |-> s.state, clock |-> s.clock]
NewRow == Row(NewSession)

Init ==
    /\ now = 0
    /\ session = NewSession
    /\ lease = FALSE
    /\ runs = [c \in Conns |-> "none"]
    /\ bundles = {}
    /\ document = NoDocument
    /\ audit = {}
    /\ pc = [c \in Conns |-> "idle"]
    /\ copy = [c \in Conns |-> NewSession]
    /\ wall = [c \in Conns |-> 0]
    /\ seen = [c \in Conns |-> NewRow]
    /\ dpc = [d \in Deleters |-> "idle"]
    /\ dcopy = [d \in Deleters |-> NewSession]
    /\ dseen = [d \in Deleters |-> NewRow]
    /\ removed = [d \in Deleters |-> {}]
    /\ abandoned = {}

Goto(c, step) == pc' = [pc EXCEPT ![c] = step]

(***************************************************************************)
(* The stream handler.                                                     *)
(***************************************************************************)

(* Variant: SET without NX. *)
AcquireLeaseAnyway(c) ==
    /\ pc[c] = "idle"
    /\ lease' = TRUE
    /\ Goto(c, "begin")
    /\ UNCHANGED <<now, session, storeVars, runs, copy, wall, seen, abandoned,
                   deleterVars>>

(* acquire_lease: SET NX with a TTL.  A held lease turns the client away.  *)
AcquireLease(c) ==
    /\ pc[c] = "idle"
    /\ ~lease
    /\ lease' = TRUE
    /\ Goto(c, "begin")
    /\ UNCHANGED <<now, session, storeVars, runs, copy, wall, seen, abandoned,
                   deleterVars>>

SessionBusy(c) ==
    /\ pc[c] = "idle"
    /\ lease
    /\ Goto(c, "busy")
    /\ UNCHANGED <<now, session, lease, storeVars, runs, copy, wall, seen,
                   abandoned, deleterVars>>

(***************************************************************************)
(* A use case that moves the aggregate reads the session row, then the     *)
(* consent row, then the clock, and applies the operation to its own copy. *)
(* When the operation raises, no layer of the handler catches the domain   *)
(* error: it unwinds to the release of the lease, and the run, if there is *)
(* one, is not closed.                                                     *)
(***************************************************************************)
Load(c, next) ==
    /\ copy' = [copy EXCEPT ![c] = session]
    /\ Goto(c, next)
    /\ UNCHANGED <<now, session, lease, storeVars, runs, wall, seen,
                   abandoned, deleterVars>>

LoadBegin(c)      == pc[c] = "begin" /\ Load(c, "apply_begin")
LoadPause(c)      == pc[c] = "live" /\ Load(c, "apply_pause")
LoadResume(c)     == pc[c] = "live" /\ Load(c, "apply_resume")
LoadCompletion(c) == pc[c] = "live" /\ Load(c, "apply_completion")

(* The aggregate: the row read before, the consent receipt read now. *)
Loaded(c) == [copy[c] EXCEPT !.consent = session.consent]

Apply(c, step, may, result, next) ==
    /\ pc[c] = step
    /\ \/ /\ may
          /\ copy' = [copy EXCEPT ![c] = result]
          /\ Goto(c, next)
       \/ /\ ~may
          /\ copy' = [copy EXCEPT ![c] = NewSession]
          /\ Goto(c, "release")
    /\ UNCHANGED <<now, session, lease, storeVars, runs, seen, abandoned,
                   deleterVars>>

ApplyBegin(c) ==
    /\ Apply(c, "apply_begin", MayBeginCapture(Loaded(c)),
             BeginCapture(Loaded(c), now), "save_begin")
    /\ UNCHANGED wall

ApplyPause(c) ==
    /\ Apply(c, "apply_pause", MayPauseCapture(Loaded(c)),
             PauseCapture(Loaded(c), now), "save_control")
    /\ UNCHANGED wall

ApplyResume(c) ==
    /\ Apply(c, "apply_resume", MayResumeCapture(Loaded(c)),
             ResumeCapture(Loaded(c), now), "save_control")
    /\ UNCHANGED wall

(* The reading serves the quality report of the document as well. *)
ApplyCompletion(c) ==
    /\ Apply(c, "apply_completion", MayRequestCompletion(Loaded(c)),
             RequestCompletion(Loaded(c), now), "save_completing")
    /\ wall' = [wall EXCEPT ![c] = now]

(***************************************************************************)
(* SessionRepository.save: merge reads the stored row, and later the       *)
(* columns in which the aggregate differs from it are written.  The        *)
(* receipt is compared after that, under the lock the update takes, so the *)
(* one that is left is the aggregate's; a save that finds nothing to       *)
(* update takes effect where it reads the receipt.                         *)
(***************************************************************************)
Written(read, assigned, stored) == IF assigned = read THEN stored ELSE assigned

(* Variant: the clock columns are left out of the update. *)
MergedStateOnly(read, s, stored) ==
    [state |-> Written(read.state, s.state, stored.state), clock |-> stored.clock,
     consent |-> s.consent]

Merged(read, s, stored) ==
    [state   |-> Written(read.state, s.state, stored.state),
     clock   |-> [accumulated |-> Written(read.clock.accumulated,
                                          s.clock.accumulated,
                                          stored.clock.accumulated),
                  segment     |-> Written(read.clock.segment, s.clock.segment,
                                          stored.clock.segment)],
     consent |-> s.consent]

SelectRow(c, step, next) ==
    /\ pc[c] = step
    /\ seen' = [seen EXCEPT ![c] = Row(session)]
    /\ Goto(c, next)
    /\ UNCHANGED <<now, session, lease, storeVars, runs, copy, wall,
                   abandoned, deleterVars>>

(* The copy is kept only where the use case goes on with it. *)
Save(c, step, kept, next) ==
    /\ pc[c] = step
    /\ session' = Merged(seen[c], copy[c], session)
    /\ copy' = [copy EXCEPT ![c] = kept]
    /\ seen' = [seen EXCEPT ![c] = NewRow]
    /\ Goto(c, next)
    /\ UNCHANGED <<now, lease, storeVars, runs, wall, abandoned, deleterVars>>

SelectBegin(c)      == SelectRow(c, "save_begin", "commit_begin")
SelectControl(c)    == SelectRow(c, "save_control", "commit_control")
SelectCompleting(c) == SelectRow(c, "save_completing", "commit_completing")
SelectCompleted(c)  == SelectRow(c, "save_completed", "commit_completed")

(* Variant: the session is announced as completed before the final pass. *)
SaveCompletingEarly(c) ==
    /\ pc[c] = "commit_completing"
    /\ session' = Merged(seen[c], MarkCompleted(copy[c]), session)
    /\ seen' = [seen EXCEPT ![c] = NewRow]
    /\ Goto(c, "store_bundle")
    /\ UNCHANGED <<now, lease, storeVars, runs, copy, wall, abandoned,
                   deleterVars>>

SaveBegin(c)      == Save(c, "commit_begin", NewSession, "open_run")
SaveControl(c)    == Save(c, "commit_control", NewSession, "live")
SaveCompleting(c) == Save(c, "commit_completing", copy[c], "store_bundle")
SaveCompleted(c)  == Save(c, "commit_completed", NewSession, "audit")

OpenRun(c) ==
    /\ pc[c] = "open_run"
    /\ runs' = [runs EXCEPT ![c] = "running"]
    /\ Goto(c, "accept")
    /\ UNCHANGED <<now, session, lease, storeVars, copy, wall, seen,
                   abandoned, deleterVars>>

(* send_accepted, before the try that closes the run. *)
SendAccepted(c) ==
    /\ pc[c] = "accept"
    /\ Goto(c, "live")
    /\ UNCHANGED <<now, session, lease, storeVars, runs, copy, wall, seen,
                   abandoned, deleterVars>>

(* CompleteSession, after its first save. *)
StoreBundle(c) ==
    /\ pc[c] = "store_bundle"
    /\ bundles' = bundles \cup {c}
    /\ Goto(c, "store_document")
    /\ UNCHANGED <<now, session, lease, document, audit, runs, copy, wall,
                   seen, abandoned, deleterVars>>

(* The document replaces any other of this session and carries the         *)
(* captured time at the reading the completion was requested at.           *)
(* mark_completed acts on the copy loaded before the final pass, never on  *)
(* a fresh read.                                                           *)
StoreDocument(c) ==
    /\ pc[c] = "store_document"
    /\ document' = [run |-> c, captured |-> CapturedMs(copy[c].clock, wall[c])]
    /\ MayMarkCompleted(copy[c])
    /\ copy' = [copy EXCEPT ![c] = MarkCompleted(@)]
    /\ wall' = [wall EXCEPT ![c] = 0]
    /\ Goto(c, "save_completed")
    /\ UNCHANGED <<now, session, lease, bundles, audit, runs, seen,
                   abandoned, deleterVars>>

AuditCompletion(c) ==
    /\ pc[c] = "audit"
    /\ audit' = audit \cup {c}
    /\ Goto(c, "close_run")
    /\ UNCHANGED <<now, session, lease, bundles, document, runs, copy, wall,
                   seen, abandoned, deleterVars>>

CloseRun(c, step, outcome, next) ==
    /\ pc[c] = step
    /\ runs' = [runs EXCEPT ![c] = outcome]
    /\ Goto(c, next)
    /\ UNCHANGED <<now, session, lease, storeVars, copy, wall, seen,
                   abandoned, deleterVars>>

(* Variant: succeeded left at its default, True. *)
CloseFailedRunAsSuccess(c) == CloseRun(c, "close_failed", "completed", "release")

CloseCompletedRun(c) == CloseRun(c, "close_run", "completed", "send_completed")
CloseFailedRun(c)    == CloseRun(c, "close_failed", "failed", "release")

SendCompleted(c) ==
    /\ pc[c] = "send_completed"
    /\ Goto(c, "release")
    /\ UNCHANGED <<now, session, lease, storeVars, runs, copy, wall, seen,
                   abandoned, deleterVars>>

(* Variant: losing the peer interrupts the final pass as well. *)
DisconnectAnywhere(c) ==
    /\ pc[c] \in {"live", "store_bundle", "store_document", "send_completed"}
    /\ copy' = [copy EXCEPT ![c] = NewSession]
    /\ Goto(c, "close_failed")
    /\ UNCHANGED <<now, session, lease, storeVars, runs, wall, seen,
                   abandoned, deleterVars>>

(* The peer goes away while the handler waits for a message, or while it   *)
(* sends the closing event: both raise WebSocketDisconnect inside the same *)
(* try, which closes the run as failed.                                    *)
Disconnect(c) ==
    /\ pc[c] \in {"live", "send_completed"}
    /\ Goto(c, "close_failed")
    /\ UNCHANGED <<now, session, lease, storeVars, runs, copy, wall, seen,
                   abandoned, deleterVars>>

(* The finally clause deletes the lease key, whoever holds it by now. *)
ReleaseLease(c) ==
    /\ pc[c] = "release"
    /\ lease' = FALSE
    /\ Goto(c, "closed")
    /\ UNCHANGED <<now, session, storeVars, runs, copy, wall, seen, abandoned,
                   deleterVars>>

(* The handler ends before its time, holding whatever it held. *)
Ends(c, step) ==
    /\ Goto(c, step)
    /\ copy' = [copy EXCEPT ![c] = NewSession]
    /\ wall' = [wall EXCEPT ![c] = 0]
    /\ seen' = [seen EXCEPT ![c] = NewRow]
    /\ abandoned' = abandoned \cup (IF pc[c] \in MidCompletion THEN {c} ELSE {})
    /\ UNCHANGED <<now, session, lease, storeVars, runs, deleterVars>>

(* Any other exception: the store refuses the evidence, the manifest the   *)
(* taxonomy, a word the transcript, a socket the accepting event, or the   *)
(* database is gone.  It rolls its transaction back and unwinds to the     *)
(* finally clause; the run is not closed.                                  *)
Fail(c) == pc[c] \in Working \ {"release"} /\ Ends(c, "release")

(* The process dies: nothing is released, nothing is closed. *)
Crash(c) ==
    /\ pc[c] \in Working
    /\ Cardinality({x \in Conns : pc[x] = "dead"}) < MaxCrashes
    /\ Ends(c, "dead")

ClientStep(c) ==
    \/ AcquireLease(c) \/ SessionBusy(c)
    \/ LoadPause(c) \/ LoadResume(c) \/ LoadCompletion(c)
    \/ Disconnect(c)

ServerStep(c) ==
    \/ LoadBegin(c)
    \/ ApplyBegin(c) \/ ApplyPause(c) \/ ApplyResume(c) \/ ApplyCompletion(c)
    \/ SelectBegin(c) \/ SelectControl(c) \/ SelectCompleting(c) \/ SelectCompleted(c)
    \/ SaveBegin(c) \/ SaveControl(c) \/ SaveCompleting(c) \/ SaveCompleted(c)
    \/ OpenRun(c) \/ SendAccepted(c)
    \/ StoreBundle(c) \/ StoreDocument(c) \/ AuditCompletion(c)
    \/ CloseCompletedRun(c) \/ SendCompleted(c) \/ CloseFailedRun(c)
    \/ ReleaseLease(c)

(***************************************************************************)
(* DeleteEvidence.  Nothing in the service writes a media object, so the   *)
(* two calls on the media store are part of the purge step.                *)
(***************************************************************************)
DeleteGoto(d, step) == dpc' = [dpc EXCEPT ![d] = step]

DeleteLoad(d) ==
    /\ dpc[d] = "idle"
    /\ dcopy' = [dcopy EXCEPT ![d] = session]
    /\ DeleteGoto(d, IF session.state = "evidence_deleted"
                     THEN "already_deleted" ELSE "purge")
    /\ UNCHANGED <<now, session, lease, storeVars, handlerVars, dseen, removed>>

PurgeEvidence(d) ==
    /\ dpc[d] = "purge"
    /\ removed' = [removed EXCEPT ![d] = (bundles \cup {document.run}) \ {NoRun}]
    /\ bundles' = {}
    /\ document' = NoDocument
    /\ DeleteGoto(d, "clear")
    /\ UNCHANGED <<now, session, lease, audit, handlerVars, dcopy, dseen>>

(* StreamState.clear drops the lease key as well. *)
ClearStream(d) ==
    /\ dpc[d] = "clear"
    /\ lease' = FALSE
    /\ DeleteGoto(d, "mark")
    /\ UNCHANGED <<now, session, storeVars, handlerVars, dcopy, dseen, removed>>

(* mark_evidence_deleted, on the copy loaded before the purge; then the    *)
(* save, which reads the row again and writes what differs.                *)
MarkDeleted(d) ==
    /\ dpc[d] = "mark"
    /\ MayMarkEvidenceDeleted(dcopy[d])
    /\ dcopy' = [dcopy EXCEPT ![d] = MarkEvidenceDeleted(@)]
    /\ dseen' = [dseen EXCEPT ![d] = Row(session)]
    /\ DeleteGoto(d, "commit")
    /\ UNCHANGED <<now, session, lease, storeVars, handlerVars, removed>>

SaveDeleted(d) ==
    /\ dpc[d] = "commit"
    /\ session' = Merged(dseen[d], dcopy[d], session)
    /\ dcopy' = [dcopy EXCEPT ![d] = NewSession]
    /\ dseen' = [dseen EXCEPT ![d] = NewRow]
    /\ DeleteGoto(d, "audit")
    /\ UNCHANGED <<now, lease, storeVars, handlerVars, removed>>

(* mark_evidence_deleted raises: the caller is told the request failed. *)
RefuseDelete(d) ==
    /\ dpc[d] = "mark"
    /\ ~MayMarkEvidenceDeleted(dcopy[d])
    /\ dcopy' = [dcopy EXCEPT ![d] = NewSession]
    /\ DeleteGoto(d, "refused")
    /\ UNCHANGED <<now, session, lease, storeVars, handlerVars, dseen, removed>>

AuditDeletion(d) ==
    /\ dpc[d] = "audit"
    /\ audit' = audit \cup {d}
    /\ DeleteGoto(d, "done")
    /\ removed' = [removed EXCEPT ![d] = {}]
    /\ UNCHANGED <<now, session, lease, bundles, document, handlerVars, dcopy,
                   dseen>>

(* The request raises or its process dies, before the purge or after it. *)
FailDelete(d) ==
    /\ dpc[d] \in {"purge", "clear", "mark", "commit", "audit"}
    /\ DeleteGoto(d, IF dpc[d] = "purge" THEN "failed" ELSE "half_done")
    /\ dcopy' = [dcopy EXCEPT ![d] = NewSession]
    /\ dseen' = [dseen EXCEPT ![d] = NewRow]
    /\ removed' = [removed EXCEPT ![d] = {}]
    /\ UNCHANGED <<now, session, lease, storeVars, handlerVars>>

DeleteStep(d) ==
    \/ DeleteLoad(d) \/ PurgeEvidence(d) \/ ClearStream(d)
    \/ MarkDeleted(d) \/ SaveDeleted(d) \/ RefuseDelete(d) \/ AuditDeletion(d)
    \/ FailDelete(d)

(* stream_lease_ttl_seconds pass for Redis, whose time is not the host's,  *)
(* and nothing renews a lease: it may run out under the handler that holds *)
(* it, and does run out once that handler is dead.                         *)
ExpireLease ==
    /\ lease
    /\ LeaseExpires \/ \A c \in Conns : pc[c] \notin Working
    /\ lease' = FALSE
    /\ UNCHANGED <<now, session, storeVars, handlerVars, deleterVars>>

Tick ==
    /\ now < MaxTime
    /\ now' = now + 1
    /\ UNCHANGED <<session, lease, storeVars, handlerVars, deleterVars>>

Next ==
    \/ \E c \in Conns : ClientStep(c) \/ ServerStep(c) \/ Fail(c) \/ Crash(c)
    \/ \E d \in Deleters : DeleteStep(d)
    \/ ExpireLease
    \/ Tick

Spec == Init /\ [][Next]_vars

(* What the server owes: a handler that can take its next step takes it,   *)
(* unless it fails or its process dies.  Clients and DELETE requests owe   *)
(* nothing.                                                                *)
Fairness == \A c \in Conns : WF_vars(ServerStep(c))

FairSpec == Spec /\ Fairness

-----------------------------------------------------------------------------
(***************************************************************************)
(* Properties.                                                             *)
(***************************************************************************)

TypeOK ==
    /\ now \in Nat
    /\ session \in Sessions
    /\ lease \in BOOLEAN
    /\ runs \in [Conns -> {"none", "running", "completed", "failed"}]
    /\ bundles \subseteq Conns
    /\ document \in [run : Conns \cup {NoRun}, captured : Nat]
    /\ audit \subseteq Conns \cup Deleters
    /\ pc \in [Conns -> HandlerSteps]
    /\ copy \in [Conns -> Sessions]
    /\ wall \in [Conns -> Nat]
    /\ seen \in [Conns -> Rows]
    /\ dpc \in [Deleters -> DeleterSteps]
    /\ dcopy \in [Deleters -> Sessions]
    /\ dseen \in [Deleters -> Rows]
    /\ removed \in [Deleters -> SUBSET Conns]
    /\ abandoned \subseteq Conns

(* Stored evidence refers to a run that has been added: the foreign key    *)
(* the handler opens its run early for (handler.py, _run).                 *)
EvidenceHasRun ==
    \A c \in Conns : c \in bundles \/ document.run = c => runs[c] # "none"

Purged ==
    \E d \in Deleters : dpc[d] \notin {"idle", "already_deleted", "purge", "failed"}

(* "The evidence document is available for retrieval" (state.py): a reader *)
(* that finds the session completed finds its document, unless a deletion  *)
(* has purged it, whichever handlers raced to complete the session.        *)
CompletedIsReadable ==
    session.state = "completed" => document # NoDocument \/ Purged

(* A run recorded as completed is one whose completion was carried through *)
(* and audited, and whose bundle only a deletion can have removed.         *)
CompletedRunHasEvidence ==
    \A c \in Conns :
        runs[c] = "completed" => c \in audit /\ (c \in bundles \/ Purged)

(* A session does not stay in "completing" (complete_session.py): whatever *)
(* the other requests save in between, it leaves that state, unless a      *)
(* handler was stopped by an exception or by the death of its process      *)
(* between the two saves of a completion.                                  *)
CompletionFinishes ==
    session.state = "completing" ~> (session.state # "completing" \/ abandoned # {})

(* The rest holds only while the lease does its work: no deletion drops it *)
(* and it never expires under the handler that holds it.                   *)
LeaseOutlives == Deleters = {} /\ ~LeaseExpires

(* The processing lease gives a session one handler at a time              *)
(* (StreamingState: "mutable and single-owner").                           *)
SingleOwner ==
    \A c1, c2 \in Conns : pc[c1] \in Working /\ pc[c2] \in Working => c1 = c2

(* The stored session, and every aggregate a handler holds of it.          *)
Aggregates == {session} \cup {copy[c] : c \in Conns}

(* "The clock advances only while capture is running" (clock.py): it runs  *)
(* in exactly the sessions that are capturing, so no processing or paused  *)
(* time enters the denominator of a rate.  Without the lease two saves can *)
(* store the state of one aggregate and the clock of another.              *)
ClockMatchesState(s) == IsRunning(s.clock) <=> s.state = "capturing"
ClockRunsOnlyWhileCapturing == \A s \in Aggregates : ClockMatchesState(s)

(* "The value it reports is the sum of captured segments" (clock.py): over *)
(* any number of pauses, reconnections and crashes no aggregate claims     *)
(* more captured time than has passed since the session was created.       *)
WithinElapsed(s) == CapturedMs(s.clock, now) <= now
CapturedWithinElapsed == \A s \in Aggregates : WithinElapsed(s)

(* The document of a completed session reports the session's own captured  *)
(* duration, the denominator its rates were computed with.                 *)
DocumentMatchesSession ==
    session.state = "completed" => document.captured = session.clock.accumulated

(* A session is not completed twice (state.py). *)
CompletedOnce ==
    \A c1, c2 \in Conns : c1 \in audit /\ c2 \in audit => c1 = c2

(* The abstract session: a reader is told of a document once the stored    *)
(* session is completed.                                                   *)
Promise == INSTANCE SessionPromise WITH
    Runs     <- Conns,
    Nothing  <- NoDocument,
    stage    <- session.state,
    captured <- session.clock.accumulated,
    evidence <- bundles,
    report   <- IF session.state = "completed" THEN document ELSE NoDocument,
    recorded <- audit # {}

(* Handlers, connections that come and go, saves column by column, steps   *)
(* that raise and a process that dies together implement one session:      *)
(* nothing is stored before capture ends or after the completion, stopped  *)
(* captured time only grows, and the completed session keeps reporting one *)
(* document, whose evidence is stored (handler.py, complete_session.py).   *)
ImplementsPromise == Promise!Spec

-----------------------------------------------------------------------------
(***************************************************************************)
(* What the code's comments say and the code does not do.                  *)
(***************************************************************************)

(* state.py: "Terminal means terminal"; delete_evidence.py: a handler      *)
(* "cannot write more evidence into a session that has just been erased".  *)
(* Once a deletion is audited, the session is deleted and nothing is left. *)
DeletionIsFinal ==
    (\E d \in Deleters : dpc[d] = "done")
        => /\ session.state = "evidence_deleted"
           /\ bundles = {} /\ document = NoDocument

(* state.py: a delete that half-applies is unrepresentable.  A refused     *)
(* deletion has removed nothing.                                           *)
NoHalfAppliedDelete == \A d \in Deleters : dpc[d] = "refused" => removed[d] = {}

(* handler.py: "A dropped connection is not a failed session" and its      *)
(* evidence "stays valid".  Once a disconnected handler is gone and no     *)
(* other works on the session, a connection may begin again, or the        *)
(* evidence may at least be deleted.                                       *)
DroppedConnectionRecoverable ==
    (\A c \in Conns : pc[c] \notin Working) /\ (\E c \in Conns : runs[c] = "failed")
        => \/ MayBeginCapture(session)
           \/ MayMarkEvidenceDeleted(session)
           \/ session.state = "evidence_deleted"

=============================================================================
