------------------------ MODULE SessionServiceProofs ------------------------
(***************************************************************************)
(* Theorems about SessionService, for any set of connections and DELETE    *)
(* requests, any bound on the clock, and leases that may or may not expire *)
(* under their holder.                                                     *)
(***************************************************************************)
EXTENDS SessionService, TLAPS

-----------------------------------------------------------------------------
(* The aggregate's operations return aggregates. *)

LEMMA OperationsType ==
    ASSUME NEW s \in Sessions, NEW w \in Nat
    PROVE  /\ CapturedMs(s.clock, w) \in Nat
           /\ BeginCapture(s, w) \in Sessions
           /\ PauseCapture(s, w) \in Sessions
           /\ ResumeCapture(s, w) \in Sessions
           /\ RequestCompletion(s, w) \in Sessions
           /\ MarkCompleted(s) \in Sessions
           /\ MarkEvidenceDeleted(s) \in Sessions
  <1>1. s.clock \in Clock /\ CapturedMs(s.clock, w) \in Nat
    BY DEF Sessions, Clock, CapturedMs, IsRunning, Suspended
  <1>2. StartClock(s.clock, w) \in Clock
    BY <1>1 DEF Clock, StartClock, Suspended
  <1>3. PauseClock(s.clock, w) \in Clock
    BY <1>1 DEF Clock, PauseClock, Suspended
  <1>4. QED
    BY <1>1, <1>2, <1>3
       DEF Sessions, States, BeginCapture, PauseCapture, ResumeCapture,
           RequestCompletion, MarkCompleted, MarkEvidenceDeleted

LEMMA NewSessionType == NewSession \in Sessions /\ NewRow \in Rows
  BY DEF NewSession, NewRow, Row, Rows, Sessions, States, Clock, Suspended

(* What a save reads and writes. *)
LEMMA MergeType ==
    ASSUME NEW read \in Rows, NEW s \in Sessions, NEW stored \in Sessions
    PROVE  /\ Row(stored) \in Rows
           /\ Merged(read, s, stored) \in Sessions
           /\ Merged(read, s, stored).state \in {s.state, stored.state}
  BY DEF Rows, Row, Sessions, Clock, Merged, Written

(* A save that reads what is there when it commits stores its aggregate.   *)
LEMMA MergeUncontended ==
    ASSUME NEW s \in Sessions, NEW stored \in Sessions
    PROVE  Merged(Row(stored), s, stored) = s
  <1>1. s.clock = [accumulated |-> s.clock.accumulated, segment |-> s.clock.segment]
    BY DEF Sessions, Clock
  <1>2. s = [state |-> s.state, clock |-> s.clock, consent |-> s.consent]
    BY DEF Sessions
  <1>3. QED
    BY <1>1, <1>2 DEF Merged, Row, Written

-----------------------------------------------------------------------------
(* Every reachable state has the declared types: in particular a captured  *)
(* duration never becomes negative, whatever mixture of two aggregates     *)
(* overlapping saves leave.                                                *)
THEOREM TypeCorrect == Spec => []TypeOK
  <1>1. Init => TypeOK
    <2>1. Init => lease \in BOOLEAN
      BY DEF Init
    <2>2. "idle" \in HandlerSteps /\ "idle" \in DeleterSteps
      BY DEF HandlerSteps, DeleterSteps
    <2>3. QED
      BY <2>1, <2>2, NewSessionType DEF Init, TypeOK, NoDocument
  <1>2. TypeOK /\ [Next]_vars => TypeOK'
    <2> SUFFICES ASSUME TypeOK, [Next]_vars PROVE TypeOK'
      OBVIOUS
    <2> USE BoundsAssumption, NewSessionType DEF TypeOK, Goto, DeleteGoto
    <2>a. /\ {"begin", "apply_begin", "apply_pause", "apply_resume",
              "apply_completion", "save_begin", "save_control", "save_completing",
              "save_completed", "commit_begin", "commit_control",
              "commit_completing", "commit_completed", "open_run", "accept",
              "live", "store_bundle", "store_document", "audit", "close_run",
              "send_completed", "close_failed", "release", "busy", "closed",
              "dead"} \subseteq HandlerSteps
      BY DEF HandlerSteps, Working, Loading, Applying, Selecting, Committing
    <2>1. CASE UNCHANGED vars
      BY <2>1 DEF vars, storeVars, handlerVars, deleterVars
    (* The steps of a handler that load, apply, select, save and end. *)
    <2>2. ASSUME NEW c \in Conns, NEW next \in HandlerSteps, Load(c, next)
          PROVE  TypeOK'
      BY <2>2 DEF Load, storeVars, deleterVars
    <2>3. ASSUME NEW c \in Conns, NEW step, NEW may, NEW result \in Sessions,
                 NEW next \in HandlerSteps, Apply(c, step, may, result, next),
                 wall' \in [Conns -> Nat]
          PROVE  TypeOK'
      BY <2>3, <2>a DEF Apply, storeVars, deleterVars
    <2>4. ASSUME NEW c \in Conns, NEW step, NEW next \in HandlerSteps,
                 SelectRow(c, step, next)
          PROVE  TypeOK'
      BY <2>4, MergeType DEF SelectRow, storeVars, deleterVars
    <2>5. ASSUME NEW c \in Conns, NEW step, NEW kept \in Sessions,
                 NEW next \in HandlerSteps, Save(c, step, kept, next)
          PROVE  TypeOK'
      <3>1. Merged(seen[c], copy[c], session) \in Sessions
        BY MergeType
      <3>2. QED
        BY <2>5, <3>1 DEF Save, storeVars, deleterVars
    <2>6. ASSUME NEW c \in Conns, NEW next \in HandlerSteps, Ends(c, next)
          PROVE  TypeOK'
      BY <2>6 DEF Ends, storeVars, deleterVars
    <2>7. ASSUME NEW c \in Conns
          PROVE  /\ Loaded(c) \in Sessions
                 /\ BeginCapture(Loaded(c), now) \in Sessions
                 /\ PauseCapture(Loaded(c), now) \in Sessions
                 /\ ResumeCapture(Loaded(c), now) \in Sessions
                 /\ RequestCompletion(Loaded(c), now) \in Sessions
      <3>1. Loaded(c) \in Sessions
        BY DEF Loaded, Sessions
      <3>2. QED
        BY <3>1, OperationsType
    <2>8. ASSUME NEW c \in Conns, ClientStep(c) PROVE TypeOK'
      <3>1. CASE AcquireLease(c) \/ SessionBusy(c)
        BY <3>1, <2>a DEF AcquireLease, SessionBusy, storeVars, deleterVars
      <3>2. CASE LoadPause(c) \/ LoadResume(c) \/ LoadCompletion(c)
        BY <3>2, <2>a, <2>2 DEF LoadPause, LoadResume, LoadCompletion
      <3>3. CASE Disconnect(c)
        BY <3>3, <2>a DEF Disconnect, storeVars, deleterVars
      <3>4. QED
        BY <2>8, <3>1, <3>2, <3>3 DEF ClientStep
    <2>9. ASSUME NEW c \in Conns, ServerStep(c) PROVE TypeOK'
      <3>1. CASE LoadBegin(c)
        BY <3>1, <2>a, <2>2 DEF LoadBegin
      <3>2. CASE ApplyBegin(c)
        BY <3>2, <2>a, <2>3, <2>7 DEF ApplyBegin
      <3>3. CASE ApplyPause(c)
        BY <3>3, <2>a, <2>3, <2>7 DEF ApplyPause
      <3>4. CASE ApplyResume(c)
        BY <3>4, <2>a, <2>3, <2>7 DEF ApplyResume
      <3>5. CASE ApplyCompletion(c)
        BY <3>5, <2>a, <2>3, <2>7 DEF ApplyCompletion
      <3>6. CASE SelectBegin(c) \/ SelectControl(c) \/ SelectCompleting(c)
                   \/ SelectCompleted(c)
        BY <3>6, <2>a, <2>4 DEF SelectBegin, SelectControl, SelectCompleting,
                                SelectCompleted
      <3>7. CASE SaveBegin(c) \/ SaveControl(c) \/ SaveCompleting(c)
                   \/ SaveCompleted(c)
        BY <3>7, <2>a, <2>5 DEF SaveBegin, SaveControl, SaveCompleting, SaveCompleted
      <3>8. CASE OpenRun(c) \/ SendAccepted(c)
        BY <3>8, <2>a DEF OpenRun, SendAccepted, storeVars, deleterVars
      <3>9. CASE StoreBundle(c)
        BY <3>9, <2>a DEF StoreBundle, deleterVars
      <3>10. CASE StoreDocument(c)
        BY <3>10, <2>a, OperationsType DEF StoreDocument, deleterVars
      <3>11. CASE AuditCompletion(c)
        BY <3>11, <2>a DEF AuditCompletion, deleterVars
      <3>12. CASE CloseCompletedRun(c) \/ CloseFailedRun(c)
        BY <3>12, <2>a DEF CloseCompletedRun, CloseFailedRun, CloseRun, storeVars,
                           deleterVars
      <3>13. CASE SendCompleted(c) \/ ReleaseLease(c)
        BY <3>13, <2>a DEF SendCompleted, ReleaseLease, storeVars, deleterVars
      <3>14. QED
        BY <2>9, <3>1, <3>2, <3>3, <3>4, <3>5, <3>6, <3>7, <3>8, <3>9, <3>10,
           <3>11, <3>12, <3>13 DEF ServerStep
    <2>10. ASSUME NEW c \in Conns, Fail(c) \/ Crash(c) PROVE TypeOK'
      BY <2>10, <2>a, <2>6 DEF Fail, Crash
    <2>11. ASSUME NEW d \in Deleters, DeleteStep(d) PROVE TypeOK'
      <3> USE DEF DeleterSteps
      <3>1. CASE DeleteLoad(d)
        BY <3>1 DEF DeleteLoad, storeVars, handlerVars
      <3>2. CASE PurgeEvidence(d)
        BY <3>2 DEF PurgeEvidence, NoDocument, handlerVars
      <3>3. CASE ClearStream(d)
        BY <3>3 DEF ClearStream, storeVars, handlerVars
      <3>4. CASE MarkDeleted(d)
        BY <3>4, MergeType, OperationsType DEF MarkDeleted, storeVars, handlerVars
      <3>5. CASE SaveDeleted(d)
        <4>1. Merged(dseen[d], dcopy[d], session) \in Sessions
          BY MergeType
        <4>2. QED
          BY <3>5, <4>1 DEF SaveDeleted, storeVars, handlerVars
      <3>6. CASE RefuseDelete(d)
        BY <3>6 DEF RefuseDelete, storeVars, handlerVars
      <3>7. CASE AuditDeletion(d)
        BY <3>7 DEF AuditDeletion, handlerVars
      <3>8. CASE FailDelete(d)
        BY <3>8 DEF FailDelete, storeVars, handlerVars
      <3>9. QED
        BY <2>11, <3>1, <3>2, <3>3, <3>4, <3>5, <3>6, <3>7, <3>8 DEF DeleteStep
    <2>12. CASE ExpireLease
      BY <2>12 DEF ExpireLease, storeVars, handlerVars, deleterVars
    <2>13. CASE Tick
      BY <2>13 DEF Tick, storeVars, handlerVars, deleterVars
    <2>14. QED
      BY <2>1, <2>8, <2>9, <2>10, <2>11, <2>12, <2>13 DEF Next
  <1>3. QED
    BY <1>1, <1>2, PTL DEF Spec

-----------------------------------------------------------------------------
(***************************************************************************)
(* Evidence and runs.  The invariants are carried by the handler's place   *)
(* in its completion: what it has opened, stored and audited by then.      *)
(***************************************************************************)
Kept(c) == c \in bundles \/ Purged

(* The steps of a handler whose run is open. *)
Opened == {"accept", "live", "apply_pause", "apply_resume", "apply_completion",
           "save_control", "commit_control", "save_completing",
           "commit_completing", "store_bundle", "store_document"}

Provenance ==
    /\ \A c \in Conns :
          /\ pc[c] \in Opened => runs[c] # "none"
          /\ c \in bundles \/ document.run = c => runs[c] # "none"
          /\ pc[c] \in {"store_document", "save_completed", "commit_completed",
                        "audit", "close_run"} => Kept(c)
          /\ pc[c] = "close_run" => c \in audit
          /\ runs[c] = "completed" => c \in audit /\ Kept(c)
          /\ copy[c].state = "completed" => document # NoDocument \/ Purged
    /\ \A d \in Deleters : dpc[d] = "commit" => dcopy[d].state = "evidence_deleted"
    /\ session.state = "completed" => document # NoDocument \/ Purged

LEMMA InitProvenance == Init => Provenance
  BY NoRunAssumption DEF Init, Provenance, Opened, NewSession, NoDocument

(* A purge that has happened stays happened. *)
LEMMA PurgedForever == TypeOK /\ Purged /\ [Next]_vars => Purged'
  <1> SUFFICES ASSUME TypeOK, Purged, [Next]_vars PROVE Purged'
    OBVIOUS
  <1>1. PICK e \in Deleters : dpc[e] \notin {"idle", "already_deleted", "purge", "failed"}
    BY DEF Purged
  <1>2. dpc' = dpc \/ \E d \in Deleters : DeleteStep(d)
    <2>1. ASSUME NEW c \in Conns, ClientStep(c) PROVE dpc' = dpc
      BY <2>1 DEF ClientStep, AcquireLease, SessionBusy, LoadPause, LoadResume,
                  LoadCompletion, Load, Disconnect, deleterVars
    <2>2. ASSUME NEW c \in Conns, ServerStep(c) PROVE dpc' = dpc
      BY <2>2
         DEF ServerStep, LoadBegin, Load, ApplyBegin, ApplyPause, ApplyResume,
             ApplyCompletion, Apply, SelectBegin, SelectControl,
             SelectCompleting, SelectCompleted, SelectRow, SaveBegin,
             SaveControl, SaveCompleting, SaveCompleted, Save, OpenRun,
             SendAccepted, StoreBundle, StoreDocument, AuditCompletion,
             CloseCompletedRun, CloseFailedRun, CloseRun, SendCompleted,
             ReleaseLease, deleterVars
    <2>3. QED
      BY <2>1, <2>2 DEF Next, vars, Fail, Crash, Ends, ExpireLease, Tick, deleterVars
  <1>3. dpc'[e] \notin {"idle", "already_deleted", "purge", "failed"}
    BY <1>1, <1>2
       DEF TypeOK, DeleteLoad, DeleteStep, PurgeEvidence, ClearStream, MarkDeleted,
           SaveDeleted, RefuseDelete, AuditDeletion, FailDelete, DeleteGoto
  <1>4. QED
    BY <1>3 DEF Purged

LEMMA NextProvenance == TypeOK /\ Provenance /\ [Next]_vars => Provenance'
  <1> SUFFICES ASSUME TypeOK, Provenance, [Next]_vars PROVE Provenance'
    OBVIOUS
  <1>0. /\ pc \in [Conns -> HandlerSteps] /\ copy \in [Conns -> Sessions]
        /\ runs \in [Conns -> {"none", "running", "completed", "failed"}]
        /\ session \in Sessions /\ bundles \subseteq Conns
        /\ seen \in [Conns -> Rows]
        /\ dpc \in [Deleters -> DeleterSteps] /\ dcopy \in [Deleters -> Sessions]
        /\ dseen \in [Deleters -> Rows]
    BY DEF TypeOK
  <1>p. Purged => Purged'
    BY PurgedForever
  <1>q. NewSession.state # "completed"
    BY DEF NewSession
  <1> USE <1>0, <1>p, <1>q, NoRunAssumption DEF Provenance, Kept, Opened, Goto
  (* Steps of a handler that store nothing and put an aggregate that is not  *)
  (* completed, or that was read just now, in its copy.                      *)
  <1>1. ASSUME NEW c \in Conns, NEW s, NEW step,
               pc' = [pc EXCEPT ![c] = step], copy' = [copy EXCEPT ![c] = s],
               step \in Opened => runs[c] # "none",
               step \notin {"store_document", "save_completed", "commit_completed",
                           "audit", "close_run"},
               s.state = "completed" => document # NoDocument \/ Purged,
               UNCHANGED <<session, storeVars, runs, dpc, dcopy>>
        PROVE  Provenance'
    BY <1>1 DEF storeVars
  <1>2. ASSUME NEW c \in Conns, NEW step, NEW may, NEW result, NEW next,
               Apply(c, step, may, result, next), result.state # "completed",
               next \in {"save_begin", "save_control", "save_completing"},
               next # "save_begin" => step \in Opened
        PROVE  Provenance'
    <2>1. CASE copy' = [copy EXCEPT ![c] = NewSession] /\ pc' = [pc EXCEPT ![c] = "release"]
      BY <1>2, <2>1, <1>1 DEF Apply, deleterVars
    <2>2. CASE copy' = [copy EXCEPT ![c] = result] /\ pc' = [pc EXCEPT ![c] = next]
      <3>1. next \in Opened => runs[c] # "none"
        BY <1>2 DEF Apply
      <3>2. QED
        BY <1>2, <2>2, <3>1, <1>1 DEF Apply, deleterVars
    <2>3. QED
      BY <1>2, <2>1, <2>2 DEF Apply
  <1>3. ASSUME NEW c \in Conns
        PROVE  /\ BeginCapture(Loaded(c), now).state # "completed"
               /\ PauseCapture(Loaded(c), now).state # "completed"
               /\ ResumeCapture(Loaded(c), now).state # "completed"
               /\ RequestCompletion(Loaded(c), now).state # "completed"
    <2>1. Loaded(c) \in Sessions
      BY DEF Loaded, Sessions
    <2>2. QED
      BY <2>1 DEF Sessions, BeginCapture, PauseCapture, ResumeCapture, RequestCompletion
  (* A save that keeps what the use case goes on with. *)
  <1>4. ASSUME NEW c \in Conns, NEW step, NEW kept, NEW next,
               Save(c, step, kept, next), kept \in {NewSession, copy[c]},
               next \in Opened => runs[c] # "none",
               next # "store_document", next \notin {"save_completed", "commit_completed",
                                                   "close_run"},
               next = "audit" => Kept(c)
        PROVE  Provenance'
    <2>1. session'.state = "completed" => document # NoDocument \/ Purged
      <3>1. session'.state \in {copy[c].state, session.state}
        BY <1>4, MergeType DEF Save
      <3>2. QED
        BY <3>1
    <2>2. QED
      BY <1>4, <2>1 DEF Save, storeVars, deleterVars
  <1>5. ASSUME NEW c \in Conns, ClientStep(c) PROVE Provenance'
    <2>1. CASE AcquireLease(c) \/ SessionBusy(c) \/ Disconnect(c)
      BY <2>1 DEF AcquireLease, SessionBusy, Disconnect, storeVars, deleterVars
    <2>2. CASE LoadPause(c) \/ LoadResume(c) \/ LoadCompletion(c)
      <3>1. PICK next \in {"apply_pause", "apply_resume", "apply_completion"} :
                pc[c] = "live" /\ Load(c, next)
        BY <2>2 DEF LoadPause, LoadResume, LoadCompletion
      <3>2. QED
        BY <3>1, <1>1 DEF Load, deleterVars
    <2>3. QED
      BY <1>5, <2>1, <2>2 DEF ClientStep
  <1>6. ASSUME NEW c \in Conns, ServerStep(c) PROVE Provenance'
    <2>1. CASE LoadBegin(c)
      BY <2>1, <1>1 DEF LoadBegin, Load, deleterVars
    <2>2. CASE ApplyBegin(c)
      BY <2>2, <1>2, <1>3 DEF ApplyBegin
    <2>3. CASE ApplyPause(c)
      BY <2>3, <1>2, <1>3 DEF ApplyPause
    <2>4. CASE ApplyResume(c)
      BY <2>4, <1>2, <1>3 DEF ApplyResume
    <2>5. CASE ApplyCompletion(c)
      BY <2>5, <1>2, <1>3 DEF ApplyCompletion
    <2>6. CASE SelectBegin(c) \/ SelectControl(c) \/ SelectCompleting(c)
                 \/ SelectCompleted(c)
      BY <2>6 DEF SelectBegin, SelectControl, SelectCompleting, SelectCompleted,
                  SelectRow, storeVars, deleterVars
    <2>7. CASE SaveBegin(c)
      BY <2>7, <1>4 DEF SaveBegin
    <2>8. CASE SaveControl(c)
      <3>1. runs[c] # "none"
        BY <2>8 DEF SaveControl, Save
      <3>2. QED
        BY <2>8, <3>1, <1>4 DEF SaveControl
    <2>9. CASE SaveCompleting(c)
      <3>1. runs[c] # "none"
        BY <2>9 DEF SaveCompleting, Save
      <3>2. QED
        BY <2>9, <3>1, <1>4 DEF SaveCompleting
    <2>10. CASE SaveCompleted(c)
      <3>1. Kept(c)
        BY <2>10 DEF SaveCompleted, Save
      <3>2. QED
        BY <2>10, <3>1, <1>4 DEF SaveCompleted
    <2>11. CASE OpenRun(c) \/ SendAccepted(c)
      BY <2>11 DEF OpenRun, SendAccepted, storeVars, deleterVars
    <2>12. CASE StoreBundle(c)
      BY <2>12 DEF StoreBundle, deleterVars
    <2>13. CASE StoreDocument(c)
      BY <2>13 DEF StoreDocument, NoDocument, deleterVars
    <2>14. CASE AuditCompletion(c)
      BY <2>14 DEF AuditCompletion, deleterVars
    <2>15. CASE CloseCompletedRun(c) \/ CloseFailedRun(c)
      BY <2>15 DEF CloseCompletedRun, CloseFailedRun, CloseRun, storeVars, deleterVars
    <2>16. CASE SendCompleted(c) \/ ReleaseLease(c)
      BY <2>16 DEF SendCompleted, ReleaseLease, storeVars, deleterVars
    <2>17. QED
      BY <1>6, <2>1, <2>2, <2>3, <2>4, <2>5, <2>6, <2>7, <2>8, <2>9, <2>10, <2>11,
         <2>12, <2>13, <2>14, <2>15, <2>16 DEF ServerStep
  <1>7. ASSUME NEW c \in Conns, Fail(c) \/ Crash(c) PROVE Provenance'
    BY <1>7, <1>1 DEF Fail, Crash, Ends, deleterVars
  <1>8. ASSUME NEW d \in Deleters, DeleteStep(d) PROVE Provenance'
    <2> USE DEF DeleteGoto, DeleterSteps
    <2>1. CASE DeleteLoad(d)
      BY <2>1 DEF DeleteLoad, storeVars, handlerVars
    <2>2. CASE PurgeEvidence(d)
      <3>1. Purged'
        BY <2>2 DEF PurgeEvidence, Purged
      <3>2. QED
        BY <2>2, <3>1 DEF PurgeEvidence, NoDocument, handlerVars
    <2>3. CASE ClearStream(d) \/ RefuseDelete(d)
      BY <2>3 DEF ClearStream, RefuseDelete, storeVars, handlerVars
    <2>4. CASE MarkDeleted(d)
      BY <2>4 DEF MarkDeleted, MarkEvidenceDeleted, Sessions, storeVars, handlerVars
    <2>5. CASE SaveDeleted(d)
      <3>1. session'.state \in {"evidence_deleted", session.state}
        BY <2>5, MergeType DEF SaveDeleted
      <3>2. QED
        BY <2>5, <3>1 DEF SaveDeleted, storeVars, handlerVars
    <2>6. CASE AuditDeletion(d)
      BY <2>6 DEF AuditDeletion, handlerVars
    <2>7. CASE FailDelete(d)
      BY <2>7 DEF FailDelete, storeVars, handlerVars
    <2>8. QED
      BY <1>8, <2>1, <2>2, <2>3, <2>4, <2>5, <2>6, <2>7 DEF DeleteStep
  <1>9. CASE ExpireLease \/ Tick
    BY <1>9 DEF ExpireLease, Tick, storeVars, handlerVars, deleterVars
  <1>10. CASE UNCHANGED vars
    BY <1>10 DEF vars, storeVars, handlerVars, deleterVars
  <1>11. QED
    BY <1>5, <1>6, <1>7, <1>8, <1>9, <1>10 DEF Next

LEMMA AlwaysProvenance == Spec => []Provenance
  BY InitProvenance, NextProvenance, TypeCorrect, PTL DEF Spec

(* Evidence never precedes the run it refers to. *)
THEOREM EvidenceFollowsRun == Spec => []EvidenceHasRun
  <1>1. Provenance => EvidenceHasRun
    BY DEF Provenance, EvidenceHasRun
  <1>2. QED
    BY <1>1, AlwaysProvenance, PTL

(* A completed session can be read, whichever handler completed it. *)
THEOREM CompletedMeansReadable == Spec => []CompletedIsReadable
  <1>1. Provenance => CompletedIsReadable
    BY DEF Provenance, CompletedIsReadable
  <1>2. QED
    BY <1>1, AlwaysProvenance, PTL

(* A run is only recorded as completed after its evidence and its audit. *)
THEOREM CompletedRunIsBacked == Spec => []CompletedRunHasEvidence
  <1>1. Provenance => CompletedRunHasEvidence
    BY DEF Provenance, Kept, CompletedRunHasEvidence
  <1>2. QED
    BY <1>1, AlwaysProvenance, PTL

-----------------------------------------------------------------------------
(***************************************************************************)
(* What the lease buys.  As long as no deletion drops it and it does not   *)
(* expire under its holder (LeaseOutlives), there is one handler at a      *)
(* time; then what a save reads is still there when it commits, and it     *)
(* overwrites nothing but the aggregate it was computed from.              *)
(***************************************************************************)
LeaseHeld ==
    /\ \A c \in Conns : pc[c] \in Working => lease
    /\ SingleOwner

LEMMA InitLeaseHeld == Init => LeaseHeld
  <1>1. "idle" \notin Working
    BY DEF Working, Loading, Applying, Selecting, Committing
  <1>2. QED
    BY <1>1 DEF Init, LeaseHeld, SingleOwner

(* Where a handler goes within its stream, and where it leaves it. *)
LEMMA WorkingSteps ==
    /\ {"begin", "apply_begin", "apply_pause", "apply_resume", "apply_completion",
        "save_begin", "save_control", "save_completing", "save_completed",
        "commit_begin", "commit_control", "commit_completing", "commit_completed",
        "open_run", "accept", "live", "store_bundle", "store_document", "audit",
        "close_run", "send_completed", "close_failed", "release"} \subseteq Working
    /\ {"idle", "busy", "closed", "dead"} \cap Working = {}
  BY DEF Working, Loading, Applying, Selecting, Committing

(* Every step of a handler that has the lease starts and, unless it is the *)
(* last, ends within its stream.                                           *)
LEMMA ServerStepWorks ==
    ASSUME NEW c \in Conns, ServerStep(c)
    PROVE  /\ pc[c] \in Working /\ UNCHANGED <<now, deleterVars>>
           /\ \E step \in Working \cup {"closed"} :
                 /\ pc' = [pc EXCEPT ![c] = step]
                 /\ IF step = "closed" THEN lease' = FALSE ELSE lease' = lease
  <1> USE WorkingSteps DEF Goto
  <1>1. CASE LoadBegin(c)
    BY <1>1 DEF LoadBegin, Load
  <1>2. CASE ApplyBegin(c) \/ ApplyPause(c) \/ ApplyResume(c) \/ ApplyCompletion(c)
    BY <1>2 DEF ApplyBegin, ApplyPause, ApplyResume, ApplyCompletion, Apply
  <1>3. CASE SelectBegin(c) \/ SelectControl(c) \/ SelectCompleting(c)
               \/ SelectCompleted(c)
    BY <1>3 DEF SelectBegin, SelectControl, SelectCompleting, SelectCompleted,
                SelectRow
  <1>4. CASE SaveBegin(c) \/ SaveControl(c) \/ SaveCompleting(c) \/ SaveCompleted(c)
    BY <1>4 DEF SaveBegin, SaveControl, SaveCompleting, SaveCompleted, Save
  <1>5. CASE OpenRun(c) \/ SendAccepted(c) \/ StoreBundle(c) \/ StoreDocument(c)
    BY <1>5 DEF OpenRun, SendAccepted, StoreBundle, StoreDocument
  <1>6. CASE AuditCompletion(c) \/ CloseCompletedRun(c) \/ CloseFailedRun(c)
               \/ SendCompleted(c)
    BY <1>6 DEF AuditCompletion, CloseCompletedRun, CloseFailedRun, CloseRun,
                SendCompleted
  <1>7. CASE ReleaseLease(c)
    BY <1>7 DEF ReleaseLease
  <1>8. QED
    BY <1>1, <1>2, <1>3, <1>4, <1>5, <1>6, <1>7 DEF ServerStep

LEMMA NextLeaseHeld ==
    ASSUME LeaseOutlives
    PROVE  TypeOK /\ LeaseHeld /\ [Next]_vars => LeaseHeld'
  <1> SUFFICES ASSUME TypeOK, LeaseHeld, [Next]_vars PROVE LeaseHeld'
    OBVIOUS
  <1>0. pc \in [Conns -> HandlerSteps]
    BY DEF TypeOK
  <1> USE <1>0, WorkingSteps DEF LeaseHeld, SingleOwner, Goto
  (* A step of the handler that holds the lease. *)
  <1>1. ASSUME NEW c \in Conns, pc[c] \in Working, NEW step,
               pc' = [pc EXCEPT ![c] = step],
               IF step = "closed" THEN lease' = FALSE ELSE lease' = lease
        PROVE  LeaseHeld'
    BY <1>1
  <1>2. ASSUME NEW c \in Conns, ClientStep(c) PROVE LeaseHeld'
    <2>1. CASE AcquireLease(c)
      <3>1. \A x \in Conns : pc[x] \notin Working
        BY <2>1 DEF AcquireLease
      <3>2. QED
        BY <2>1, <3>1 DEF AcquireLease
    <2>2. CASE SessionBusy(c)
      BY <2>2 DEF SessionBusy
    <2>3. CASE LoadPause(c) \/ LoadResume(c) \/ LoadCompletion(c) \/ Disconnect(c)
      <3>1. \E step \in {"apply_pause", "apply_resume", "apply_completion",
                         "close_failed"} : pc' = [pc EXCEPT ![c] = step]
        BY <2>3 DEF LoadPause, LoadResume, LoadCompletion, Load, Disconnect
      <3>2. lease' = lease /\ pc[c] \in Working
        BY <2>3 DEF LoadPause, LoadResume, LoadCompletion, Load, Disconnect
      <3>3. QED
        BY <3>1, <3>2, <1>1
    <2>4. QED
      BY <1>2, <2>1, <2>2, <2>3 DEF ClientStep
  <1>3. ASSUME NEW c \in Conns, ServerStep(c) PROVE LeaseHeld'
    BY <1>3, <1>1, ServerStepWorks
  <1>4. ASSUME NEW c \in Conns, Fail(c) \/ Crash(c) PROVE LeaseHeld'
    <2>1. /\ pc[c] \in Working /\ lease' = lease
          /\ pc' = [pc EXCEPT ![c] = "release"] \/ pc' = [pc EXCEPT ![c] = "dead"]
      BY <1>4 DEF Fail, Crash, Ends
    <2>2. QED
      BY <2>1, <1>1
  <1>5. CASE ExpireLease
    BY <1>5 DEF ExpireLease, LeaseOutlives, handlerVars
  <1>6. CASE Tick \/ UNCHANGED vars
    BY <1>6 DEF Tick, vars, handlerVars
  <1>7. QED
    BY <1>2, <1>3, <1>4, <1>5, <1>6 DEF Next, LeaseOutlives

(* One handler at a time, whatever the number of clients that reconnect.   *)
THEOREM LeaseGivesSingleOwner ==
    ASSUME LeaseOutlives
    PROVE  Spec => []SingleOwner
  <1>1. TypeOK /\ LeaseHeld /\ [Next]_vars => LeaseHeld'
    BY NextLeaseHeld
  <1>2. LeaseHeld => SingleOwner
    BY DEF LeaseHeld
  <1>3. QED
    BY <1>1, <1>2, InitLeaseHeld, TypeCorrect, PTL DEF Spec

(***************************************************************************)
(* Nothing comes between the reads of the one handler and its writes: the  *)
(* row it loaded, and later the row its save compares with, is stored.     *)
(***************************************************************************)
Undisturbed(c) ==
    /\ pc[c] \in Applying => copy[c] = session
    /\ pc[c] \in Committing => seen[c] = Row(session)

LEMMA StepsOfUndisturbed ==
    /\ {"open_run", "accept", "live", "store_bundle", "store_document", "audit",
        "close_run", "send_completed", "close_failed", "release", "begin",
        "save_begin", "save_control", "save_completing", "save_completed", "idle",
        "busy", "closed", "dead"} \cap (Applying \cup Committing) = {}
    /\ Applying \cap Committing = {}
    /\ Applying \cup Committing \subseteq Working
  BY DEF Applying, Committing, Working

LEMMA NextUndisturbed ==
    ASSUME LeaseOutlives
    PROVE  TypeOK /\ SingleOwner /\ (\A c \in Conns : Undisturbed(c)) /\ [Next]_vars
             => (\A c \in Conns : Undisturbed(c))'
  <1> SUFFICES ASSUME TypeOK, SingleOwner, \A c \in Conns : Undisturbed(c),
                      [Next]_vars, NEW x \in Conns
               PROVE  Undisturbed(x)'
    OBVIOUS
  <1>0. /\ pc \in [Conns -> HandlerSteps] /\ copy \in [Conns -> Sessions]
        /\ seen \in [Conns -> Rows]
    BY DEF TypeOK
  <1> USE <1>0, StepsOfUndisturbed DEF Undisturbed, Goto
  (* Steps that leave the stored session alone. *)
  <1>1. ASSUME NEW c \in Conns, NEW step, pc' = [pc EXCEPT ![c] = step],
               session' = session,
               \A y \in Conns \ {c} : copy'[y] = copy[y] /\ seen'[y] = seen[y],
               step \in Applying => copy'[c] = session,
               step \in Committing => seen'[c] = Row(session)
        PROVE  Undisturbed(x)'
    BY <1>1
  (* A save: no other handler has read anything. *)
  <1>2. ASSUME NEW c \in Conns, pc[c] \in Committing, NEW step,
               pc' = [pc EXCEPT ![c] = step], step \notin Applying \cup Committing
        PROVE  Undisturbed(x)'
    BY <1>2 DEF SingleOwner
  <1>3. ASSUME NEW c \in Conns, ClientStep(c) PROVE Undisturbed(x)'
    <2>1. CASE AcquireLease(c) \/ SessionBusy(c) \/ Disconnect(c)
      BY <2>1, <1>1 DEF AcquireLease, SessionBusy, Disconnect
    <2>2. CASE LoadPause(c) \/ LoadResume(c) \/ LoadCompletion(c)
      <3>1. PICK step \in {"apply_pause", "apply_resume", "apply_completion"} :
                Load(c, step)
        BY <2>2 DEF LoadPause, LoadResume, LoadCompletion
      <3>2. step \in Applying
        BY DEF Applying
      <3>3. QED
        BY <3>1, <3>2, <1>1 DEF Load
    <2>3. QED
      BY <1>3, <2>1, <2>2 DEF ClientStep
  <1>4. ASSUME NEW c \in Conns, ServerStep(c) PROVE Undisturbed(x)'
    <2>1. CASE LoadBegin(c)
      BY <2>1, <1>1 DEF LoadBegin, Load, Applying
    <2>2. CASE ApplyBegin(c) \/ ApplyPause(c) \/ ApplyResume(c) \/ ApplyCompletion(c)
      <3>1. /\ \E step \in {"save_begin", "save_control", "save_completing", "release"} :
                  pc' = [pc EXCEPT ![c] = step]
            /\ session' = session /\ seen' = seen
            /\ \A y \in Conns \ {c} : copy'[y] = copy[y]
        BY <2>2 DEF ApplyBegin, ApplyPause, ApplyResume, ApplyCompletion, Apply
      <3>2. QED
        BY <3>1, <1>1
    <2>3. CASE SelectBegin(c) \/ SelectControl(c) \/ SelectCompleting(c)
                 \/ SelectCompleted(c)
      <3>1. \E step \in Committing : pc' = [pc EXCEPT ![c] = step]
        BY <2>3 DEF SelectBegin, SelectControl, SelectCompleting, SelectCompleted,
                    SelectRow, Committing
      <3>2. /\ seen' = [seen EXCEPT ![c] = Row(session)]
            /\ session' = session /\ copy' = copy
        BY <2>3 DEF SelectBegin, SelectControl, SelectCompleting, SelectCompleted,
                    SelectRow
      <3>3. QED
        BY <3>1, <3>2, <1>1
    <2>4. CASE SaveBegin(c) \/ SaveControl(c) \/ SaveCompleting(c) \/ SaveCompleted(c)
      <3>1. /\ pc[c] \in Committing
            /\ \E step \in {"open_run", "live", "store_bundle", "audit"} :
                  pc' = [pc EXCEPT ![c] = step]
        BY <2>4 DEF SaveBegin, SaveControl, SaveCompleting, SaveCompleted, Save,
                    Committing
      <3>2. QED
        BY <3>1, <1>2
    <2>5. CASE OpenRun(c) \/ SendAccepted(c) \/ StoreBundle(c) \/ AuditCompletion(c)
      BY <2>5, <1>1 DEF OpenRun, SendAccepted, StoreBundle, AuditCompletion
    <2>6. CASE StoreDocument(c)
      BY <2>6, <1>1 DEF StoreDocument
    <2>7. CASE CloseCompletedRun(c) \/ CloseFailedRun(c) \/ SendCompleted(c)
                 \/ ReleaseLease(c)
      BY <2>7, <1>1 DEF CloseCompletedRun, CloseFailedRun, CloseRun, SendCompleted,
                        ReleaseLease
    <2>8. QED
      BY <1>4, <2>1, <2>2, <2>3, <2>4, <2>5, <2>6, <2>7 DEF ServerStep
  <1>5. ASSUME NEW c \in Conns, Fail(c) \/ Crash(c) PROVE Undisturbed(x)'
    BY <1>5, <1>1 DEF Fail, Crash, Ends
  <1>6. CASE ExpireLease \/ Tick \/ UNCHANGED vars
    BY <1>6 DEF ExpireLease, Tick, vars, handlerVars
  <1>7. QED
    BY <1>3, <1>4, <1>5, <1>6 DEF Next, LeaseOutlives

LEMMA AlwaysUndisturbed ==
    ASSUME LeaseOutlives
    PROVE  Spec => [](\A c \in Conns : Undisturbed(c))
  <1>1. Init => \A c \in Conns : Undisturbed(c)
    BY StepsOfUndisturbed DEF Init, Undisturbed
  <1>2. TypeOK /\ SingleOwner /\ (\A c \in Conns : Undisturbed(c)) /\ [Next]_vars
          => (\A c \in Conns : Undisturbed(c))'
    BY NextUndisturbed
  <1>3. Spec => []SingleOwner
    BY LeaseGivesSingleOwner
  <1>4. QED
    BY <1>1, <1>2, <1>3, TypeCorrect, PTL DEF Spec

-----------------------------------------------------------------------------
(***************************************************************************)
(* The invariant of one aggregate.  CapturedMs(s.clock, n) <= n is not     *)
(* inductive: the running segment must also have begun no earlier than the *)
(* total it is added to, and not in the future.                            *)
(***************************************************************************)
ClockSound(k, n) ==
    /\ k.accumulated <= n
    /\ IsRunning(k) => k.accumulated <= k.segment /\ k.segment <= n

Sound(s, n) == ClockMatchesState(s) /\ ClockSound(s.clock, n)

LEMMA SoundNew == \A n \in Nat : Sound(NewSession, n)
  BY DEF Sound, NewSession, ClockMatchesState, ClockSound, IsRunning, Suspended

(* Every operation of the aggregate that does not raise keeps it sound. *)
LEMMA OperationsSound ==
    ASSUME NEW s \in Sessions, NEW n \in Nat, Sound(s, n)
    PROVE  /\ MayBeginCapture(s) => Sound(BeginCapture(s, n), n)
           /\ MayPauseCapture(s) => Sound(PauseCapture(s, n), n)
           /\ MayResumeCapture(s) => Sound(ResumeCapture(s, n), n)
           /\ MayRequestCompletion(s) => Sound(RequestCompletion(s, n), n)
           /\ MayMarkCompleted(s) => Sound(MarkCompleted(s), n)
  <1> USE DEF Sessions, Sound, ClockMatchesState
  <1>1. ClockSound(PauseClock(s.clock, n), n) /\ ~IsRunning(PauseClock(s.clock, n))
    BY DEF Clock, ClockSound, PauseClock, CapturedMs, IsRunning, Suspended
  <1>2. ASSUME CanTransition(s.state, "capturing")
        PROVE  ClockSound(StartClock(s.clock, n), n) /\ IsRunning(StartClock(s.clock, n))
    <2>1. ~IsRunning(s.clock)
      BY <1>2 DEF States, CanTransition, Allowed
    <2>2. QED
      BY <2>1 DEF Clock, ClockSound, StartClock, IsRunning, Suspended
  <1>3. MayBeginCapture(s) => Sound(BeginCapture(s, n), n)
    BY <1>2 DEF MayBeginCapture, BeginCapture, ConsentActive
  <1>4. MayPauseCapture(s) => Sound(PauseCapture(s, n), n)
    BY <1>1 DEF MayPauseCapture, PauseCapture, CanTransition, Allowed, States
  <1>5. MayResumeCapture(s) => Sound(ResumeCapture(s, n), n)
    BY <1>2 DEF MayResumeCapture, ResumeCapture, ConsentActive
  <1>6. MayRequestCompletion(s) => Sound(RequestCompletion(s, n), n)
    BY <1>1 DEF MayRequestCompletion, RequestCompletion, CanTransition, Allowed, States
  <1>7. MayMarkCompleted(s) => Sound(MarkCompleted(s), n)
    BY DEF MayMarkCompleted, MarkCompleted, CanTransition, Allowed, States
  <1>8. QED
    BY <1>3, <1>4, <1>5, <1>6, <1>7

LEMMA SoundLater ==
    ASSUME NEW s \in Sessions, NEW n \in Nat, Sound(s, n)
    PROVE  Sound(s, n + 1)
  BY DEF Sessions, Clock, Sound, ClockSound, IsRunning, Suspended

LEMMA SoundWithinElapsed ==
    ASSUME NEW s \in Sessions, Sound(s, now), now \in Nat
    PROVE  WithinElapsed(s)
  BY DEF Sessions, Clock, Sound, ClockSound, WithinElapsed, CapturedMs, IsRunning,
         Suspended

AllSound == Sound(session, now) /\ \A c \in Conns : Sound(copy[c], now)

LEMMA InitSound == Init => AllSound
  BY SoundNew DEF Init, AllSound

LEMMA NextSound ==
    ASSUME LeaseOutlives
    PROVE  TypeOK /\ (\A c \in Conns : Undisturbed(c)) /\ AllSound /\ [Next]_vars
             => AllSound'
  <1> SUFFICES ASSUME TypeOK, \A c \in Conns : Undisturbed(c), AllSound, [Next]_vars
               PROVE  AllSound'
    OBVIOUS
  <1>0. /\ now \in Nat /\ session \in Sessions /\ copy \in [Conns -> Sessions]
    BY DEF TypeOK
  <1>b. Sound(NewSession, now)
    BY <1>0, SoundNew
  <1> USE <1>0, <1>b DEF AllSound
  <1>1. CASE UNCHANGED <<now, session, copy>>
    BY <1>1
  (* Steps of one handler that put a sound aggregate in its copy. *)
  <1>2. ASSUME NEW c \in Conns, NEW s, Sound(s, now), copy' = [copy EXCEPT ![c] = s],
               UNCHANGED <<now, session>>
        PROVE  AllSound'
    BY <1>2
  (* An operation on what was loaded, which is what is stored. *)
  <1>3. ASSUME NEW c \in Conns, pc[c] \in Applying
        PROVE  Loaded(c) = session
    BY <1>3 DEF Undisturbed, Loaded, Sessions
  <1>a. /\ MayBeginCapture(session) => Sound(BeginCapture(session, now), now)
        /\ MayPauseCapture(session) => Sound(PauseCapture(session, now), now)
        /\ MayResumeCapture(session) => Sound(ResumeCapture(session, now), now)
        /\ MayRequestCompletion(session) => Sound(RequestCompletion(session, now), now)
    BY <1>0, OperationsSound
  <1>4. ASSUME NEW c \in Conns, NEW step, NEW may, NEW result, NEW next,
               Apply(c, step, may, result, next), may => Sound(result, now)
        PROVE  AllSound'
    BY <1>4, <1>2 DEF Apply
  (* A save stores the copy. *)
  <1>5. ASSUME NEW c \in Conns, NEW step \in Committing, NEW kept, NEW next,
               Save(c, step, kept, next), kept \in {NewSession, copy[c]}
        PROVE  AllSound'
    <2>1. seen[c] = Row(session)
      BY <1>5 DEF Save, Undisturbed
    <2>2. session' = copy[c]
      BY <1>5, <2>1, MergeUncontended DEF Save
    <2>3. QED
      BY <1>5, <2>2 DEF Save
  <1>6. ASSUME NEW c \in Conns, ClientStep(c) PROVE AllSound'
    <2>1. CASE AcquireLease(c) \/ SessionBusy(c) \/ Disconnect(c)
      BY <2>1, <1>1 DEF AcquireLease, SessionBusy, Disconnect
    <2>2. CASE LoadPause(c) \/ LoadResume(c) \/ LoadCompletion(c)
      BY <2>2, <1>2 DEF LoadPause, LoadResume, LoadCompletion, Load
    <2>3. QED
      BY <1>6, <2>1, <2>2 DEF ClientStep
  <1>7. ASSUME NEW c \in Conns, ServerStep(c) PROVE AllSound'
    <2>1. CASE LoadBegin(c)
      BY <2>1, <1>2 DEF LoadBegin, Load
    <2>2. CASE ApplyBegin(c) \/ ApplyPause(c) \/ ApplyResume(c) \/ ApplyCompletion(c)
      <3>1. Loaded(c) = session
        BY <2>2, <1>3 DEF ApplyBegin, ApplyPause, ApplyResume, ApplyCompletion, Apply,
                          Applying
      <3>2. QED
        BY <2>2, <3>1, <1>4, <1>a DEF ApplyBegin, ApplyPause, ApplyResume,
                                      ApplyCompletion
    <2>3. CASE SelectBegin(c) \/ SelectControl(c) \/ SelectCompleting(c)
                 \/ SelectCompleted(c)
      BY <2>3, <1>1 DEF SelectBegin, SelectControl, SelectCompleting, SelectCompleted,
                        SelectRow
    <2>4. CASE SaveBegin(c) \/ SaveControl(c) \/ SaveCompleting(c) \/ SaveCompleted(c)
      BY <2>4, <1>5 DEF SaveBegin, SaveControl, SaveCompleting, SaveCompleted, Committing
    <2>5. CASE OpenRun(c) \/ SendAccepted(c) \/ StoreBundle(c) \/ AuditCompletion(c)
      BY <2>5, <1>1 DEF OpenRun, SendAccepted, StoreBundle, AuditCompletion
    <2>6. CASE StoreDocument(c)
      <3>1. Sound(MarkCompleted(copy[c]), now)
        BY <2>6, OperationsSound DEF StoreDocument
      <3>2. QED
        BY <2>6, <3>1, <1>2 DEF StoreDocument
    <2>7. CASE CloseCompletedRun(c) \/ CloseFailedRun(c) \/ SendCompleted(c)
                 \/ ReleaseLease(c)
      BY <2>7, <1>1 DEF CloseCompletedRun, CloseFailedRun, CloseRun, SendCompleted,
                        ReleaseLease
    <2>8. QED
      BY <1>7, <2>1, <2>2, <2>3, <2>4, <2>5, <2>6, <2>7 DEF ServerStep
  <1>8. ASSUME NEW c \in Conns, Fail(c) \/ Crash(c) PROVE AllSound'
    BY <1>8, <1>2 DEF Fail, Crash, Ends
  <1>9. CASE Tick
    BY <1>9, SoundLater DEF Tick, handlerVars
  <1>10. CASE ExpireLease \/ UNCHANGED vars
    BY <1>10, <1>1 DEF ExpireLease, vars, handlerVars
  <1>11. QED
    BY <1>6, <1>7, <1>8, <1>9, <1>10 DEF Next, LeaseOutlives

LEMMA AlwaysSound ==
    ASSUME LeaseOutlives
    PROVE  Spec => []AllSound
  <1>1. TypeOK /\ (\A c \in Conns : Undisturbed(c)) /\ AllSound /\ [Next]_vars
          => AllSound'
    BY NextSound
  <1>2. Spec => [](\A c \in Conns : Undisturbed(c))
    BY AlwaysUndisturbed
  <1>3. QED
    BY <1>1, <1>2, InitSound, TypeCorrect, PTL DEF Spec

(* While the lease keeps handlers apart, no clock runs outside capture,    *)
(* wherever a step raises or a process dies.                               *)
THEOREM ClocksStopOutsideCapture ==
    ASSUME LeaseOutlives
    PROVE  Spec => []ClockRunsOnlyWhileCapturing
  <1>1. AllSound => ClockRunsOnlyWhileCapturing
    BY DEF AllSound, Sound, ClockRunsOnlyWhileCapturing, Aggregates
  <1>2. Spec => []AllSound
    BY AlwaysSound
  <1>3. QED
    BY <1>1, <1>2, PTL

(* While the lease keeps handlers apart, captured time is never            *)
(* overcounted, for any number of connections, pauses and crashes.         *)
THEOREM CapturedTimeIsBounded ==
    ASSUME LeaseOutlives
    PROVE  Spec => []CapturedWithinElapsed
  <1>1. TypeOK /\ AllSound => CapturedWithinElapsed
    BY SoundWithinElapsed DEF AllSound, TypeOK, CapturedWithinElapsed, Aggregates
  <1>2. Spec => []AllSound
    BY AlwaysSound
  <1>3. QED
    BY <1>1, <1>2, TypeCorrect, PTL

(***************************************************************************)
(* What the one handler is about to save follows from what is stored:      *)
(* captured time grows, and only where the session was capturing.          *)
(***************************************************************************)
Saving == {"save_begin", "save_control", "save_completing",
           "commit_begin", "commit_control", "commit_completing"}

Follows(s, stored) ==
    /\ CanTransition(stored.state, s.state)
    /\ s.clock.accumulated >= stored.clock.accumulated
    /\ stored.state # "capturing" => s.clock.accumulated = stored.clock.accumulated
    /\ s.state \in {"capturing", "paused", "completing"}

Pending(c) ==
    /\ pc[c] \in Saving => Follows(copy[c], session)
    /\ pc[c] \in {"save_completing", "commit_completing"} => copy[c].state = "completing"
    /\ pc[c] \in {"store_bundle", "store_document"}
          => session = copy[c] /\ session.state = "completing"
    /\ pc[c] \in {"save_completed", "commit_completed"}
          => /\ session.state = "completing" /\ copy[c] = MarkCompleted(session)
             /\ document = [run |-> c, captured |-> session.clock.accumulated]

NothingLost == DocumentMatchesSession /\ \A c \in Conns : Pending(c)

LEMMA OperationsFollow ==
    ASSUME NEW s \in Sessions, NEW n \in Nat, ClockMatchesState(s)
    PROVE  /\ MayBeginCapture(s) => Follows(BeginCapture(s, n), s)
           /\ MayPauseCapture(s) => Follows(PauseCapture(s, n), s)
           /\ MayResumeCapture(s) => Follows(ResumeCapture(s, n), s)
           /\ MayRequestCompletion(s) => Follows(RequestCompletion(s, n), s)
           /\ RequestCompletion(s, n).state = "completing"
  <1>0. s.clock.accumulated \in Nat
    BY DEF Sessions, Clock
  <1>1. /\ PauseClock(s.clock, n).accumulated >= s.clock.accumulated
        /\ s.state # "capturing" => PauseClock(s.clock, n).accumulated = s.clock.accumulated
    BY DEF Sessions, Clock, PauseClock, CapturedMs, IsRunning, Suspended, ClockMatchesState
  <1>2. StartClock(s.clock, n).accumulated = s.clock.accumulated
    BY DEF Sessions, Clock, StartClock, IsRunning, Suspended
  <1>3. QED
    BY <1>0, <1>1, <1>2
       DEF Sessions, Follows, BeginCapture, PauseCapture, ResumeCapture,
           RequestCompletion, MayBeginCapture, MayPauseCapture,
           MayResumeCapture, MayRequestCompletion

LEMMA InitNothingLost == Init => NothingLost
  BY DEF Init, NothingLost, Pending, Saving, DocumentMatchesSession, NewSession

LEMMA NextNothingLost ==
    ASSUME LeaseOutlives
    PROVE  TypeOK /\ SingleOwner /\ (\A c \in Conns : Undisturbed(c)) /\ AllSound
             /\ NothingLost /\ [Next]_vars => NothingLost'
  <1> SUFFICES ASSUME TypeOK, SingleOwner, \A c \in Conns : Undisturbed(c), AllSound,
                      NothingLost, [Next]_vars
               PROVE  NothingLost'
    OBVIOUS
  <1>0. /\ pc \in [Conns -> HandlerSteps] /\ copy \in [Conns -> Sessions]
        /\ session \in Sessions /\ now \in Nat
    BY DEF TypeOK
  <1>a. /\ MayBeginCapture(session) => Follows(BeginCapture(session, now), session)
        /\ MayPauseCapture(session) => Follows(PauseCapture(session, now), session)
        /\ MayResumeCapture(session) => Follows(ResumeCapture(session, now), session)
        /\ MayRequestCompletion(session)
              => Follows(RequestCompletion(session, now), session)
        /\ RequestCompletion(session, now).state = "completing"
    BY <1>0, OperationsFollow DEF AllSound, Sound
  <1>b. ASSUME NEW c \in Conns, pc[c] \in Applying PROVE Loaded(c) = session
    BY <1>0, <1>b DEF Undisturbed, Loaded, Sessions
  <1>c. ASSUME NEW c \in Conns, NEW step \in Committing, NEW kept, NEW next,
               Save(c, step, kept, next)
        PROVE  session' = copy[c]
    BY <1>0, <1>c, MergeUncontended DEF Save, Undisturbed
  <1> USE <1>0 DEF NothingLost, Goto
  (* Steps after which the handler has nothing to save. *)
  <1>1. ASSUME NEW c \in Conns, NEW step, pc' = [pc EXCEPT ![c] = step],
               step \notin Saving \cup {"store_bundle", "store_document",
                                      "save_completed", "commit_completed"},
               \A x \in Conns \ {c} : copy'[x] = copy[x],
               UNCHANGED <<session, document>>
        PROVE  NothingLost'
    <2>1. DocumentMatchesSession'
      BY <1>1 DEF DocumentMatchesSession
    <2>2. Pending(c)'
      BY <1>1 DEF Pending, Saving
    <2>3. ASSUME NEW x \in Conns \ {c} PROVE Pending(x)'
      BY <1>1, <2>3 DEF Pending, Follows, MarkCompleted
    <2>4. QED
      BY <2>1, <2>2, <2>3
  (* Steps of the owner: no other handler has anything pending. *)
  <1>2. ASSUME NEW c \in Conns, pc[c] \in Working,
               \A x \in Conns \ {c} : pc'[x] = pc[x],
               Pending(c)', DocumentMatchesSession'
        PROVE  NothingLost'
    <2>1. \A x \in Conns \ {c} : pc[x] \notin Working
      BY <1>2 DEF SingleOwner
    <2>2. Saving \cup {"store_bundle", "store_document", "save_completed",
                      "commit_completed"} \subseteq Working
      BY DEF Saving, Working, Selecting, Committing
    <2>3. ASSUME NEW x \in Conns \ {c} PROVE Pending(x)'
      BY <1>2, <2>1, <2>2, <2>3 DEF Pending, Saving
    <2>4. QED
      BY <1>2, <2>3
  (* An operation on what is stored. *)
  <1>3. ASSUME NEW c \in Conns, NEW step \in Applying, NEW may, NEW result,
               NEW next \in {"save_begin", "save_control", "save_completing"},
               Apply(c, step, may, result, next), may => Follows(result, session),
               next = "save_completing" => result.state = "completing"
        PROVE  NothingLost'
    <2>1. CASE pc' = [pc EXCEPT ![c] = "release"]
      BY <1>3, <2>1, <1>1 DEF Apply, storeVars, Saving
    <2>2. CASE may /\ pc' = [pc EXCEPT ![c] = next] /\ copy' = [copy EXCEPT ![c] = result]
      <3>1. pc[c] \in Working
        BY <1>3 DEF Apply, Working
      <3>2. Pending(c)'
        BY <1>3, <2>2 DEF Apply, Pending
      <3>3. DocumentMatchesSession'
        BY <1>3 DEF Apply, storeVars, DocumentMatchesSession
      <3>4. QED
        BY <2>2, <3>1, <3>2, <3>3, <1>2
    <2>3. QED
      BY <1>3, <2>1, <2>2 DEF Apply
  <1>4. ASSUME NEW c \in Conns, ClientStep(c) PROVE NothingLost'
    <2>1. CASE AcquireLease(c) \/ SessionBusy(c) \/ Disconnect(c)
      BY <2>1, <1>1 DEF AcquireLease, SessionBusy, Disconnect, storeVars, Saving
    <2>2. CASE LoadPause(c) \/ LoadResume(c) \/ LoadCompletion(c)
      BY <2>2, <1>1 DEF LoadPause, LoadResume, LoadCompletion, Load, storeVars, Saving
    <2>3. QED
      BY <1>4, <2>1, <2>2 DEF ClientStep
  <1>5. ASSUME NEW c \in Conns, ServerStep(c) PROVE NothingLost'
    <2>1. CASE LoadBegin(c)
      BY <2>1, <1>1 DEF LoadBegin, Load, storeVars, Saving
    <2>2. CASE ApplyBegin(c) \/ ApplyPause(c) \/ ApplyResume(c) \/ ApplyCompletion(c)
      <3>1. Loaded(c) = session
        BY <2>2, <1>b DEF ApplyBegin, ApplyPause, ApplyResume, ApplyCompletion, Apply,
                          Applying
      <3>2. QED
        BY <2>2, <3>1, <1>3, <1>a DEF ApplyBegin, ApplyPause, ApplyResume,
                                      ApplyCompletion, Applying
    <2>3. CASE SelectBegin(c) \/ SelectControl(c) \/ SelectCompleting(c)
                 \/ SelectCompleted(c)
      BY <2>3 DEF SelectBegin, SelectControl, SelectCompleting, SelectCompleted,
                  SelectRow, storeVars, Pending, Saving, DocumentMatchesSession
    <2>4. CASE SaveBegin(c) \/ SaveControl(c)
      <3>1. session' = copy[c] /\ pc[c] \in Working
        BY <2>4, <1>c DEF SaveBegin, SaveControl, Save, Committing, Working
      <3>2. /\ \E step \in {"open_run", "live"} : pc' = [pc EXCEPT ![c] = step]
            /\ pc[c] \in Saving
        BY <2>4 DEF SaveBegin, SaveControl, Save, Saving
      <3>3. Pending(c)' /\ DocumentMatchesSession'
        BY <3>1, <3>2 DEF Pending, Follows, Saving, DocumentMatchesSession
      <3>4. QED
        BY <3>1, <3>2, <3>3, <1>2
    <2>5. CASE SaveCompleting(c)
      <3>1. session' = copy[c] /\ pc[c] \in Working
        BY <2>5, <1>c DEF SaveCompleting, Save, Committing, Working
      <3>2. /\ pc' = [pc EXCEPT ![c] = "store_bundle"] /\ copy'[c] = copy[c]
            /\ copy[c].state = "completing"
        BY <2>5 DEF SaveCompleting, Save, Pending
      <3>3. Pending(c)' /\ DocumentMatchesSession'
        BY <3>1, <3>2 DEF Pending, Saving, DocumentMatchesSession
      <3>4. QED
        BY <3>1, <3>2, <3>3, <1>2
    <2>6. CASE SaveCompleted(c)
      <3>1. session' = copy[c] /\ pc[c] \in Working
        BY <2>6, <1>c DEF SaveCompleted, Save, Committing, Working
      <3>2. /\ pc' = [pc EXCEPT ![c] = "audit"] /\ document' = document
            /\ session.state = "completing" /\ copy[c] = MarkCompleted(session)
            /\ document.captured = session.clock.accumulated
        BY <2>6 DEF SaveCompleted, Save, Pending, storeVars
      <3>3. Pending(c)' /\ DocumentMatchesSession'
        BY <3>1, <3>2 DEF Pending, Saving, DocumentMatchesSession, MarkCompleted, Sessions
      <3>4. QED
        BY <3>1, <3>2, <3>3, <1>2
    <2>7. CASE StoreBundle(c)
      <3>1. pc[c] \in Working
        BY <2>7 DEF StoreBundle, Working
      <3>2. QED
        BY <2>7, <3>1, <1>2 DEF StoreBundle, Pending, Saving, DocumentMatchesSession
    <2>8. CASE StoreDocument(c)
      <3>1. /\ session = copy[c] /\ session.state = "completing"
            /\ pc[c] \in Working
        BY <2>8 DEF StoreDocument, Pending, Working
      <3>2. CapturedMs(copy[c].clock, wall[c]) = session.clock.accumulated
        BY <3>1 DEF AllSound, Sound, ClockMatchesState, CapturedMs
      <3>3. QED
        BY <2>8, <3>1, <3>2, <1>2 DEF StoreDocument, Pending, Saving,
             DocumentMatchesSession
    <2>9. CASE OpenRun(c) \/ SendAccepted(c) \/ CloseCompletedRun(c)
                 \/ CloseFailedRun(c) \/ SendCompleted(c) \/ ReleaseLease(c)
      BY <2>9, <1>1 DEF OpenRun, SendAccepted, CloseCompletedRun, CloseFailedRun,
           CloseRun, SendCompleted, ReleaseLease, storeVars, Saving
    <2>10. CASE AuditCompletion(c)
      BY <2>10, <1>1 DEF AuditCompletion, Saving
    <2>11. QED
      BY <1>5, <2>1, <2>2, <2>3, <2>4, <2>5, <2>6, <2>7, <2>8, <2>9, <2>10
         DEF ServerStep
  <1>6. ASSUME NEW c \in Conns, Fail(c) \/ Crash(c) PROVE NothingLost'
    BY <1>6, <1>1 DEF Fail, Crash, Ends, storeVars, Saving
  <1>7. CASE ExpireLease \/ Tick \/ UNCHANGED vars
    BY <1>7 DEF ExpireLease, Tick, vars, storeVars, handlerVars, Pending,
                DocumentMatchesSession
  <1>8. QED
    BY <1>4, <1>5, <1>6, <1>7 DEF Next, LeaseOutlives

LEMMA AlwaysNothingLost ==
    ASSUME LeaseOutlives
    PROVE  Spec => []NothingLost
  <1>1. TypeOK /\ SingleOwner /\ (\A c \in Conns : Undisturbed(c)) /\ AllSound
          /\ NothingLost /\ [Next]_vars => NothingLost'
    BY NextNothingLost
  <1>2. Spec => []SingleOwner
    BY LeaseGivesSingleOwner
  <1>3. Spec => [](\A c \in Conns : Undisturbed(c))
    BY AlwaysUndisturbed
  <1>4. Spec => []AllSound
    BY AlwaysSound
  <1>5. QED
    BY <1>1, <1>2, <1>3, <1>4, InitNothingLost, TypeCorrect, PTL DEF Spec

(* The document reports the captured duration the session is stored with.  *)
THEOREM DocumentReportsSession ==
    ASSUME LeaseOutlives
    PROVE  Spec => []DocumentMatchesSession
  <1>1. NothingLost => DocumentMatchesSession
    BY DEF NothingLost
  <1>2. Spec => []NothingLost
    BY AlwaysNothingLost
  <1>3. QED
    BY <1>1, <1>2, PTL


-----------------------------------------------------------------------------
(***************************************************************************)
(* Completed once.  An audited completion leaves the session completed,    *)
(* and nothing a handler saves afterwards follows from that.               *)
(***************************************************************************)
Once ==
    /\ CompletedOnce
    /\ \A c \in Conns :
         /\ c \in audit => session.state = "completed"
         /\ pc[c] = "audit" => session.state = "completed" /\ audit \cap Conns = {}
         /\ pc[c] \in Saving => copy[c].state \in {"capturing", "paused", "completing"}

LEMMA InitOnce == Init => Once
  BY DEF Init, Once, CompletedOnce, Saving

LEMMA NextOnce ==
    ASSUME LeaseOutlives
    PROVE  TypeOK /\ AllSound /\ SingleOwner /\ (\A c \in Conns : Undisturbed(c))
             /\ NothingLost /\ Once /\ [Next]_vars => Once'
  <1> SUFFICES ASSUME TypeOK, AllSound, SingleOwner, \A c \in Conns : Undisturbed(c),
                      NothingLost, Once, [Next]_vars
               PROVE  Once'
    OBVIOUS
  <1>0. /\ pc \in [Conns -> HandlerSteps] /\ copy \in [Conns -> Sessions]
        /\ session \in Sessions /\ now \in Nat
    BY DEF TypeOK
  <1>a. /\ BeginCapture(session, now).state = "capturing"
        /\ PauseCapture(session, now).state = "paused"
        /\ ResumeCapture(session, now).state = "capturing"
        /\ RequestCompletion(session, now).state = "completing"
    BY DEF BeginCapture, PauseCapture, ResumeCapture, RequestCompletion, Sessions, TypeOK
  <1>b. ASSUME NEW c \in Conns, pc[c] \in Applying PROVE Loaded(c) = session
    BY <1>0, <1>b DEF Undisturbed, Loaded, Sessions
  <1>c. ASSUME NEW c \in Conns, NEW step \in Committing, NEW kept, NEW next,
               Save(c, step, kept, next)
        PROVE  session' = copy[c]
    BY <1>0, <1>c, MergeUncontended DEF Save, Undisturbed
  <1> USE <1>0 DEF Once, CompletedOnce, Goto
  (* Steps that neither save, nor reach a save or the audit. *)
  <1>1. ASSUME NEW c \in Conns, NEW step, pc' = [pc EXCEPT ![c] = step],
               step \notin Saving \cup {"audit"},
               \A x \in Conns \ {c} : copy'[x] = copy[x],
               UNCHANGED <<session, audit>>
        PROVE  Once'
    BY <1>1
  (* Steps that apply an operation to what was loaded. *)
  <1>2. ASSUME NEW c \in Conns, NEW step, NEW may, NEW result, NEW next,
               Apply(c, step, may, result, next), next \in Saving,
               result.state \in {"capturing", "paused", "completing"}
        PROVE  Once'
    BY <1>2 DEF Apply, storeVars, Saving
  (* Saves: a completed session is followed by none of them. *)
  <1>3. ASSUME NEW c \in Conns, pc[c] \in Saving, session' = copy[c],
               NEW step, pc' = [pc EXCEPT ![c] = step],
               step \notin Saving \cup {"audit"},
               \A x \in Conns \ {c} : copy'[x] = copy[x], audit' = audit
        PROVE  Once'
    <2>1. /\ CanTransition(session.state, copy[c].state)
          /\ copy[c].state \in {"capturing", "paused", "completing"}
      BY <1>3 DEF NothingLost, Pending, Follows, Saving
    <2>2. session.state # "completed"
      BY <2>1 DEF CanTransition, Allowed
    <2>3. \A x \in Conns : x \notin audit /\ pc[x] # "audit"
      BY <2>2
    <2>4. QED
      BY <1>3, <2>3
  <1>4. ASSUME NEW c \in Conns, ClientStep(c) PROVE Once'
    <2>1. CASE AcquireLease(c) \/ SessionBusy(c) \/ Disconnect(c)
      BY <2>1, <1>1 DEF AcquireLease, SessionBusy, Disconnect, storeVars, Saving
    <2>2. CASE LoadPause(c) \/ LoadResume(c) \/ LoadCompletion(c)
      BY <2>2, <1>1 DEF LoadPause, LoadResume, LoadCompletion, Load, storeVars, Saving
    <2>3. QED
      BY <1>4, <2>1, <2>2 DEF ClientStep
  <1>5. ASSUME NEW c \in Conns, ServerStep(c) PROVE Once'
    <2>1. CASE LoadBegin(c)
      BY <2>1, <1>1 DEF LoadBegin, Load, storeVars, Saving
    <2>2. CASE ApplyBegin(c) \/ ApplyPause(c) \/ ApplyResume(c) \/ ApplyCompletion(c)
      <3>1. Loaded(c) = session
        BY <2>2, <1>b DEF ApplyBegin, ApplyPause, ApplyResume, ApplyCompletion, Apply,
                          Applying
      <3>2. QED
        BY <2>2, <3>1, <1>2, <1>a DEF ApplyBegin, ApplyPause, ApplyResume,
                                      ApplyCompletion, Saving
    <2>3. CASE SelectBegin(c) \/ SelectControl(c) \/ SelectCompleting(c)
                 \/ SelectCompleted(c)
      BY <2>3 DEF SelectBegin, SelectControl, SelectCompleting, SelectCompleted,
                  SelectRow, storeVars, Saving
    <2>4. CASE SaveBegin(c) \/ SaveControl(c) \/ SaveCompleting(c)
      <3>1. session' = copy[c]
        BY <2>4, <1>c DEF SaveBegin, SaveControl, SaveCompleting, Committing
      <3>2. QED
        BY <2>4, <3>1, <1>3 DEF SaveBegin, SaveControl, SaveCompleting, Save, storeVars,
                                Saving
    <2>5. CASE SaveCompleted(c)
      <3>1. session.state = "completing" /\ copy[c] = MarkCompleted(session)
        BY <2>5 DEF SaveCompleted, Save, NothingLost, Pending
      <3>2. session' = copy[c]
        BY <2>5, <1>c DEF SaveCompleted, Committing
      <3>3. session'.state = "completed"
        BY <3>1, <3>2 DEF MarkCompleted, Sessions
      <3>4. audit' = audit /\ \A x \in Conns : x \notin audit
        BY <2>5, <3>1 DEF SaveCompleted, Save, storeVars
      <3>5. QED
        BY <2>5, <3>3, <3>4 DEF SaveCompleted, Save, Saving
    <2>6. CASE AuditCompletion(c)
      <3>1. session.state = "completed" /\ audit \cap Conns = {}
        BY <2>6 DEF AuditCompletion
      <3>2. \A x \in Conns : pc'[x] # "audit"
        BY <2>6 DEF AuditCompletion, SingleOwner, Working, HandlerSteps
      <3>3. QED
        BY <2>6, <3>1, <3>2 DEF AuditCompletion, Saving
    <2>7. CASE StoreBundle(c) \/ StoreDocument(c)
      BY <2>7, <1>1 DEF StoreBundle, StoreDocument, Saving
    <2>8. CASE OpenRun(c) \/ SendAccepted(c) \/ CloseCompletedRun(c)
                \/ CloseFailedRun(c) \/ SendCompleted(c) \/ ReleaseLease(c)
      BY <2>8, <1>1 DEF OpenRun, SendAccepted, CloseCompletedRun, CloseFailedRun,
           CloseRun, SendCompleted, ReleaseLease, storeVars, Saving
    <2>9. QED
      BY <1>5, <2>1, <2>2, <2>3, <2>4, <2>5, <2>6, <2>7, <2>8 DEF ServerStep
  <1>6. ASSUME NEW c \in Conns, Fail(c) \/ Crash(c) PROVE Once'
    BY <1>6, <1>1 DEF Fail, Crash, Ends, storeVars, Saving
  <1>7. CASE ExpireLease \/ Tick \/ UNCHANGED vars
    BY <1>7 DEF ExpireLease, Tick, vars, storeVars, handlerVars
  <1>8. QED
    BY <1>4, <1>5, <1>6, <1>7 DEF Next, LeaseOutlives

LEMMA AlwaysOnce ==
    ASSUME LeaseOutlives
    PROVE  Spec => []Once
  <1>1. TypeOK /\ AllSound /\ SingleOwner /\ (\A c \in Conns : Undisturbed(c))
          /\ NothingLost /\ Once /\ [Next]_vars => Once'
    BY NextOnce
  <1>2. Spec => []SingleOwner
    BY LeaseGivesSingleOwner
  <1>3. Spec => [](\A c \in Conns : Undisturbed(c))
    BY AlwaysUndisturbed
  <1>4. Spec => []NothingLost
    BY AlwaysNothingLost
  <1>5. Spec => []AllSound
    BY AlwaysSound
  <1>6. QED
    BY <1>1, <1>2, <1>3, <1>4, <1>5, InitOnce, TypeCorrect, PTL DEF Spec

(* A session is not completed twice, however often clients reconnect: at   *)
(* most one handler audits a completion.                                   *)
THEOREM CompletionIsUnique ==
    ASSUME LeaseOutlives
    PROVE  Spec => []CompletedOnce
  <1>1. Once => CompletedOnce
    BY DEF Once
  <1>2. Spec => []Once
    BY AlwaysOnce
  <1>3. QED
    BY <1>1, <1>2, PTL

-----------------------------------------------------------------------------
(***************************************************************************)
(* The refinement.  A load, the first step of a save, a tick and whatever  *)
(* a handler does to its own run or to the lease are stutters of the       *)
(* promised session; the second step of a save is one of its steps,        *)
(* because it stores the handler's copy, and that follows from what is     *)
(* stored.                                                                 *)
(***************************************************************************)
Report == IF session.state = "completed" THEN document ELSE NoDocument

(* A save that does not complete the session moves it as promised.         *)
LEMMA SavesKeepThePromise ==
    ASSUME TypeOK, NothingLost, Once, NEW c \in Conns, pc[c] \in Saving,
           session' = copy[c], UNCHANGED storeVars
    PROVE  Promise!Capture \/ Promise!Suspend \/ Promise!Finish
  <1>1. /\ CanTransition(session.state, session'.state)
        /\ session'.clock.accumulated >= session.clock.accumulated
        /\ session.state # "capturing"
              => session'.clock.accumulated = session.clock.accumulated
        /\ session'.state \in {"capturing", "paused", "completing"}
    BY DEF NothingLost, Pending, Follows, Once, Saving
  <1>2. session.state # "completed" /\ session'.state # "completed"
    BY <1>1 DEF CanTransition, Allowed
  <1>3. UNCHANGED <<bundles, Report, audit # {}>>
    BY <1>2 DEF storeVars, Report
  <1>4. session.state \in States
    BY DEF TypeOK, Sessions
  <1>5. CASE session'.state = "capturing"
    <2>1. session.state \in {"created", "paused"}
      BY <1>1, <1>4, <1>5 DEF CanTransition, Allowed, States
    <2>2. Promise!Capture
      BY <1>1, <1>3, <1>5, <2>1 DEF Promise!Capture, Report
    <2>3. QED
      BY <2>2
  <1>6. CASE session'.state = "paused"
    <2>1. session.state = "capturing"
      BY <1>1, <1>4, <1>6 DEF CanTransition, Allowed, States
    <2>2. Promise!Suspend
      BY <1>1, <1>3, <1>6, <2>1 DEF Promise!Suspend, Report
    <2>3. QED
      BY <2>2
  <1>7. CASE session'.state = "completing"
    <2>1. session.state \in {"capturing", "paused"}
      BY <1>1, <1>4, <1>7 DEF CanTransition, Allowed, States
    <2>2. Promise!Finish
      BY <1>1, <1>3, <1>7, <2>1 DEF Promise!Finish, Report
    <2>3. QED
      BY <2>2
  <1>8. QED
    BY <1>1, <1>5, <1>6, <1>7

(* The save of a completion publishes the document, whose bundle is stored *)
(* because nothing has been purged.                                        *)
LEMMA CompletionPublishes ==
    ASSUME LeaseOutlives, TypeOK, Provenance, NothingLost, NEW c \in Conns,
           SaveCompleted(c), session' = copy[c]
    PROVE  Promise!Publish
  <1>1. /\ pc[c] = "commit_completed" /\ session' = copy[c] /\ UNCHANGED storeVars
        /\ session \in Sessions
    BY DEF SaveCompleted, Save, TypeOK
  <1>2. /\ session.state = "completing" /\ copy[c] = MarkCompleted(session)
        /\ document = [run |-> c, captured |-> session.clock.accumulated]
    BY <1>1 DEF NothingLost, Pending
  <1>3. session'.state = "completed" /\ session'.clock = session.clock
    BY <1>1, <1>2 DEF MarkCompleted, Sessions
  <1>4. c \in bundles
    BY <1>1 DEF Provenance, Kept, Purged, LeaseOutlives
  <1>5. Report' = [run |-> c, captured |-> session.clock.accumulated]
    BY <1>1, <1>2, <1>3 DEF Report, storeVars
  <1>6. UNCHANGED <<bundles, audit # {}>>
    BY <1>1 DEF storeVars
  <1>7. QED
    BY <1>2, <1>3, <1>4, <1>5, <1>6 DEF Promise!Publish, Report

LEMMA StepsKeepThePromise ==
    ASSUME LeaseOutlives, TypeOK, Provenance, \A c \in Conns : Undisturbed(c),
           NothingLost, Once, [Next]_vars
    PROVE  [Promise!Next]_(Promise!vars)
  <1>1. ASSUME UNCHANGED <<session, storeVars>> PROVE UNCHANGED Promise!vars
    BY <1>1 DEF storeVars, Promise!vars
  <1>2. ASSUME NEW c \in Conns, ClientStep(c) PROVE UNCHANGED <<session, storeVars>>
    BY <1>2 DEF ClientStep, AcquireLease, SessionBusy, LoadPause, LoadResume,
                LoadCompletion, Load, Disconnect
  <1>3. ASSUME NEW c \in Conns, ServerStep(c) PROVE [Promise!Next]_(Promise!vars)
    <2>a. ASSUME NEW step \in Committing, NEW kept, NEW next, Save(c, step, kept, next)
          PROVE  session' = copy[c]
      BY <2>a, MergeUncontended DEF Save, Undisturbed, TypeOK
    <2>1. CASE SaveBegin(c) \/ SaveControl(c) \/ SaveCompleting(c)
      <3>1. session' = copy[c]
        BY <2>1, <2>a DEF SaveBegin, SaveControl, SaveCompleting, Committing
      <3>2. pc[c] \in Saving /\ UNCHANGED storeVars
        BY <2>1 DEF SaveBegin, SaveControl, SaveCompleting, Save, Saving
      <3>3. QED
        BY <3>1, <3>2, SavesKeepThePromise DEF Promise!Next
    <2>2. CASE SaveCompleted(c)
      <3>1. session' = copy[c]
        BY <2>2, <2>a DEF SaveCompleted, Committing
      <3>2. QED
        BY <2>2, <3>1, CompletionPublishes DEF Promise!Next
    <2>3. CASE StoreBundle(c)
      <3>1. session.state = "completing"
        BY <2>3 DEF StoreBundle, NothingLost, Pending
      <3>2. Promise!Store(c)
        BY <2>3, <3>1 DEF StoreBundle, Promise!Store
      <3>3. QED
        BY <3>2 DEF Promise!Next
    <2>4. CASE StoreDocument(c)
      <3>1. session.state = "completing"
        BY <2>4 DEF StoreDocument, NothingLost, Pending
      <3>2. UNCHANGED <<session, bundles, audit>> /\ Report' = Report
        BY <2>4, <3>1 DEF StoreDocument, Report
      <3>3. QED
        BY <3>2 DEF Promise!vars, Report
    <2>5. CASE AuditCompletion(c)
      <3>1. session.state = "completed" /\ audit = {}
        BY <2>5 DEF AuditCompletion, Once, TypeOK, LeaseOutlives
      <3>2. audit' # {} /\ UNCHANGED <<session, bundles, document>>
        BY <2>5 DEF AuditCompletion
      <3>3. Promise!Record
        BY <3>1, <3>2 DEF Promise!Record
      <3>4. QED
        BY <3>3 DEF Promise!Next
    <2>6. CASE LoadBegin(c) \/ ApplyBegin(c) \/ ApplyPause(c) \/ ApplyResume(c)
                 \/ ApplyCompletion(c)
      BY <2>6, <1>1 DEF LoadBegin, Load, ApplyBegin, ApplyPause, ApplyResume,
                        ApplyCompletion, Apply
    <2>7. CASE SelectBegin(c) \/ SelectControl(c) \/ SelectCompleting(c)
                 \/ SelectCompleted(c)
      BY <2>7, <1>1 DEF SelectBegin, SelectControl, SelectCompleting, SelectCompleted,
                        SelectRow
    <2>8. CASE OpenRun(c) \/ SendAccepted(c) \/ CloseCompletedRun(c)
                 \/ CloseFailedRun(c) \/ SendCompleted(c) \/ ReleaseLease(c)
      BY <2>8, <1>1 DEF OpenRun, SendAccepted, CloseCompletedRun, CloseFailedRun,
                        CloseRun, SendCompleted, ReleaseLease
    <2>9. QED
      BY <1>3, <2>1, <2>2, <2>3, <2>4, <2>5, <2>6, <2>7, <2>8 DEF ServerStep
  <1>4. ASSUME NEW c \in Conns, Fail(c) \/ Crash(c) PROVE UNCHANGED <<session, storeVars>>
    BY <1>4 DEF Fail, Crash, Ends
  <1>5. CASE ExpireLease \/ Tick \/ UNCHANGED vars
    BY <1>1, <1>5 DEF ExpireLease, Tick, vars
  <1>6. QED
    BY <1>1, <1>2, <1>3, <1>4, <1>5 DEF Next, LeaseOutlives

(* However many clients connect, disconnect and come back, wherever a step *)
(* raises and wherever a process dies, the service behaves as one promised *)
(* session as long as the lease keeps its handlers apart.                  *)
THEOREM ServiceKeepsThePromise ==
    ASSUME LeaseOutlives
    PROVE  Spec => ImplementsPromise
  <1>1. Init => Promise!Init
    BY DEF Init, Promise!Init, NewSession
  <1>2. TypeOK /\ Provenance /\ (\A c \in Conns : Undisturbed(c)) /\ NothingLost /\ Once
          /\ [Next]_vars => [Promise!Next]_(Promise!vars)
    BY StepsKeepThePromise
  <1>3. Spec => [](\A c \in Conns : Undisturbed(c))
    BY AlwaysUndisturbed
  <1>4. Spec => []NothingLost
    BY AlwaysNothingLost
  <1>5. Spec => []Once
    BY AlwaysOnce
  <1>6. Spec => []TypeOK
    BY TypeCorrect
  <1>7. Spec => []Provenance
    BY AlwaysProvenance
  <1>8. QED
    BY <1>1, <1>2, <1>3, <1>4, <1>5, <1>6, <1>7, PTL
       DEF Spec, ImplementsPromise, Promise!Spec

=============================================================================
