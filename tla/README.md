# A verification of the ORATORIA evidence engine

TLA+ modules of the evidence engine (`src/src/evidence_engine`), the TLC
configurations that check them on small instances, and theorems about them whose
proofs TLAPS checks. File names below are relative to `src/src/evidence_engine`
unless they begin with `src/`.

The engine takes a student's rehearsal over a WebSocket, turns audio and video
chunks into timed evidence (words, disfluencies, pauses, visual events), and on
completion stores an evidence document that a consumer reads over REST until
somebody deletes it. It is `asyncio` code over PostgreSQL, Redis and an object
store; several replicas may serve one session, so the interesting behaviour is
what happens between two awaits.

## 1. The system's parts

| part | state it keeps | operations | talks to |
|---|---|---|---|
| Session aggregate (`domain/sessions/{session,state,clock,consent}.py`) | state, capture clock, consent receipt; immutable value | begin, pause, resume, request completion, mark completed, mark deleted, fail | nobody: callers load, apply, save |
| Session repository (`persistence/postgres/repositories.py`) | one row per session, idempotency claims | add, save (a merge: it reads the row again and writes the columns that differ, with no version check), find, claim | every use case |
| Processing lease and stream state (`cache/redis_state.py`) | lease key with TTL | acquire (SET NX EX), release (DEL), clear | stream handler, deletion |
| Stream handler (`inbound/websocket/handler.py`) | one connection's coordinator, run and position in the protocol | accept, begin, dispatch of messages, close | lease, use cases, coordinator |
| Runs (`commands/open_run.py`) | run rows | open, close (completed or failed) | handler |
| Completion (`commands/complete_session.py`) | none of its own | save completing, bundle, document, save completed, audit | aggregate, evidence store, chunk ledgers |
| Deletion (`commands/delete_evidence.py`) | none of its own | load, purge, clear, mark and save, audit | aggregate, evidence and media stores, lease |
| Session creation (`commands/create_session.py`) | none of its own | replay, quota check, negotiate, claim, add, freeze, audit, consume | repository, quota guard, configuration store |
| Chunk ledger (`domain/sessions/sequencing.py`) | highest number, accepted, ahead, gaps, duplicates | offer, finalize | coordinator; completion reads the loss |
| Streaming coordinator (`workflows/streaming.py`) with transcript, evidence ledger, speech assembly | words, events, pauses, degraded modalities, queue depth | ingest audio, ingest video, finalize, degrade | chunk ledger, runtimes, channel |
| Speech and vision runtimes (`model_runtime/deterministic.py`) | how far output was declared stable, one per process | transcribe, observe | coordinator of every session |
| Visual assembly, calibration, quality, fusion (`services/*`, `domain/quality`, `domain/evidence`) | none | pure | coordinator, completion |
| Evidence repository (`postgres/{evidence_repository,mapping,models}.py`) and rendering (`rest/serialization.py`) | rows of seven tables, one document per session | store, store document, load, delete | completion, reads, deletion |
| Control plane (`postgres/control_plane.py`, `persistence/configuration.py`) | API keys, snapshots, model versions | authenticate, revoke, freeze, promote, roll back | creation, handlers, administrators |
| Media store (`object_storage/*`) | objects with a retention deadline, signed links | put, open, sign, delete | deletion |
| API keys and stream grants (`persistence/{identity,tokens}.py`, `rest/dependencies.py`) | keys; grants are signed and stored nowhere | issue, revoke, authenticate, mint, verify | every route, creation, the handshake of a socket |
| Corpus tools (`src/src/corpus`) | the annotators' files | template, validate, compare two annotators | command line only |

What is hard, and where it bites, is the `hazards` list of `PROJECT.json`. In short:
merges of an aggregate from a stale read, which overlap and mix columns; a deletion
under a live handler; a step that raises between two saves; a lease that expires or
is dropped under its holder; a connection that ends in mid-session; a claim whose
session never gets stored; a quota read long before it is counted; chunks in any
order; a transcript whose tail is replaced on every window while its front is frozen
for good; a runtime shared by streams.

What makes each part correct:

* aggregate and service - while the lease keeps handlers apart: one owner at a
  time, a clock that runs while capturing only, captured time never invented or
  lost, one completion, and together one promised session; in any case a
  completed session is readable, and a completion that was saved is carried
  through unless an exception or a death stops its handler; a deletion should be
  final, and is not (finding 1);
* creation - one session per key (not so: finding 2), answers name stored
  sessions, retries agree, the quota's overshoot is bounded;
* chunk ledger - loss, redelivery and reordering are told apart, the reported
  gaps and the count of the missing are exact;
* coordinator - only words that overlap can end a stream, nothing finalized is
  withdrawn, the ledger agrees with what was published; and while no other
  stream moves the shared runtime, no word behind a window is lost, and a
  derived pause contradicts no word that stands alone;
* configuration and evidence - a frozen snapshot resolves for ever to what it
  was; no hypothesis is hidden for its confidence except an unconfirmed optional
  class; the quality report does not contradict itself; the co-occurrences are
  exactly the pairs within the window; a document read back is the one completed,
  its words in their order;
* registry - rollback targets have served, drafts and disabled versions are never
  touched; and while no call commits on readings that others overtook, the target
  is the predecessor and the modality stays served;
* keys, grants, media - nothing that a deletion saw survives it; a caller gets no
  further into another tenant's session than the answer of a replay, which does
  reach it; a key that ended stops opening sockets;
* corpus - the matching is optimal, every event counts once, a coefficient is
  defined exactly when the labels determine it, a file with an overlap within a
  class is never passed, and what is reported as an overlap is one.

## 2. Modules

| module | models | how |
|---|---|---|
| `SessionLifecycle` | the aggregate | `May<Op>` is true when the method does not raise, `<Op>` is the session it returns |
| `SessionService` | handlers, deletions, runs, evidence, audit, lease over one session | one action per await; each request carries the copy it loaded; a save is two actions |
| `SessionPromise` | abstract: what one session promises to whoever records it and reads it | five variables, six steps: capture, suspend, finish, store, publish, record |
| `MCSessionService` | TLC instance | symmetry of connections and of requests |
| `SessionServiceProofs` | theorems | section 5 |
| `CreateSession` | POST /v1/sessions | one action per await; a request names the session it may create |
| `MCCreateSession`, `CreateSessionProofs` | TLC instance, theorems | |
| `ChunkArrival` | abstract: what a session promises about numbered chunks | a set of arrivals and, at the close, the set that is lost |
| `ChunkSequencing` | `ChunkLedger` | one action per branch of `offer`, and `finalize` |
| `ChunkSequencingProofs` | theorems | |
| `StreamingCoordinator`, `MCStreamingCoordinator` | the coordinator over the repository's own speech runtime | one action per chunk: the handler awaits each before the next |
| `StreamingCoordinatorProofs` | theorems | |
| `ModelRegistry` | `PostgresModelRegistry` for one modality | two reads and a commit per call; each call carries the rows it loaded |
| `MCModelRegistry`, `ModelRegistryProofs` | TLC instance (symmetry of versions and of administrators), theorems | |
| `ConfigurationStore` | `PostgresConfigurationStore` and the freeze of a creation | a read, a lookup and a commit per creation; builds with different defaults; an administrator |
| `Orderings` | sorted lists and comprehensions with a condition | two operators, shared by `EvidenceRules` and the annotation modules |
| `EvidenceRules` | intervals, calibration curves, constructors of events, gate, availability, pairing | pure operators over percentages and ticks |
| `EvidenceRows` | words and readings, their rows, reading them back, rendering | a pair of operators per table, `RowsOf` and `BundleOf` for the whole |
| `EvidenceRun`, `MCEvidenceRun` | one run from the snapshot to the stored document | one action per chunk, over answers of the runtimes that are right, wrong, missing or refused |
| `EvidenceRunProofs` | theorems | the run, with the store it composes |
| `SessionAccess`, `MCSessionAccess` | keys, grants, tenants, the deletion drill over S3, the reads of a result | one action per call to a store; a listing is one action per page |
| `SessionAccessProofs` | theorems | |
| `AnnotationFiles` | ELAN files, the rules of a record, validation | a file is what its tiers hold |
| `AnnotationMeasures` | matching and coefficients | recursive functions; fractions instead of floats |
| `AnnotationAgreement`, `MCAnnotationAgreement` | the commands over the annotators' files | one action per command, and ELAN between them |
| `AnnotationAgreementProofs` | theorems | section 5 |

`EvidenceRun` composes `ConfigurationStore`, `EvidenceRules` and `EvidenceRows`;
`AnnotationAgreement` EXTENDS `AnnotationMeasures`, which EXTENDS
`AnnotationFiles`; `SessionAccess` takes its transitions from `SessionLifecycle`
by INSTANCE. `SessionService` EXTENDS `SessionLifecycle`, and is shown to
implement `SessionPromise` while the lease outlives its holder (INSTANCE with the
stored row, the stored bundles and the document of a completed session as the
refinement mapping); `ChunkSequencing` is shown to
implement `ChunkArrival` (INSTANCE with `outcome` and `lost` as the refinement
mapping), and `StreamingCoordinator` uses that abstract account (a set of
numbers that arrived) instead of the ledger.

Definitions whose comment begins with "Variant" are the plausible mistakes the
properties are tried against; they take part in no specification.

### Correspondence and abstractions

`SessionService`. `session` is the stored session row with its consent receipt;
`copy[c]` and `dcopy[d]` are the aggregates that requests loaded and will save. A
use case reads the session row (`LoadX`), then the consent row and the clock, and
applies the operation (`ApplyX`). Its save is `db.merge`: `SelectX` reads the row
again into `seen[c]`, and `SaveX` writes the columns in which the aggregate differs
from what was read (`Merged`), so two saves that overlap can store the state of one
aggregate and the clock of another. The receipt is a row of its own, which the
merge reads after the first update has been sent and hence under the lock it takes:
what is left is the receipt of the aggregate that was saved. Any other request may
run between any two of these.

Every step of a handler may raise (`Fail`): the accepting event, the manifest on a
taxonomy of another build, the evidence store on a duplicate key, the database. A
`DomainError` (an illegal transition, consent) is not caught by the handler's
`except ApplicationError` either (`Apply`). All unwind to the `finally` that releases
the lease, without an answer and with the run still running; `abandoned` remembers
a handler that ended between the two saves of a completion and guards nothing.
`WebSocketDisconnect` closes the run as failed, also when it is raised while the
closing event of an already completed run is sent. A DELETE request may raise or die
at every step as well (`FailDelete`), before its purge or after it. A process that
dies is `Crash`.

The lease is acquired once, never renewed, and released by deleting the key whoever
holds it by then. Redis measures its TTL on a clock of its own, so an expiry is a
step that may come at any time (`ExpireLease`) where `LeaseExpires` says so, and in
any case once the holder is dead. There is one session, and one clock for all
processes: a monotonic clock is per host in reality, and what a resumption on
another host does to a segment is not modelled. The media store is never written by
any handler, so its two calls are part of `PurgeEvidence`. `fail()` of the aggregate
has no caller and is left out.

`CreateSession`. One application. `find_by_idempotency_key` makes two reads (the
claim, then the session); claims and sessions only grow, so one step loses
nothing. The quota counter lives in a window named by Redis time; `NextWindow`
turns it and its key never expires early. `Negotiate` is the outcome of
capability negotiation; nothing is persisted before it. `Fail` is a call that
raises or a process that dies.

`ChunkSequencing`. The transport is the environment: any number at any time,
again, or never. `Drained` is the loop of `_drain_ahead` by its result.

`StreamingCoordinator`. Words and events are spans on the session's time line, which
may overlap, as the docstring at `transcript.py:28` expects of words at the seams of
windows; texts, scores and provenance are left out except that pauses are derived
only once some event lends its provenance. `Active` and `StableThrough` are
`DeterministicSpeechRuntime`, the only runtime in the repository. A span's
identifier is a constant function `IdOf`, because `derive_event_id` hashes a 100 ms
bucket of the position. Visual events, quality records and prosody are appended and
never read back by the handlers of chunks; they are in `EvidenceRun`, and here a
video chunk only arrives or fails. A frozen word that a revisable one overlaps makes
`with_provisional` raise and unwinds the handler (`phase = "raised"`).

`ModelRegistry`. A call is one READ COMMITTED transaction: it loads a row, then
another, and commits. `tx[a]` holds the loaded rows, and `Written` is what the
mapper does with them: a column is written only if its assigned value differs
from the loaded one. The two flushes of a transaction take effect together,
because the first one already locks what it wrote and nobody sees it before the
commit. The partial unique index (`UniqueActive`) can refuse a commit; `Abort` is
that refusal, a database deadlock or a lost connection. Modalities never meet in
a statement, so there is one. Refusals that change nothing are the guards of
`Choose` and `FindCurrent`. Nothing in `src/` calls `promote` or `rollback`:
administrators are the environment, and so is whoever inserts the rows.
`overtaken`, `raced` and `predecessor` are history and guard nothing.

`ConfigurationStore`. A replica is a build with its own `default_configuration`;
while a deployment rolls out, several serve. `published` is ordered as the column
`created_at` is, by the beginning of the transaction and not by its commit, which
is why `InsertFrozen` may put its row before others. Only the payload (thresholds
and window) is compared by `freeze`, as in the code. One tenant, since `current`
does not filter by tenant.

`EvidenceRun`. The runtimes are ports: `SpeechResults` and `VisualResults` list what
they may answer to a chunk, including what the constructors of the domain refuse
(the handler is then unwound: `phase = "raised"`) and a failure that the coordinator
catches. Scores and thresholds are percentages and a tick is 50 ms, so a bucket of
identifiers is two ticks. `DigestOf` stands for the hash in the identifiers of
events and words, by which those of equal spans are ordered. The transcript keeps
the words in the order of `TranscriptSegment` (`Canonical`: a stable sort by span);
how its front is frozen, pauses and finalization of events during the stream are
`StreamingCoordinator`'s, and at the completion everything is final anyway. Silence
thresholds are in the payload of a snapshot only in name, and `VisualCalibration`
has no user in `src/`.

`EvidenceRows`. A nullable column is a sequence of at most one value. The rows of
words are a set, as no query orders them: `BundleOf` sorts what it reads as
`TranscriptSegment.build` does, and `RenderTranscript` gives text and words in order.
`Accepted` is what the primary keys allow. Tables whose rows are ordered by nothing
and rendered in no order are compared as bags. What is carried unchanged and
decides nothing (magnitudes, tolerances, the provenance columns of an event,
details of a reason) is left out; that prosody rows have no provenance of their
own and are given one (`AudioModel`) is modelled, but not rendered. Store and read
are one step each here; the reads that a deletion may fall between are in
`SessionAccess`.

`SessionAccess`. Keys and grants are not encoded: a grant that verifies is one that
was signed and has not expired. `life` and `left` count ticks down, so time needs no
bound. One request creates, deletes or verifies while another reads (`Asks`); object
names are numbers in the order of a listing, a page holds one name, and `seen` and
`unread` are history. `Answer` is what a creation or a replay renders: the session,
whosever it is. `Raise` ends a request at any call to a store, which covers a
deletion of more than the 1000 keys that `delete_objects` takes. `Put` is for
workers: nothing in `src/` calls `put`, `open` or `sign_upload`, whose only contract
is the port `application/ports/storage.py`. The deletion reports what its second
listing found, because revoking the links deletes the objects first.

`AnnotationFiles`, `AnnotationMeasures`, `AnnotationAgreement`. `Place` and
`Transcribe` are the annotator in ELAN. Reading refuses what `elan.py` and
`records.py` raise on, validation collects what `validation.py` returns, and
`agreement` compares two files without validating them. A finding is a code and the
pair of marks it names; a file is a set of marks, so two marks alike in everything
are one. The table of the alignment is a recursive function over its cells, and so
is the walk back; scores are integers out of `Scale`, which makes the tolerance of
the code's comparison of floats unnecessary.

## 3. Runs

| run | what it shows | bounds, and why they suffice |
|---|---|---|
| `service_concurrent` | what stays true of the evidence and of a completed run however saves overlap and mix, wherever steps raise; a completion is carried through unless its handler was stopped half-way | two handlers and one DELETE give every pair of racing operations; the lease may expire at any moment, any step may raise, which also covers a process that dies but for the lease it leaves behind, and that may expire. The clock stands still (`MaxTime = 0`): no property of this run, and no guard but `Tick`'s, reads it. No symmetry, since liveness is checked. 756 000 states, 2 minutes |
| `service_exclusive` | what the lease buys: single owner, clocks and captured time in order, one completion, a document that agrees, and the service implements the promised session | three handlers in turn, any step raising, one crash, a clock of 3; no deletion and no expiry under the holder. 33 000 states |
| `service_deletion_final` | finding: a stale save revives an erased session | one handler, one DELETE |
| `chunks` | the ledger implements the abstract account; the gaps and their lengths are exact | numbers 0..6 and two redeliveries give gaps at the start, in the middle, adjacent and apart, and every arrival order |
| `create` | answers, retries, overshoot | three retries of one key, another key, no key; quota of 2, three requests in progress, one failure, one turn of the window. 213 000 states |
| `create_one_per_key` | finding: two sessions for one key | same instance |
| `stream` | only overlapping words end a stream; nothing lost or contradicted in one stream; what was finalized stays whatever other streams do. `FrontierHasNoHoles`, `TranscriptIsWhole`, `PausesAreSilent` and `StableEventsAreFinal` are claimed while no other session has moved the shared runtime (`Undisturbed`), the rest in any case | five windows in any order, two failures; words and events inside a window, on a boundary and across a seam; two words that overlap where nothing is frozen between their ends, and two across a stability boundary; one gap at the silence threshold and one below; another session moves the runtime at most once. 391 000 states |
| `registry` | rollback targets are other versions that served, draft and disabled versions are never touched; and as long as no call commits on readings that others overtook, the target is the predecessor and the modality stays served | two administrators give every overlap of two calls; three versions give a replaced version, its replacement and a third one that comes between. 839 000 states |
| `evidence` | frozen snapshots resolve; hypotheses are accounted for; report and co-occurrences are exact; a document reads back as it was completed | two creations, two builds that share an id and not a payload, a tuned snapshot with another gate; two audio and three video chunks in any order, each lost, failed or answered in up to three ways: gated, refused, overlapping, touching, in one bucket, measured as zero, not measured, words out of order and of one span, a word that the tables refuse. The stream opens once the creations have ended (`MCAdministeredFirst`): the configuration is read as it opens, so what is administered later commutes with it. 112 000 states, 2 minutes |
| `evidence_frozen` | finding: a run uses the current snapshot, not the frozen one | same instance |
| `access` | what a deletion or a verification saw is gone; beyond the answer of a replay nothing of another tenant's session is reached; access ends with its key | two keys of two tenants, one that expires; one session; two object names on two pages, one written by presigned uploads; one request of any kind beside a reader; any call to a store may raise. 320 000 states. Two concurrent requests of any kind with two names are too many states for a run |
| `agreement` | matching, counts, coefficients and overlaps | one annotator with up to three of seven marks, the other with up to two: spans that contain, touch and miss each other, equal and different classes, three in a row of which the outer two overlap; a missing end or role; headers without a recording, a name or a pass, with an identifier for a pseudonym, of one annotator twice, adjudicated; the table of every pair of files is compared with all non-crossing matchings. 329 000 states, 2 minutes |

Deadlock is not checked where sessions end: a closed session, or requests that
were all answered, take no further step. `chunks` says so as well: a closed
ledger takes no chunk; and `registry`: when no version is promotable and none
has a target, every call is refused; `evidence` and `stream`: a run that completed
or raised takes no chunk. It is checked in `access` and `agreement`, where something
can always be asked.

Fairness. In `service_concurrent`, once the server has begun a step that depends on
no client, the event loop runs it: weak fairness of `ServerStep` for each
connection. Nothing is assumed of clients (they may never send or complete
anything), of the clock, or of a DELETE request, and a handler may raise or die
instead of going on: `CompletionFinishes` allows a session to stay completing when
that happened to one between the two saves of a completion (`abandoned`). In
`access`, time passes (`Tick`) and a creation that has begun comes to its end
(`CreateStep`), as a request does that is answered or times out; no other request,
worker, client or administrator is assumed to do anything.

## 4. Findings and observations

1. **A deletion is not final** (`service_deletion_final`). `CaptureControl` and
   `CompleteSession` save an aggregate from an earlier read, with no version check; a
   save after `DeleteEvidence` marked the row finds that the state differs and puts
   it back to capturing, with active consent.
2. **Two sessions for one idempotency key** (`create_one_per_key`). The loser of
   the claim falls through when the winner's session is not stored yet.
3. **A run does not use the snapshot its session froze** (`evidence_frozen`). The
   handler takes the configuration that is current when it begins
   (`inbound/websocket/handler.py:131`).

Observations. The following are stated as formulas next to the properties, each false in its
model as TLC showed while it was written, and are no runs:

* `ClockRunsOnlyWhileCapturing` and `CapturedWithinElapsed`, once the lease expires
  under its holder and two handlers save at once (two connections and a clock of 1):
  the merges (`repositories.py:75-85`) store the state of one aggregate and the
  clock columns of another, such as a completing session whose segment runs, or a
  capturing one whose total already holds its running segment. `service_exclusive`
  claims them while the lease does its work;
* `RepliesStayInTenant` - a replay finds by application and key and answers with the
  session it finds, whosever tenant it is of (`create_session.py:180-191`,
  `rest/sessions.py:169-180`), although `ports/repositories.py:3` says "Every read is
  scoped by tenant" (and NFR-013, as quoted there, "tenant or application", which a
  replay does respect);
* `EveryOverlapIsReported` - validation compares neighbours in time only
  (`src/src/corpus/annotation/validation.py:120`): of marks at (0,4), (1,2) and (2,4)
  the overlap of the first and the third is not reported, until the first pair has
  been corrected. `OverlapsAreFound` says what does hold;
* `AdjudicatedIsExcluded` - `compare` never looks at the pass, although
  `src/src/corpus/annotation/records.py:54-57` says that an adjudicated file is
  excluded from agreement by construction;
* `NoWordInAPause` - pauses are measured from the end of the word that starts last
  and not from the last end, so a longer word that overlaps it is spoken within what
  is published as a silence;
* `NoHalfAppliedDelete` - the evidence is purged before the transition is checked
  (`delete_evidence.py:91`), so a refused deletion has already erased;
* `DroppedConnectionRecoverable` - a disconnection leaves the session capturing
  (`handler.py:186`), from where neither begin nor delete is allowed;
* `WordsSurviveOtherStreams` - one speech runtime serves every session
  (`bootstrap/container.py:357`), and its stable point makes another stream, or a
  reconnection, lose words;
* `AnsweredDocumentsAreWhole` - a deletion between the two reads of
  `load_document` takes the rows, and the document is answered without evidence.
  The comment at `evidence_repository.py:117` says REST does not call it; the
  query behind `GET .../result` does;
* `HistoryStaysReadable` - reading puts `ProvenanceManifest` together, which
  refuses every taxonomy but the one of the build (`document.py:97`): after a
  change of version, no earlier result can be read, although
  `domain/shared/taxonomy.py:23` says that historical results keep resolving;
* `VideoNeverFails` - the constructors run outside the `try` of `ingest_video`
  (`streaming.py:206`), so an optional class let through by a gate below its
  minimum, or a malformed hypothesis, unwinds the handler;
* `AgreementIsSymmetric` - the traceback prefers one neighbour on ties
  (`src/src/corpus/agreement/matching.py:231`), so swapping the files may choose
  another optimal matching with other figures, although the docstring at
  `matching.py:95` and `src/tests/corpus/test_matching.py:168` say it cannot.

Smaller observations, not runs. A handler that an exception stops between the two
saves of a completion leaves the session completing for ever, with its run still
running, and nothing retries it. Two calls that overlap can leave a modality without
an active version: a promotion that loaded the serving canary does not write
`is_active` again after a rollback cleared it, and this is why `StaysInService` is
stated for calls that nobody overtook. A canary that was replaced is still
promotable, and with it two versions can become each other's target, so that the
second of two rollbacks restores a version already `rolled_back`;
`application/ports/platform.py:211` names only evaluated and approved versions as
promotable. The in-memory registry has no guard for a version that is already
active: raising a canary to 100 % makes it its own rollback target (the variant
`ReplacedEvenItself`). `_drain_ahead` never drains, since an early chunk has already
raised `highest_seen` (`AheadIsAccepted` is proved); and backpressure is never asked
for, since the handler awaits each chunk.

Configuration: once a row exists the default of a build is never used again, so a
build with another taxonomy makes every completion raise after the session was
saved as completing; `freeze` compares payloads only; the in-memory store binds to
whatever has the id (the variant `AgreesWithAnything`). Evidence: a token
identifier is a bucket and a text, so one word twice within 100 ms is one primary
key twice and the completion fails at the store; a degradation adds no
availability record; no query orders its rows, so at a read the first reason
against a window may be another one; the comment at `visual_assembly.py:59`
attributes the thresholds to the configuration, and they are constants.
Media: the errors that `delete_objects` returns per key are not read, and it
takes at most 1000 keys; objects of presigned uploads carry no deadline and may
be written after a deletion; no job enforces deadlines. Grants stay valid after
their key is revoked, until they expire; idempotency keys are scoped by
application and not by tenant, so a replay may sign a grant for a session its
tenant cannot open. Corpus: a file without
a tier reads as empty; `SchemaViolation` and `MismatchedRecordings` reach the
terminal as tracebacks.

## 5. Theorems

All are for every value of the constants that the named assumptions admit.

`SessionServiceProofs` has a chain of inductive invariants, each over those before it.

* `Provenance`, over `TypeOK`: the position of a handler says what it has already
  opened, stored and audited, and a purge that happened stays happened. It gives
  `EvidenceHasRun`, `CompletedIsReadable` and `CompletedRunHasEvidence`, whatever
  saves overlap and whatever raises: that a stored state is completed only if some
  aggregate that was saved is, is all they need of a merge.
* `LeaseHeld`, under `LeaseOutlives` (no deletion, and a lease that does not expire
  under its holder), as is all that follows: while a handler works, the lease is
  held. It gives `SingleOwner`.
* `Undisturbed`, over `SingleOwner`: what a handler loaded is still stored when it
  applies the operation, and the row its save read is still stored when it writes,
  so a merge amounts to writing the aggregate (`MergeUncontended`). With two
  handlers at once this is false, and with it what follows.
* `AllSound`: the stored row and every travelling copy have a clock that agrees
  with the state, and a captured total not above the running segment's start, nor
  either above the present. That it covers every copy is what makes it inductive,
  since a save only moves an aggregate from a copy to the row; that it bounds the
  segment is what `CapturedWithinElapsed` lacks to be inductive by itself. It gives
  `ClockRunsOnlyWhileCapturing` and `CapturedWithinElapsed`.
* `NothingLost`: the copy a handler is about to save follows from the stored row by
  a legal transition, without losing captured time and adding to it only where the
  session was capturing, and after the first save of a completion it is the stored
  row. It gives `DocumentMatchesSession`. Without the assumption it is false:
  finding 1 lives there.
* `Once`: an audited completion leaves the session completed, and no copy a handler
  is about to save follows from a completed session. It gives `CompletedOnce`.

Together they give the refinement (`ServiceKeepsThePromise`): under `LeaseOutlives`
a load, a selection, a tick, an exception and whatever a handler does to its run or
to the lease are stutters of `SessionPromise`, and each save is one of its steps
because the saved copy follows from what is stored. That evidence is only stored
between the end of capture and the completion, that captured time never shrinks and
accrues in no other state than capturing, and that a completed session reports one
document, backed by a stored bundle, for ever, is what this adds to the invariants.

`CreateSessionProofs`. `TypeOK` says that what is frozen is stored and what is
audited is frozen, so it rests on the position of each request (`Progress`);
`AnswersAreBacked` and `RetriesFindTheSame` rest on claims never being
overwritten. `OvershootIsBounded` is a counting argument (`Headroom`): what is
counted in the window and what is admitted but not yet counted stay together at
most `Limit + MaxConcurrent - 1`, because a check admits only below the limit and
with at most `MaxConcurrent - 1` other requests in progress. It uses the
library's facts about cardinalities, and that the requests are finitely many.

`ChunkSequencingProofs`. `LedgerInv` (`HighestIsGreatest`, then `AheadIsAccepted`
from it) is kept by every offer, and gives that an offer implements an arrival or
a redelivery of `ChunkArrival`. Over it, `GapsAreCollapsed` says that the gaps are
those of the close ever after, which holds because nothing that `_collapse` read
changes once the ledger is closed. What `_collapse` computes is an induction over
the numbers (`CollapseIsRuns`): having read those below `n`, it holds the maximal
runs of the missing numbers below `n`, in order, the last one possibly still open.
That gives `GapsAreMaximalRuns`, the count included (`RunsAreCounted`), and the
closing step of the refinement.

`ModelRegistryProofs` has two invariants over `TypeOK` and over the lemma that at
most one version is active, which the index alone guarantees and which counts for
nothing else.

* `Inv`: what a call read about the release of its versions stays true, however
  old the reading is (`Known`), since no commit takes a version back to a state
  before its release (`StepsRespectRelease`). That carries `TargetsHaveServed` and
  `UnapprovedStayOut` through commits on stale rows.
* `FreshReadings`: a call that nobody overtook holds the rows as they are stored.
  With it `TargetIsPredecessor` and `StaysInService` follow from what a commit
  writes (`FreshPromotion`, `FreshRollback`).

`StreamingCoordinatorProofs` has two, for any words and events, overlapping or not,
and any grid of windows.

* `WInv`: the frontier never passes the stable point, other streams or not, and a
  window that raises does so over a frozen word and a revisable one that overlap
  (`RaisingWindow`). That is `RaisesOnlyAtOverlap`, and for a speaker whose words
  follow one another the stream never raises (`DisjointWordsNeverRaise`). While no
  other stream has moved the runtime, a word is final exactly when it ends by the
  stable point, and the derived pauses contradict no word that stands alone. Pauses
  are derived between final words only, so they need that no such word will later be
  found in the gap: the two neighbours are final, whatever lies between them ends
  earlier than the second, and so is final too (`FrontierIsStable`; the nearest
  words are found by well-founded induction on the naturals, as an instance).
* `EInv`, over `WInv` and under `IdsAreDistinct` (no two events share a derived
  identifier): while the session is live an event is final only when it is behind
  the stable point, so no window offers it again. It gives `StableEventsAreFinal`,
  `LedgerMatchesFinals` and `FinalEventsStay`. With colliding identifiers these
  are false, since a later event replaces a final one; the instance, too, has
  distinct identifiers.

`EvidenceRunProofs` has two, one over the other.

* `CInv`, of the configuration: identifiers of rows are unique, no row is ever
  changed, and what a creation has answered with is a row. The uniqueness must be
  carried through a commit on a stale lookup, which is where the conflict of a
  second insert is needed. It gives `FrozenSnapshotsResolve`.
  `ConfigurationAssumption` only says that no snapshot is `None`.
* `RInv`, of a run: what it holds has the shape its constructors gave it
  (`EvidenceTyped`), the words of the transcript are in order (`Ordered`), every
  event is held under its own identifier, the stream holds the last confirmed
  hypothesis under each identifier and counted the others (`GateAccounted`), and the
  stored document and rows are those of the evidence the run still holds, which the
  primary keys accepted (`Stored`). None of the four properties is inductive: a
  document reads back only if every value in it survives its column and the words,
  whose rows come in no order, are sorted back into theirs, so the shapes and the
  order carry `DocumentsReadBack`, for a reader of the document's own taxonomy: a
  stable sort of distinct keys has one outcome (`CanonicalOrders`, `TokenKeys`,
  `OrderedReadBack`), and distinct they are because the primary keys accepted them;
  pairs are counted once only if events can be told apart, so the identifiers carry
  `CooccurrencesAreComplete`; and one more batch is accounted for only relative to
  all those before it, whose places in the order of arrival the lemma
  `BatchIsAccounted` adds up. `ReasonsMatchUsability` rests on the availability
  records alone.

Their lemmas say what the operators do for every argument: that a calibration curve
of any fitted points gives percentages (`CurvesGivePercentages`), that each table
gives back what was put in its columns, that the distance of two intervals is
within the window exactly if they reach each other (`GapIsReach`), that sorting
gives every element once and in order.
Assumed are that no two identifiers share a digest (`IdentifiersAssumption`), that
curves are fitted as `calibration.py` demands (`CurvesAreFitted`), that runtimes
answer with hypotheses of their types, whatever those say (`ResultsAssumption`), and
that no fusion window is negative (`ThresholdsAssumption`; `FusionWindow` refuses
one).

`AnnotationAgreementProofs` is mostly about pure functions. Its invariant,
`CorpusInv`, says that files hold marks an annotator may place, finitely many, and
that a validation or a comparison that stands was made of the files as they are:
every command and every edit replaces or clears what was printed. Without it nothing
links a figure on the terminal to a file. From it:

* `OverlapsAreFound`: of two marks of one class that overlap, the earlier one
  overlaps the one that follows it in time order (`ClashingMarks`), so that neighbour
  is reported, at the later mark of the two or before it; and neighbours that are
  reported do overlap. It does not say that every pair is (section 4);
* `MatchingIsOptimal`: a cell of the table holds at least the score of every
  non-crossing set of pairs within it (`NothingScoresMore`, by induction over the
  cells), and the walk back from a cell collects exactly what the cell holds, pairs
  that do not cross, and ends (`WalkIsPath`), whichever neighbour it takes on a tie;
* `EveryEventIsCounted`: the matching pairs no mark twice (`MatchIsPairing`), so the
  pairs of equal class, those of different classes and the unmatched marks divide
  the marks of each annotator and class (`EventsAreCounted`);
* `CoefficientsAreSound`: the expected agreement of kappa is the whole square of the
  total exactly when one label fills both margins, and that of alpha vanishes
  exactly when there is one label (`ExpectedOfKappa`, `ExpectedOfAlpha`).

Assumed are times that are numbers or missing (`MarksAssumption`), that scores are
multiples of `1/Scale` (`ExactScores`) and that no two marks of a file are the same
(`DistinctMarks`; a sort of equal marks would depend on the file).

Induction over data. The library's induction theorems take an operator, which no
installed prover can instantiate. The lemmas `Induction`, `Recursion`,
`FiniteInduction`, `TableRecursion` and `CellInduction` state what is needed with a
set in place of the predicate and a function in place of the step, from the
well-foundedness of the naturals; `Ranks` and `RanksSort` say the same of sorting by
rank. A module of proofs is self-contained, so those that several need (`Induction`
and `Recursion` in three, `Ranks` and `RanksSort` in two) are proved in each.

`SessionAccessProofs` has one invariant, `IInv`, over keys, sockets and requests.
What a listing has already passed is either found by it or was not there when it
began, which is what a page at a time preserves while others write; with the
deletions it gives `SweptMediaIsGone`. A request past the lookup by its tenant, or
past the creation of its own session, stands on a session of its key's tenant, a
socket opens only where the grant's session is one, and owners do not change: that
gives `AccessStaysInTenant`. The answer of a replay is outside it, as it must be.

Every safety property of a passing run, the refinements `ImplementsArrival` and
`ImplementsPromise` included, is stated by a theorem. Only model-checked: the
liveness properties `CompletionFinishes` and `AccessEndsWithKey`, because TLAPS
proves no fairness arguments here. The medians and percentiles of the boundary
errors, and what a validation warns of besides overlaps, are computed in the runs
and have no property of their own.

## 6. Not modelled

WebSocket frames, the XML of ELAN files, request and response schemas, telemetry,
settings, wiring, migrations: pure I/O, declarations or value checks. Hashes and
signatures: a key or a grant is genuine or does not exist. Capability negotiation,
by its outcome only. The in-memory twins of the stores, except where a variant
names what they do otherwise. `AnalysisSession.fail`, `EvidenceLedger.revise`, the
filters of `EvidenceDocument`, `MediaStore.open`, `VisualCalibration`: nothing
calls them. How a monotonic clock reads on another host is not modelled, nor how
many chunks a client meant to send, which nothing tells the server.

## 7. Plan

Done, in this order: lifecycle and service; chunk ledger with its abstraction;
creation; coordinator; model registry; annotations; configuration and evidence;
access and media. Next:

1. `StreamingCoordinator` with colliding identifiers: what remains true of the
   ledger then.
2. A composition of the service and `EvidenceRun` through a run's evidence, and a
   `SessionPromise` with a step of erasure, for deletions that meet no live handler.
