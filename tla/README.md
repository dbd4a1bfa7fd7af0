# Formal models of AI-BIM-governance

TLA+ models of the protocols at the centre of this repository, the TLC
configurations that check them on small instances, and theorems about them
that the TLA+ proof system (TLAPS) has checked for all values of the
constants.

- [1 The system](#1-the-system)
- [2 Modules](#2-modules)
- [3 Runs, bounds and fairness](#3-runs-bounds-and-fairness)
- [4 Proofs](#4-proofs)
- [5 Disagreements between the code and its documents](#5-disagreements-between-the-code-and-its-documents)
- [6 What is not modelled](#6-what-is-not-modelled)
- [7 Plan](#7-plan)

Checking: `tlc -config MCStageBinding.cfg MCStageBinding`, and the like for
every configuration; `tlapm StageBindingProofs.tla`, and the like for every
`*Proofs.tla`. `PROJECT.json` lists runs, mutants, theorems, hazards and, for
every definition, the lines it models.

## 1 The system

`bim-review-coordinator` (TypeScript, one Node process) takes IFC files in,
has them converted by the conversion authority of `bim-streaming-server`
(Python), calls the cloud back with the result, and opens review sessions in
which browsers look at the converted model through a Kit runtime. It decides
which browser may change what Kit shows.

| Component | State | Operations | With whom |
|---|---|---|---|
| Stage binding transactions, `stageBindingState.ts` | open and completed transactions, tombstones of cancelled requests, the active binding of a session; all in memory | preauthorize, cancel, claim, abort, complete, queries; each sweeps first | called by the authority |
| Viewer leases, `viewerLeaseStore.ts` | leases with role, status, deadline; in memory | claim, heartbeat, release, release or purge of a session | routes, authority |
| Runtime mutation authority, `runtimeMutationAuthority.ts` | none of its own | as the two stores, with lease and session checks | browsers and Kit, by messages that may be late, lost or repeated |
| Close of a session, `app.ts`, `eventLog.ts`, `sessionIdleReclaimService.ts` | session file, event file; retries in memory | close by route, by the idle reclaimer, by the recovery at startup | leases, Kit |
| Opening of a session, `opening.ts`, `sessionStore.ts` | session files, purge marks, recreation receipts, event files; operations in flight in memory | recreate, open for a request, open when a conversion ends, activate, purge, probe and save the artifact health | pipeline, authority, close |
| Callback outbox, `callbackOutbox.ts` | entries in memory and in a file | enqueue, delivery passes, dead letters | ingest, the cloud |
| Conversion pipeline, `ifcReadyConversionPipeline.ts` with `externalIfcReadyStore.ts`, `conversionDispatchQueue.ts`, `streamingConversionClient.ts`, `conversionLedger.ts` | intake jobs and records in files; queue, dispatch contexts, pollers in memory | intake, dispatch, poll, ingest, retry, prioritize, remove, restart | authority, outbox, operator |
| Conversion authority, `conversion_authority.py` | one file per conversion job; background tasks and a lock in memory | create or replay, convert, read the result | pipeline, converter |
| CFD job service, `cfd_job_service.py`, `cfd_pipeline/case_run.py` | one document per run, containers; queue and worker thread in memory | create, cancel, work through the directions, reconcile at start | docker, the coordinator |
| CFD findings, `workflow.ts`, `cfdRunLedger.ts`, `governanceIssueHttpAdapter.ts` | ledger file, a lock per run in memory | evaluate the findings of a run | the governance service |

Hard behaviours, per component, and what makes it correct:

- *Stage binding*: messages of two viewers and of Kit in any order, a
  cancellation before what it cancels, deadlines, tables at their limit.
  Correct: one open transaction per session, cancelled stays cancelled, every
  binding applied once and reported as applied.
- *Leases and authority*: expiry and handover of the primary role while a load
  executes. Correct: one primary, no way back for a lease that ended, loads
  applied in the order of the grants.
- *Close*: failing and torn writes, crashes, repetition by three callers.
  Correct: one audit trail, as an uninterrupted close would leave it.
- *Outbox*: overlapping passes, a failing file, crashes. Correct: delivered
  means accepted by the cloud, and the reverse.
- *Pipeline and authority*: every step can be interrupted by a crash of either
  process, answers get lost, identities are rebuilt. Correct: no job is left
  behind, none converted twice, callbacks are not repeated.
- *Opening*: crashes between session file, lineage events and receipt; calls
  that saved what they read before an await; purges of chains. Correct: an id
  tells its source, purged stays purged, an answer is backed by its records.
- *CFD jobs*: a worker, cancels and a restart act on one document, and
  containers survive the service. Correct: one run per key, one solver, no
  solver without its run, no change of an outcome, an end of every run.
- *CFD findings*: lost and late replies of a service without idempotency keys,
  a ledger that may be lost. Correct: one issue per finding, no invented entry.

`PROJECT.json` has the hazards line by line, and all components with those
that are not modelled.

## 2 Modules

| Module | Models | Correspondence |
|---|---|---|
| `LeaseParameters`, `StageParameters` | bounds and limits | Constants with their assumptions, shared by the modules below and by their composition. |
| `StageBinding` | `stageBindingState.ts` | A transaction is a record of `transactions`, in creation order; `tombstones` has the time of each cancellation (of two of one tick either may be the older); every action begins with `Swept…`, as every method begins with `sweep`. Ids are numbers in order of creation. Time is a counter; a deadline is the tick it holds until. |
| `ViewerLease` | `viewerLeaseStore.ts` | One action per method. Expiry is decided when a method reads the lease, as in the code. |
| `RuntimeAuthority` | `runtimeMutationAuthority.ts` and the lease, close and purge routes | Composes the two by `INSTANCE`; one action per method, which does what the method does with both stores. A message may be sent at any time, so lateness and repetition are covered. |
| `ExclusiveStage` | what the authority promises | A session has one primary and one loader; loads are applied in the order of the grants. `RuntimeAuthority` implements it (`Stage == INSTANCE ExclusiveStage WITH …`). |
| `SessionOpening` | `opening.ts` over `sessionStore.ts` and `eventLog.ts` | A call yields only at its probe; what follows is a list of writes (`todo`), each of which may fail, be cut off or be the last before a crash. Ids are random, or digests of a source and a key or of a request (`DerivedId`, `RequestId`). |
| `SessionClose` | `closeReviewSessionInternal` and its three callers | A call is a program counter over its durable writes; `Fail` and `Crash` may come before or in the middle of each. `log` holds the readable events of the close, `torn` whether the file ends in half a line. |
| `CallbackOutbox` | `callbackOutbox.ts` | `entries` in memory, `disk` as it was last written; a pass is between entries or awaits one. `accepted`, `acknowledged`, `posts` and `overlapped` are history, read by no action. |
| `ConversionAuthority` | `conversion_authority.py` | `conversions` are the job files, `names` their order in the search, of which two of one second may be exchanged; `tasks` counts background tasks. |
| `ConversionPipeline` | the pipeline with its store, queue, pollers, ledger | Composes `ConversionAuthority`. What lives in memory (`memory`) goes at a restart, `store` and `ledger` stay. An await is the boundary of actions: what runs between two awaits is one step. A request is under way in `call` as sent, answered or refused, so a crash, a timeout or a lost answer may come in between. |
| `CfdJobs` | `CfdJobService`, its store, the direction loop of the runner | `runs` are the documents, `live` the containers: both outlive a crash. `worker` says at which step of which run, direction and pass the thread is. A cancel is a call in three steps, as compare-and-set, flag and kill are in the code. |
| `CfdFindings` | `evaluateFindings` with ledger and adapter | A finding is an element or a direction with its model binding; `KindOf` is what governance makes of it. A request may be lost, refused, answered, or carried out after its time-out. |

`MC*.tla` give values to constants for TLC; `*Proofs.tla` hold theorems.
Operators named `Mut…`, each before the definition it varies, are defects a
property must detect; no specification uses them.

Abstractions that hold throughout:

- Payloads, hashes, tokens and names are model values or numbers. Credentials
  and schemas are checks a request passes or does not reach the model with.
- What JavaScript runs between two awaits, and Python under a lock, is atomic.
- In `ConversionPipeline` a key stands for its correlation id. `Plain` are the
  keys whose event equals a rebuilt one (file name `model.ifc`, default
  outputs), `WithEventId` those that carry an event id.
- A poller ingests in one step; the publication of validation records, which
  the code awaits at the end of it, is not modelled. Neither are the sessions
  that forbid the removal of a record.
- In `CfdJobs` docker does what it is asked: a kill that fails is not modelled.
  The stages of a run under work are one status, `running`.
- A write of the intake store always succeeds: the code swallows a failure and
  keeps the job in memory. Writes of outbox and ledger may fail (`MaxFaults`).

## 3 Runs, bounds and fairness

Bounds are constants called `Max…` that are no limits of the code, or
`MaxPolls`, `MaxAttempts` and the table limits of `StageBinding`, which are,
and are small so that they are reached.

| Run | Shows | Bounds, and why they are enough |
|---|---|---|
| `stage_binding` | one open transaction; cancellations hold in whatever order; the reported binding is the last applied | two sessions with two and one viewers, three transactions, one tick, and each table with room for one to three: a handover, evictions of each kind, a late message |
| `runtime_authority` | one primary; a retried claim is one lease; no way back for a lease; no live lease in a session that ends; implements `ExclusiveStage` | one session, two viewers, two leases with a TTL of one of two ticks, two transactions: a handover during a load, expiry, a repeated claim, a close and a purge at any time; room for one completed transaction, which is evicted |
| `session_close` | audit trail; final events complete before closing; one audit; recovery under failures | two failures, two crashes, an append cut off in its line, three checkpoints, three lists of final events that share a beginning or differ in order |
| `callback_outbox` | delivered was accepted; acknowledged stays delivered; posts per entry | two passes, three entries of which one has no target; two attempts, so that first and last differ; two crashes; two failing writes |
| `conversion_authority` | retry chains and their live end; a converter runs once in a process; what is scheduled ends | two keys, two fingerprints, three attempts, all orders of names, one lost result, one crash, also between the writes of a retry |
| `conversion_pipeline` | nothing is left behind in queue or pollers; callbacks are bounded; one job in flight per key; a removed key has no job, after a cut removal from the next DELETE on; retries are recognised | two keys of different kinds, two jobs of one key or of two, and at any point one of: a crash (in the middle of an ingest or a removal too), a failing write, an ingest by request. `MaxTroubles` bounds the three together |
| `conversion_pipeline_settles` | every intake comes to an end | two keys, one crash of the authority, no trouble of the coordinator |
| `session_opening` | ids tell their lineage; what was answered is recorded, once; purged stays purged, from the leaf | five ids of which three are used: a session, its recreation and the recreation of that; one key; a crash or failing write between any two writes; one stream-config call at its probe |
| `cfd_jobs` | one run per key; solvers have their run, and there is one; outcomes stay; every run ends | two keys, two concurrent POSTs each, two directions (first and last) with an extension pass, a cancel at any step, two crashes (also during the restart) |
| `cfd_findings` | one annotation per finding; the ledger tells nothing that is not there; the lock is released | an element and a direction, with a model binding and without; two evaluations at a time, four in all; three failures, a late request, two restarts |

The runs that end in a violation are in section 5.

Where the code keeps a promise only within limits, the property names them as
its premise, over what has happened so far: `AuditTrail` and the liveness of
`SessionClose` as long as no append was cut off (`cuts`),
`AcknowledgedIsDelivered` as long as passes have not overlapped and writes have
not failed, `OneLiveAttempt` without a crash between the two writes of a retry
(`outages.unlinked`), `DispatchedIsWatched` without ingests by request and
failing writes, `PlainRetryIsNotRefused` for events a rebuilt one equals,
`OneConversionPerKey` for keys without an event id, `OneJobInFlight`, of a
removed key's jobs, unless a crash cut the removal and no DELETE was repeated
since (`crashes.unswept`), `AnsweredIsRecorded` where
no event was appended to a torn line (`glued`), `OneAnnotationPerFinding`
where no request was carried out late (`delayed`), and `OneSolver` once a
starting service has looked at every run. The runs go beyond these limits: the
premise is what fails there. Section 5 and the hazards tell what happens then.

Fairness, only in the runs with liveness properties:

- `SessionClose`: weak fairness of the steps of a call in progress (no await in
  it), of the restart (the process is supervised) and of the teardown
  retry (an interval timer). None for calls, failures and crashes.
- `ConversionAuthority`: weak fairness of `Work` (the thread pool runs
  background tasks; the converter's subprocess has a timeout).
- `ConversionPipeline`: weak fairness of the end of a download, of the request
  under way and of each poller's attempts: each has a timeout in the code. The
  authority needs none: the poller gives up.
- `CfdJobs`: weak fairness of the worker thread (a container ends by itself or
  by the time-out of its case), of the reconciliation at start and of a POST
  that stored its run and goes on to enqueue it. None for calls and crashes.
- `CfdFindings`: weak fairness of each evaluation: every request to governance
  has a time-out.

Deadlock is checked in every run but the two of the CFD modules. No reachable
state is one, as a request that is refused or answered with what there is
remains possible. In `CfdJobs` and `CfdFindings` calls that change nothing are
left out, so a model whose bounds are used up stops, as the service does when
nobody calls it (`CHECK_DEADLOCK FALSE`).

## 4 Proofs

All proofs are by invariance. Assumptions are those of the `ASSUME` of each
module: constants are sets or natural numbers, and limits are positive where
the code's are.

Every invariant and every action property of the passing runs is stated by a
theorem, the refinement included; `theorems` in `PROJECT.json` says which. Two
have a premise beyond these assumptions, told below: `CancelledIsCancelled`
and `PostsAreBounded`.

**StageBindingProofs.** `TypeCorrect` is inductive with the order of creation
of ids. `OneOpen`, `TombstonesFence`, `DeadlinesAlwaysHold` and
`AlwaysForward` follow from it with lemmas on what sweeps and evictions keep:
these only ever remove completed transactions, never an open one.
`ActiveAlwaysLastApplied` needs the invariant that what is recorded for a session is
the last of the applied ones until its eviction; `AppliedAtMostOnce`, that an
applied transaction is no longer open, and that the transactions applied are among
those created.
`cancelPendingByIntent` answers "cancelled" again from the record of an earlier
cancellation, without a look at what came after it. That this is right needs
`CancelInv`: the tombstone of the record is there as long as the record, at
least as young, and has kept the intent closed. It fails when a tombstone is
evicted before its retention is over, so `CancelledIsCancelled` has
`[][KeepsTombstones]_vars` as its premise, and `CancelledWithRoom` shows that
premise, and with it the property, where the table has room for every intent
(`Cardinality(Intents) <= MaxTombstones`). Section 5 tells what happens in a
smaller one. The sizes of the tables are not stated.

**RuntimeAuthorityProofs.** First the two parts by themselves. Of the leases,
`OnePrimary` is inductive with the types: a primary is granted when no active
one is found, after expiry was decided for all leases of the session.
`RetriedClaim` is shown of each method, as a claim either replays an active
lease of its nonce or finds none; `EndedForever` is an action property of each
step. Of `ExclusiveStage`, `GrantOrder`: every load is applied by the loader,
the loader is not older than the last applied one, and primaries are granted
in increasing order.
Then the composition. Every step of the authority is a step of the lease
store or a stutter of it, and a step of the stage-binding state or a stutter of
it (`LeasesAsStored`, `StagesAsStored`), so the theorems of the two modules
hold of the composition. `ClosedWithoutLease` adds the invariant of the
sessions: a lease is granted in an open session only, and a close releases what
there is. `Implements` is the whole refinement,
`Spec => ImplementsExclusiveStage`: from `RefinementInv`,
which joins the invariants of both stores, the primary is the active lease (one
at most, `OnePrimary`), the loader the lease of the executing transaction (one
at most, `OneOpen`), and for each handler what it does with both stores is one
step of `ExclusiveStage` per session. `LaterLeaseWins` carries `GrantOrder` over
to the code: no load of an earlier lease replaces that of a later one.

**SessionCloseProofs.** For any final events, checkpoints, failures and
crashes. A repeated call counts the final events in the log and appends those
that are missing, so everything rests on how the log relates to the list of one
call. `CloseInv` says so in three parts. `Resumed`: the final events of the
checkpoint are never more than it announces; if they are all there they are the
list of one request, and while they are not, they begin the list of the call
at work. `ClosedLast`: a `sessionClosed` event belongs to the last checkpoint,
of a session that is closed, and there is one. `Trailed`, as long as no append
was cut off: each earlier checkpoint has the beginning of an uninterrupted
close, and the last one is at the point of it that status and step tell.
`CloseTypeCorrect`, `OneUninterruptedClose`, `FinalEventsAreComplete` and
`ClosedOnce` follow. `FinalsIn` filters the log by a recursive function; that
it is determined by the log and adds up over what is appended is proved from
the least position where it would not be (`UpToExists`, `UpToAgree`).

**SessionOpeningProofs.** `OpeningInv` speaks of files, of the writes a call has
still to do and of what calls hold in memory: every session file among them is
one its id allows (`FitWrites`). From it `LineageOfIds` (two errors that
`recreateOnce` throws never occur). `PurgedStaysPurged` follows because the
store refuses every write of a purged id, however old the session it is given,
and a purge mark is never taken back.
`LineageIsRecordedOnce`, `AnsweredHasLineage` and `PurgesFromTheLeaf` speak of
the event logs, which are behind the files while a call writes. `LogInv`
therefore says what the writes that are left (`TodoInv`) still owe: none of
their events is in the log or twice among them; each is for a session that is
there, is purged, or is created by the first write; an answer comes last, and
what it needs is recorded or among the writes before it; a file is dropped
when no session names it as its source. A crash or a failing write drops a tail of
the list, which is why an answer comes after what it rests on.

**CfdProofs.** `JobInv` says what the document, the containers, the worker
and the starting service have in common: the worker holds a running run that no
restart waits for; a container of that run exists only while the worker waits
for it; a running run has the worker or waits for the restart; and no call is
taken before the restart is through. `SolverAlwaysNamed`, `OneSolverAtATime`
and `OverForGood` follow from it, `OneRun` with what a step writes into
documents (`DocumentsChange`).
The findings of a run are proved about in the same module, which extends both
(so `CfdFindings` has names of its own: `FindingInit`, `FindingNext`,
`FindingSpec`). `FindingsInv` has the queue of the lock (an
evaluation is in it once, from its request to its end, and the one that works
is the first: `LockInv`) and what the evaluation that works may rely on at each
await (`Knows`): the finding it opens is not in the ledger; before the creation
an annotation that no late request concerns has no issue; before the entry there is one.
`AnnotatedOnce` and `RecordedHasIssue` follow, the second also of the file,
because a restart reads it.

**CallbackOutboxProofs.** `OnlyAcceptedDelivered` holds of memory and of the
file. It is inductive if stated of both, since a restart reads the file.
`AcknowledgedIsKept` adds `Calm`: one pass at most is under way, what it posts is
pending, so the end of a post touches no delivered entry, and the file agrees
with the memory on acknowledged entries. `PostsAreBounded` counts: while no
write fails, the file lags behind the memory by the posts under way
(`FileFollows`), which is what a crash forgets, at most one for each pass; so
an entry has been posted as often as it has attempts, and once more per pass
and crash (`Counted`). It assumes a finite number of passes and at least one attempt
(with a limit of none the code still posts once).

**ConversionAuthorityProofs.** For any number of keys, attempts, tasks and
crashes: `AuthorityTypeCorrect`, `SupersededFailed`, `ChainHasOneEnd` and
`ConvertsOnce`. `AuthorityInv` adds what makes them inductive. The names are a
sequence of the jobs, so the search finds an attempt whatever the order
(`FirstFinds`, by the least index). The job that holds the lock is running, so
the job that ends is not one that was replaced. Every key with an attempt has a
live one, so `Found` is live, and the attempt that is replaced is the one the
chain ends in (`Creation` says what a new job file leaves of the others). And a
job whose converter may run again has run at most once in each earlier process.

**ConversionPipelineProofs.** For any jobs, keys, polls, restarts, retries and
removals. `PipelineInv` says how memory and file fit together, between any two
awaits. `QueueInv`: the queue and the request under way hold the queued jobs of
the file, each in one place. `KeyInv`: of the jobs of a key only the last has
got beyond a failed download, and a removed key has none, unless a crash cut its
removal and no DELETE was repeated since; so the theorem holds for any number of
such crashes, jobs and repeated removals. `ConversionInv`: what
a request, a dispatched job or a poller names is a conversion of its key, so an
answer that arrives late cannot settle another key's job. `CallbackInv`: a job
that may still be called back for has one callback left, plus one for each
crash between outcome and record, failing write and ingest by request so far.
`RequestInv`: a key asks the authority under one identity, and a plain one with
one fingerprint. `QueueIsTheFile`, `EveryDispatchWatched`, `CallbacksPaid`,
`OneAtATime` and `PlainRetryIsReplayed` follow. `ConvertedUnderOneKey` adds the
theorems about the conversion authority: every step of the loop is a step of
the authority or a stutter of it (`AP == INSTANCE ConversionAuthorityProofs`),
so its invariant holds of the composition.

Only model-checked: the liveness properties (`RecoveredAtStartup`,
`ReclaimedInTheEnd`, `EveryConversionEnds`, `EveryIntakeSettles`,
`EveryRunEnds`, `EveryEvaluationEnds`), as fairness and `ENABLED` are out of
the prover's reach, and the counterexamples of section 5.

## 5 Disagreements between the code and its documents

Two have a run that ends in a counterexample of one property, which says what
the document says (`findings` in `PROJECT.json` quotes it).

| Run | What happens |
|---|---|
| `session_opening_terminal` | A stream-config call reads an active session and awaits the probe of its artifacts; the session is closed; the call saves what it had read, and the closed session is active again. |
| `cfd_findings_formal` | The reply to the creation of an element issue is lost. The retry looks among annotations, but governance made an issue of it: a second one is opened. |

Five more have a configuration or a definition of their own, outside the runs:

- `MCCallbackOutboxTwoPasses.cfg` (`AcknowledgedStaysDelivered`): two passes
  await the last attempt of one entry; one succeeds, the other makes a dead
  letter of it (`callbackOutbox.ts:184`).
- `MCConversionPipelineRenamed.cfg` (`RetryIsNotRefused`): a crash with a
  request under way; the rebuilt event is named `model.ifc`, and the authority
  refuses it for ever (`ifcReadyConversionPipeline.ts:1038`).
- `MCConversionPipelineCancelled.cfg` (`NoneIsStuck`): a manual ingest before
  the result is there cancels the poller for good
  (`ifcReadyConversionPipeline.ts:573`).
- `MCConversionPipelineRemoved.cfg` (`RemovedIsNotConverted`): a crash between
  the tombstone (`app.ts:3404`) and the removal of the jobs from the other file
  (3405). The jobs are back after the restart, and a retry, or a repeated intake
  of a dropped job, dispatches one, because `accept` retries before it looks at
  the tombstone. `ifcReadyConversionPipeline.ts:313` says that no intake of a
  removed key is dispatched. Repeating the DELETE, which the code makes
  harmless, removes them.
- `MCCfdJobsFifo.cfg` (`FirstComeFirstServed`): a starting service enqueues the
  newest waiting run first, where `cfd_job_service.py:17` promises a FIFO queue.

Taking a premise away or a bound down shows these:

- `StageBinding`, with `MaxTombstones` 1 and a second cancellation
  (`CancelledMeansNotRunning`): the oldest tombstone is evicted although its
  retention has not passed, and the late request it fenced opens a transaction.
- `SessionClose`: the startup recovery takes up a session that is still active;
  when that fails, `queueTeardownRetry` refuses it, and nothing repeats it.
  `RecoveredAtStartup` is therefore stated of closing and closed sessions.
- `CallbackOutbox`, `AcknowledgedIsDelivered` without `faults = 0`: the file
  cannot be written after an accepted post, and the `catch` of the post makes a
  dead letter of it.
- `ConversionAuthority`: a conversion whose artifacts have gone reads as failed
  (`Result`) and is replayed all the same (`Replaceable` reads what is stored).
- `ConversionAuthority`, `LinksAreKept`: a crash between the two writes of a
  retry leaves two attempts nothing points past.
- `ConversionPipeline`, `NoneIsStuck` with a crash: during `onAfterDownload` it
  leaves a job accepted and downloaded, neither retried nor taken up.
- `SessionOpening`, `AnsweredIsRecorded` without `glued`: an event appended
  after a torn line is lost with it, and one replay does not repair it.
- `CfdFindings`, `OneAnnotationPerFinding` without `delayed`: a creation that is
  carried out after the call has given up doubles even an annotation.
- `CfdJobs`, `OneSolver` during a restart: a newer waiting run may start while
  an older one's container has not been killed yet.

Further behaviour of the models and the code that a team should know of:

- *Stage binding*: the executing load of a lost lease blocks the session until
  its deadline. If appending `stageBindingApplied` throws after Kit has loaded
  the stage, the transaction stays executing. Leases and transactions are in
  memory: after a restart a confirmation finds none.
- *Opening*: a source purged while its recreation awaits the probe leaves an
  orphan, whose `sessionRecreated` event brings the event file of the source
  back. A crash between session file and lineage events of the automatic or the
  legacy open is never repaired. A receipt that was cut off makes every retry of
  its key fail with 409. A request for a model whose recorded session was
  purged opens a second active session.
- *Outbox*: nothing in the repository schedules delivery passes; a request runs
  one.
- *Pipeline*: a crash between outcome and record leaves the record queued; two
  correlation ids with one sanitized form share a result.
- *CFD*: an element finding without a model binding is refused by governance
  with 422, where the documents have it stored as an annotation; the evaluation
  then fails before it reaches a later direction. An issue found again by a
  retry has no origin in the ledger. An exception that leaves `process_run`
  ends the worker thread until the next enqueue.

## 6 What is not modelled

`PROJECT.json` lists every component with a reason. The map covers a small part
of the repository's lines: most of them are generated clients, pages, schemas,
projections and route plumbing, which hold no state that another step reads.

- Not yet: the MinIO watcher, lineage jobs and results, the governance library
  workflow, the browser's side of stage binding, the publication of validation
  records, the idle countdown of the reclaimer, the binding of CFD overlays to
  a session, failures of docker.
- For good: schemas, projections, logs, signing, proxies and pages; what a
  converter, a solver or Kit computes; credentials.
- Of the modelled components: which bundle is chosen for a session and how its
  artifacts are probed, the refusal to remove the record of an active session, a
  job file of the pipeline that cannot be written (the code goes on without it,
  so a later crash forgets what it held), the allocation of Kit instances, reports and histories
  of the ledger, geo references and quality metrics of the conversion client.

## 7 Plan

Done: the modules of section 2, with their proofs. Next, in this order:

1. `ValidationPublication`: the recovery loop of the pipeline
   (`resumeValidationPublications`, retry budgets, the publication in flight),
   composed with the ledger.
2. `SessionOpening` composed with `SessionClose`: a session that is closed and
   recreated at the same time.
3. `IdleReclaim`: peers, activity and countdown, with the promise that an
   active peer's session is not closed as the abstract specification.
4. `LineageJobs`: job store with its leases, result store, reconciler.
5. `MinioWatch`: water mark and manual triggers against the ledger.
6. `StageBindingExecution`: the browser's side, composed with
   `RuntimeAuthority` over messages that get lost.

Proofs to come: the limits of the tables of `StageBinding`; that the steps of
`SessionClose` and `SessionOpening` leave each other's invariants, with their
composition; abstract specifications of the conversion loop and of the close (a
job that is accepted, converted and called back for; a session that is closed
in one step) with the refinement proved as that of `ExclusiveStage` is.
