--------------------------- MODULE ConversionPipeline ---------------------------
(***************************************************************************)
(* The conversion loop of the coordinator: the intake of IFC files         *)
(* (services/ifcReadyConversionPipeline.ts) over its store                 *)
(* (externalIfcReadyStore.ts), the serial dispatch queue                   *)
(* (conversionDispatchQueue.ts), the pollers of the streaming client       *)
(* (streamingConversionClient.ts) and the records of conversions           *)
(* (conversionLedger.ts), composed with the ConversionAuthority.           *)
(*                                                                         *)
(* An accepted file is downloaded, its artifacts are checked, and it is    *)
(* queued; one request at a time goes to the authority; a poller waits for *)
(* the result, which becomes a callback, the outcome of the job and the    *)
(* record of its key.  The store is a file written at every change; queue, *)
(* dispatch contexts, pollers and calls under way end with the process.    *)
(*                                                                         *)
(* An idempotency key stands for its correlation id too.                   *)
(***************************************************************************)
EXTENDS Integers, Sequences, FiniteSets, Functions, SequencesExt, FiniteSetsExt

CONSTANTS
    Keys,           \* idempotency keys of intakes
    WithEventId,    \* those whose event has an event_id
    Plain,          \* those whose event is what a rebuilt one would be
    MaxPolls,       \* conversionPollMaxAttempts
    MaxJobs,        \* bound: intake jobs created
    MaxConversions, \* bound: conversion jobs of the authority
    MaxTasks,       \* bound: its background tasks of one job
    MaxOutages,     \* bound: crashes of the authority
    MaxCrashes,     \* bound: crashes of the coordinator
    MaxManual,      \* bound: results that are ingested by a request
    MaxFaults,      \* bound: writes of the outbox or the ledger that fail
    MaxTroubles     \* bound: of the last three together

ASSUME PipelineAssumption ==
    /\ WithEventId \subseteq Keys /\ Plain \subseteq Keys
    /\ {MaxPolls, MaxJobs, MaxConversions, MaxTasks, MaxOutages, MaxCrashes,
        MaxManual, MaxFaults, MaxTroubles} \subseteq Nat
    /\ MaxPolls > 0 /\ MaxTasks > 0

VARIABLES
    store,          \* ifc_ready_job_id -> job, in memory and in the file
    issued,         \* job ids drawn so far
    ledger,         \* idempotency_key -> status of its record
    callbacks,      \* ifc_ready_job_id -> outbox entries enqueued for it
    intake,         \* accept calls under way: job -> what they await
    pending,        \* pendingDispatchEvents: job -> where its event is from
    queue, call,    \* the jobs that wait, and the request under way
    pollers,        \* conversion_job_id -> attempts made
    manual,         \* results that a request is fetching
    requests,       \* results ingested by request so far
    crashes,        \* ends of the process so far, those of them that came
                    \* between a callback and its outcome, and the keys whose
                    \* removal one has cut and none has completed since
    faults          \* writes so far that failed

VARIABLES conversions, names, tasks, converting, executed, lost, outages

Authority == INSTANCE ConversionAuthority WITH
    RequestKeys <- Keys \X {"event", "correlation"},
    Fingerprints <- {"original", "rebuilt"},
    MaxLosses <- 0

authorityVars ==
    <<conversions, names, tasks, converting, executed, lost, outages>>
memory == <<intake, pending, queue, call, pollers, manual>>
pipelineVars ==
    <<store, issued, ledger, callbacks, memory, requests, crashes, faults>>
vars == <<pipelineVars, authorityVars>>

-----------------------------------------------------------------------------
Jobs == 1 .. MaxJobs

NoCall == [job |-> 0, state |-> "idle", conversion |-> 0]

Empty == [j \in {} |-> {}]

Init ==
    /\ store = Empty
    /\ issued = 0
    /\ ledger = [k \in Keys |-> "none"]
    /\ callbacks = [j \in Jobs |-> 0]
    /\ intake = Empty
    /\ pending = Empty
    /\ queue = <<>> /\ call = NoCall
    /\ pollers = Empty
    /\ manual = {}
    /\ requests = 0 /\ faults = 0
    /\ crashes = [all |-> 0, unrecorded |-> 0, unswept |-> {}]
    /\ Authority!AuthorityInit

Troubled == crashes.all + requests + faults >= MaxTroubles

Fault == faults < MaxFaults /\ ~Troubled /\ faults' = faults + 1

Known == DOMAIN store

JobsOf(k) == {j \in Known : store[j].key = k}

(* idempotencyIndex and correlationIndex: the last job of the key.         *)
Latest(k) == Max(JobsOf(k))

With(f, x, y) == [z \in DOMAIN f \cup {x} |-> IF z = x THEN y ELSE f[z]]
Without(f, S) == [z \in DOMAIN f \ S |-> f[z]]

(* updateJob, with a new status, or with the outcome of a conversion.      *)
WithStatus(j, status) == [store EXCEPT ![j].status = status]
WithOutcome(j, outcome) == [store EXCEPT ![j].outcome = outcome]

(* ConversionLedger.upsert: a record that was removed stays as it is.      *)
Recorded(k, status) ==
    IF ledger[k] = "removed" THEN ledger ELSE [ledger EXCEPT ![k] = status]

-----------------------------------------------------------------------------
(* The dispatch queue: enqueue and runWorker.                              *)

Request(j) == [job |-> j, state |-> "sent", conversion |-> 0]

Enqueued(j) ==
    IF call = NoCall
    THEN call' = Request(j) /\ UNCHANGED queue
    ELSE queue' = Append(queue, j) /\ UNCHANGED call

(* The request under way has ended, the next one goes out.                 *)
WorkerGoesOn ==
    IF queue = <<>>
    THEN call' = NoCall /\ UNCHANGED queue
    ELSE call' = Request(Head(queue)) /\ queue' = Tail(queue)

-----------------------------------------------------------------------------
(* accept.                                                                 *)

(* Mutant: a job that has only been accepted is not replayed.              *)
MutFreshIntake(k) ==
    JobsOf(k) # {} => store[Latest(k)].status = "accepted"

(* Whether a request is not answered with the job there is.                *)
FreshIntake(k) ==
    JobsOf(k) # {} =>
        /\ store[Latest(k)].status = "accepted"
        /\ store[Latest(k)].download = "failed"

(* A key that was removed is refused (409).                                *)
Refused(k) == ledger[k] = "removed"

Accept(k) ==
    /\ FreshIntake(k)
    /\ ~Refused(k)
    /\ issued < MaxJobs
    /\ issued' = issued + 1
    /\ store' = With(store, issued + 1,
                     [key |-> k, status |-> "accepted",
                      download |-> "downloading", outcome |-> "open",
                      conversion |-> 0])
    /\ intake' = With(intake, issued + 1, "download")
    /\ UNCHANGED <<ledger, callbacks, pending, queue, call, pollers, manual,
                   requests, crashes, faults, authorityVars>>

(* The intake is answered with the job there is, or refused; a job that    *)
(* was dropped goes to RetryDispatch, before the tombstone is looked up.   *)
Answered(k) ==
    /\ IF FreshIntake(k)
       THEN Refused(k)
       ELSE store[Latest(k)].status # "dropped_on_restart"
    /\ UNCHANGED vars

DownloadFails(j) ==
    /\ intake[j] = "download"
    /\ store' = [store EXCEPT ![j].download = "failed"]
    /\ intake' = Without(intake, {j})
    /\ UNCHANGED <<issued, ledger, callbacks, pending, queue, call, pollers,
                   manual, requests, crashes, faults, authorityVars>>

(* The file and its companions are there; onAfterDownload is awaited.      *)
Downloaded(j) ==
    /\ intake[j] = "download"
    /\ store' = [store EXCEPT ![j].download = "downloaded"]
    /\ intake' = With(intake, j, "check")
    /\ UNCHANGED <<issued, ledger, callbacks, pending, queue, call, pollers,
                   manual, requests, crashes, faults, authorityVars>>

(* The rest of accept; a ledger that fails does not matter.                *)
Queue(j) ==
    /\ intake[j] = "check"
    /\ intake' = Without(intake, {j})
    /\ pending' = With(pending, j, "original")
    /\ Enqueued(j)
    /\ store' = WithStatus(j, "queued_for_conversion")
    /\ \/ ledger' = Recorded(store[j].key, "queued") /\ UNCHANGED faults
       \/ Fault /\ UNCHANGED ledger
    /\ UNCHANGED <<issued, callbacks, pollers, manual, requests, crashes,
                   authorityVars>>

-----------------------------------------------------------------------------
(* dispatchJob.                                                            *)

(* Mutant: every context asks under an identity of its own.                *)
MutRequestKey(j) ==
    <<store[j].key,
      IF pending[j] = "original" THEN "event" ELSE "correlation">>

(* The request's idempotency key at the authority: the event id, or one    *)
(* derived from the correlation id.  A rebuilt event has no event id.      *)
RequestKey(j) ==
    <<store[j].key,
      IF pending[j] = "original" /\ store[j].key \in WithEventId
      THEN "event" ELSE "correlation">>

(* Mutant: a rebuilt event always differs.                                 *)
MutFingerprint(j) == pending[j]

(* A rebuilt event is named model.ifc and asks for the default outputs.    *)
Fingerprint(j) ==
    IF store[j].key \in Plain THEN "original" ELSE pending[j]

(* The request reaches the authority.                                      *)
Arrive ==
    LET k == RequestKey(call.job)
        p == Fingerprint(call.job)
    IN  /\ call.state = "sent"
        /\ \/ /\ Authority!CreateAttempt(k, p)
              /\ call' = [call EXCEPT !.state = "answered",
                                      !.conversion = Authority!NewId]
           \/ /\ Authority!ReplayAttempt(k, p)
              /\ call' = [call EXCEPT !.state = "answered",
                                      !.conversion = Authority!Found(k)]
           \/ /\ Authority!Refuse(k, p)
              /\ call' = [call EXCEPT !.state = "refused"]
        /\ UNCHANGED <<store, issued, ledger, callbacks, intake, pending,
                       queue, pollers, manual, requests, crashes, faults>>

(* Its answer arrives: markDispatched, and a poller.                       *)
Dispatched ==
    /\ call.state = "answered"
    /\ store' = [store EXCEPT ![call.job].status = "dispatched",
                              ![call.job].outcome = "open",
                              ![call.job].conversion = call.conversion]
    /\ pending' = Without(pending, {call.job})
    /\ pollers' = IF call.conversion \in DOMAIN pollers THEN pollers
                  ELSE With(pollers, call.conversion, 0)
    /\ WorkerGoesOn
    /\ UNCHANGED <<issued, ledger, callbacks, intake, manual, requests,
                   crashes, faults, authorityVars>>

(* It is refused, does not arrive in time, or its answer is lost.          *)
DispatchFails ==
    /\ call # NoCall
    /\ store' = [store EXCEPT ![call.job].status = "dispatch_failed",
                              ![call.job].outcome = "open"]
    /\ WorkerGoesOn
    /\ UNCHANGED <<issued, ledger, callbacks, intake, pending, pollers,
                   manual, requests, crashes, faults, authorityVars>>

-----------------------------------------------------------------------------
(* ingest: the callback, the outcome and the record, in this order.        *)

CorrelationOf(c) == conversions[c].key[1]

Callback(j) == callbacks' = [callbacks EXCEPT ![j] = @ + 1]

(* A result for a correlation id.  Where the outbox cannot be written, the *)
(* entry is enqueued all the same and the ingest ends there; a ledger that *)
(* cannot be written does not matter.                                      *)
Ingested(k, verdict) ==
    IF JobsOf(k) = {}
    THEN UNCHANGED <<store, ledger, callbacks, faults>>
    ELSE /\ Callback(Latest(k))
         /\ \/ /\ store' = WithOutcome(Latest(k), verdict)
               /\ ledger' = Recorded(k, verdict)
               /\ UNCHANGED faults
            \/ /\ Fault
               /\ store' \in {store, WithOutcome(Latest(k), verdict)}
               /\ UNCHANGED ledger

Terminal(c) == Authority!Result(c) # "none"

(* An attempt of a poller that has an answer, but no result, or none.      *)
PollInVain(c) ==
    /\ pollers[c] + 1 < MaxPolls
    /\ pollers' = [pollers EXCEPT ![c] = @ + 1]
    /\ UNCHANGED <<store, issued, ledger, callbacks, intake, pending, queue,
                   call, manual, requests, crashes, faults, authorityVars>>

Poll(c) ==
    /\ Terminal(c)
    /\ Ingested(CorrelationOf(c), Authority!Result(c))
    /\ pollers' = Without(pollers, {c})
    /\ UNCHANGED <<issued, intake, pending, queue, call, manual, requests,
                   crashes, authorityVars>>

(* Mutant: the synthetic result has no correlation id, and is refused.     *)
MutPollTimeout(c) ==
    /\ pollers[c] + 1 >= MaxPolls
    /\ pollers' = Without(pollers, {c})
    /\ UNCHANGED <<store, issued, ledger, callbacks, intake, pending, queue,
                   call, manual, requests, crashes, faults, authorityVars>>

(* The last attempt was in vain: the result is a synthetic failure.        *)
PollTimeout(c) ==
    /\ pollers[c] + 1 >= MaxPolls
    /\ Ingested(CorrelationOf(c), "failed")
    /\ pollers' = Without(pollers, {c})
    /\ UNCHANGED <<issued, intake, pending, queue, call, manual, requests,
                   crashes, authorityVars>>

(* ingestStreamingResult for a request: the poller is cancelled first.     *)
ManualIngest(c) ==
    /\ requests < MaxManual /\ ~Troubled
    /\ requests' = requests + 1
    /\ c \notin manual
    /\ pollers' = Without(pollers, {c})
    /\ manual' = manual \cup {c}
    /\ UNCHANGED <<store, issued, ledger, callbacks, intake, pending, queue,
                   call, crashes, faults, authorityVars>>

ManualResult(c) ==
    /\ Terminal(c)
    /\ Ingested(CorrelationOf(c), Authority!Result(c))
    /\ manual' = manual \ {c}
    /\ UNCHANGED <<issued, intake, pending, queue, call, pollers, requests,
                   crashes, authorityVars>>

(* The fetch fails, or the result is not terminal yet (409).               *)
ManualInVain(c) ==
    /\ manual' = manual \ {c}
    /\ UNCHANGED <<store, issued, ledger, callbacks, intake, pending, queue,
                   call, pollers, requests, crashes, faults, authorityVars>>

(* /api/internal/conversion-result: a report of a result.                  *)
Report(c) ==
    /\ requests < MaxManual /\ ~Troubled
    /\ requests' = requests + 1
    /\ Terminal(c)
    /\ Ingested(CorrelationOf(c), Authority!Result(c))
    /\ UNCHANGED <<issued, intake, pending, queue, call, pollers, manual,
                   crashes, authorityVars>>

-----------------------------------------------------------------------------
(* The operator.                                                           *)

Retryable(j) == store[j].status \in {"dispatch_failed", "dropped_on_restart"}

(* retryDispatch, which accept calls too for a job that was dropped; the   *)
(* context is rebuilt from the job if it is gone (dispatch is serial, so   *)
(* the job is neither queued nor under way).                               *)
RetryDispatch(j) ==
    /\ Retryable(j)
    /\ j \in DOMAIN pending \/ store[j].download = "downloaded"
    /\ pending' = IF j \in DOMAIN pending THEN pending
                  ELSE With(pending, j, "rebuilt")
    /\ Enqueued(j)
    /\ store' = WithStatus(j, "queued_for_conversion")
    /\ UNCHANGED <<issued, ledger, callbacks, intake, pollers, manual,
                   requests, crashes, faults, authorityVars>>

Prioritize(n) ==
    /\ queue' = <<queue[n]>> \o RemoveAt(queue, n)
    /\ UNCHANGED <<store, issued, ledger, callbacks, intake, pending, call,
                   pollers, manual, requests, crashes, faults, authorityVars>>

(* A request to convert again announces its key (reconversionRequests.ts). *)
Detect(k) ==
    /\ ledger[k] = "none"
    /\ ledger' = [ledger EXCEPT ![k] = "detected"]
    /\ UNCHANGED <<store, issued, callbacks, intake, pending, queue, call,
                   pollers, manual, requests, crashes, faults, authorityVars>>

(* The intake it asked for was refused or could not be downloaded.         *)
ReconversionFails(k) ==
    /\ ledger[k] = "detected"
    /\ JobsOf(k) # {} => store[Latest(k)].download = "failed"
    /\ ledger' = [ledger EXCEPT ![k] = "failed"]
    /\ UNCHANGED <<store, issued, callbacks, intake, pending, queue, call,
                   pollers, manual, requests, crashes, faults, authorityVars>>

InFlight(j) ==
    \/ store[j].status = "accepted" /\ store[j].download # "failed"
    \/ store[j].status = "queued_for_conversion"
    \/ store[j].status = "dispatched" /\ store[j].outcome = "open"

Removable(k) == ledger[k] # "none" /\ \A j \in JobsOf(k) : ~InFlight(j)

(* ConversionLedger.remove: the tombstone.                                 *)
Tombstone(k) == ledger' = [ledger EXCEPT ![k] = "removed"]

(* DELETE of a record, or once more of a tombstone: the jobs of the key go *)
(* too.  Where the tombstone cannot be written, nothing happens.           *)
RemoveRecord(k) ==
    /\ Removable(k)
    /\ Tombstone(k)
    /\ store' = Without(store, JobsOf(k))
    /\ crashes' = [crashes EXCEPT !.unswept = @ \ {k}]
    /\ UNCHANGED <<issued, callbacks, intake, pending, queue, call, pollers,
                   manual, requests, faults, authorityVars>>

-----------------------------------------------------------------------------
(* The process ends and a new one starts.                                  *)

(* Mutant: jobs that waited are loaded as they were.                       *)
MutReloaded(jobs) ==
    [j \in DOMAIN jobs |->
        [jobs[j] EXCEPT
            !.download = IF @ = "downloading" THEN "failed" ELSE @]]

(* loadFromDisk.                                                           *)
Reloaded(jobs) ==
    [j \in DOMAIN jobs |->
        [jobs[j] EXCEPT
            !.status = IF @ = "queued_for_conversion"
                       THEN "dropped_on_restart" ELSE @,
            !.download = IF @ = "downloading" THEN "failed" ELSE @]]

(* Mutant: jobs that have an outcome are polled again.                     *)
MutUnwatched(jobs) ==
    {jobs[j].conversion : j \in {i \in DOMAIN jobs :
        jobs[i].status = "dispatched"}}

(* Mutant: the pollers end with the process (issue 804).                   *)
MutNotResumed(jobs) == {}

(* resumePersistedDispatchedPollers.                                       *)
Unwatched(jobs) ==
    {jobs[j].conversion : j \in {i \in DOMAIN jobs :
        jobs[i].status = "dispatched" /\ jobs[i].outcome = "open"}}

(* A new process, over the file of the one before.                         *)
Starts(jobs, unrecorded, unswept) ==
    /\ crashes.all < MaxCrashes /\ ~Troubled
    /\ crashes' = [crashes EXCEPT !.all = @ + 1,
                                  !.unrecorded = @ + unrecorded,
                                  !.unswept = @ \cup unswept]
    /\ store' = Reloaded(jobs)
    /\ pollers' = [c \in Unwatched(Reloaded(jobs)) |-> 0]
    /\ intake' = Empty /\ pending' = Empty
    /\ queue' = <<>> /\ call' = NoCall
    /\ manual' = {}
    /\ UNCHANGED <<issued, faults, authorityVars>>

Restart == Starts(store, 0, {}) /\ UNCHANGED <<ledger, callbacks, requests>>

(* The process ends in the middle of an ingest, of a poller, a request or  *)
(* a report: before the outcome is written, or before the record is.       *)
CrashInIngest(c, verdict) ==
    LET k == CorrelationOf(c)
    IN  /\ \/ /\ Terminal(c) /\ verdict = Authority!Result(c)
              /\ \/ c \in DOMAIN pollers \cup manual /\ UNCHANGED requests
                 \/ requests < MaxManual /\ requests' = requests + 1
           \/ /\ c \in DOMAIN pollers /\ pollers[c] + 1 >= MaxPolls
              /\ verdict = "failed" /\ UNCHANGED requests
        /\ JobsOf(k) # {}
        /\ Callback(Latest(k))
        /\ \/ Starts(store, 1, {})
           \/ Starts(WithOutcome(Latest(k), verdict), 0, {})
        /\ UNCHANGED ledger

(* The process ends after the tombstone and before the jobs have gone: the *)
(* new one finds them in the file.                                         *)
CrashInRemoval(k) ==
    /\ Removable(k) /\ ledger[k] # "removed"
    /\ Tombstone(k)
    /\ Starts(store, 0, {k})
    /\ UNCHANGED <<callbacks, requests>>

AuthorityStep ==
    /\ Authority!Work \/ Authority!Outage
    /\ UNCHANGED pipelineVars

Next ==
    \/ \E k \in Keys :
          \/ Accept(k) \/ Answered(k)
          \/ Detect(k) \/ ReconversionFails(k) \/ RemoveRecord(k)
    \/ \E j \in DOMAIN intake : DownloadFails(j) \/ Downloaded(j) \/ Queue(j)
    \/ Arrive \/ Dispatched \/ DispatchFails
    \/ \E c \in DOMAIN pollers : PollInVain(c) \/ Poll(c) \/ PollTimeout(c)
    \/ \E c \in Authority!Created : ManualIngest(c) \/ Report(c)
    \/ \E c \in manual : ManualResult(c) \/ ManualInVain(c)
    \/ \E j \in Known : RetryDispatch(j)
    \/ \E n \in DOMAIN queue : Prioritize(n)
    \/ Restart
    \/ \E c \in Authority!Created, verdict \in {"ready", "failed"} :
          CrashInIngest(c, verdict)
    \/ \E k \in Keys : CrashInRemoval(k)
    \/ AuthorityStep

Spec == Init /\ [][Next]_vars

(* Downloads, requests and attempts of pollers end: each has a timeout.    *)
Fairness ==
    /\ \A j \in Jobs : WF_vars(/\ j \in DOMAIN intake
                               /\ DownloadFails(j) \/ Downloaded(j) \/ Queue(j))
    /\ WF_vars(Arrive \/ Dispatched \/ DispatchFails)
    /\ \A c \in 1 .. MaxConversions :
          WF_vars(/\ c \in DOMAIN pollers
                  /\ PollInVain(c) \/ Poll(c) \/ PollTimeout(c))

FairSpec == Spec /\ Fairness

-----------------------------------------------------------------------------
(* The queue and the file agree, through retries and restarts: the jobs    *)
(* that wait or are under way are those the operator sees as queued, and   *)
(* none is there twice (runWorker, requeue, loadFromDisk).                 *)
QueuedIsCarried ==
    LET carried == ToSet(queue) \cup ({call.job} \ {0})
    IN  /\ carried = {j \in Known : store[j].status = "queued_for_conversion"}
        /\ Cardinality(carried) =
              Len(queue) + (IF call = NoCall THEN 0 ELSE 1)

(* A job that was dispatched and has no outcome has a poller, in a new     *)
(* process too (resumePersistedDispatchedPollers): as long as no request   *)
(* has ingested a result and every write succeeds.                         *)
DispatchedIsWatched ==
    requests = 0 /\ faults = 0 =>
        \A j \in Known :
            store[j].status = "dispatched" /\ store[j].outcome = "open" =>
                store[j].conversion \in DOMAIN pollers

(* The cloud is called back for a job once, and once more only for a crash *)
(* between the callback and the outcome, a failing write there, or a       *)
(* result that a request ingests: no other restart repeats it (the order   *)
(* in ingest, and resumePersistedDispatchedPollers).                       *)
CallbacksBounded ==
    \A j \in Jobs :
        callbacks[j] <= 1 + crashes.unrecorded + faults + requests

(* Intakes of one key that come at any moment of an earlier one's life     *)
(* never convert it twice at a time, and a key that was removed has no job *)
(* at all, whatever was awaited when the operator removed it (accept,      *)
(* DELETE of a record).  A crash between the tombstone and the removal of  *)
(* the jobs leaves those there are, until the DELETE is repeated.          *)
OneJobInFlight ==
    \A k \in Keys :
        /\ Cardinality({j \in JobsOf(k) : InFlight(j)}) <= 1
        /\ ledger[k] = "removed" /\ k \notin crashes.unswept =>
              JobsOf(k) = {}

(* No job of a key that was removed is converted: an intake of it is       *)
(* refused and dispatches nothing (ifcReadyConversionPipeline.ts:313).     *)
RemovedIsNotConverted ==
    \A j \in Known : ledger[store[j].key] = "removed" => ~InFlight(j)

(* The authority takes a retry for the request it repeats, be its context  *)
(* the original one or a rebuilt one: it does not refuse it                *)
(* (ifcReadyConversionPipeline.ts:289, the recovery of a dropped job).     *)
RetryIsNotRefused == call.state # "refused"

(* That holds where a rebuilt event is what the original one was.          *)
PlainRetryIsNotRefused ==
    call.job \in Known /\ store[call.job].key \in Plain => RetryIsNotRefused

(* For the same reason a key without an event id has one conversion that   *)
(* has not failed, although answers are lost and the coordinator crashes   *)
(* with a request under way.                                               *)
OneConversionPerKey ==
    \A k \in Keys \ WithEventId :
        Cardinality({c \in Authority!Created :
            /\ CorrelationOf(c) = k
            /\ conversions[c].status # "failed"}) <= 1

Settled(j) ==
    \/ store[j].download = "failed"
    \/ store[j].status = "dispatch_failed"
    \/ store[j].outcome \in {"ready", "failed"}

(* While the process runs, every intake comes to an end the operator sees, *)
(* though the authority may crash (dispatchJob, the poller's timeout).     *)
EveryIntakeSettles ==
    \A j \in Jobs : j \in Known ~> (j \in Known => Settled(j))

(* A job is under way, has come to an end, or can be retried: none is      *)
(* stuck (ifcReadyConversionPipeline.ts:354, 940).                         *)
NoneIsStuck ==
    \A j \in Known :
        \/ Settled(j) \/ Retryable(j)
        \/ j \in DOMAIN intake
        \/ store[j].status = "queued_for_conversion"
        \/ /\ store[j].status = "dispatched"
           /\ store[j].conversion \in DOMAIN pollers \cup manual

=============================================================================
