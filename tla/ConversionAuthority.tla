-------------------------- MODULE ConversionAuthority --------------------------
(***************************************************************************)
(* The conversion authority of the streaming host                          *)
(* (messaging/conversion_authority.py).                                    *)
(*                                                                         *)
(* A request to convert is answered with a conversion job: the live        *)
(* attempt of the request's idempotency key, or a new one, written to a    *)
(* file of its own.  A new attempt that replaces a failed one is linked    *)
(* from it by a second write.  The conversions run in background tasks     *)
(* that a lock serialises; a task is lost when the process ends.  What a   *)
(* conversion has published is read again for every answer: if artifacts   *)
(* have gone, a conversion that succeeded reads as failed.                 *)
(*                                                                         *)
(* Job files are found by name, latest first.  A name holds the second of  *)
(* the creation and a random suffix, so the order of two attempts of one   *)
(* second is open.                                                         *)
(***************************************************************************)
EXTENDS Integers, Sequences, FiniteSets

CONSTANTS
    RequestKeys,    \* idempotency keys of requests
    Fingerprints,   \* what _request_fingerprint tells apart
    MaxConversions, \* bound: conversion jobs created
    MaxTasks,       \* bound: background tasks of one job at a time
    MaxOutages,     \* bound: crashes of the authority's process
    MaxLosses       \* bound: published results that lose an artifact

ASSUME AuthorityAssumption ==
    /\ {MaxConversions, MaxTasks, MaxOutages, MaxLosses} \subseteq Nat
    /\ MaxTasks > 0

VARIABLES
    conversions,    \* conversion_job_id -> its job file
    names,          \* the job files in the order of the search, latest first
    tasks,          \* conversion_job_id -> background tasks not yet ended
    converting,     \* the job whose task holds the conversion lock, or 0
    executed,       \* conversion_job_id -> how often the converter was run
    lost,           \* the jobs whose published artifacts have gone
    outages         \* crashes so far: all, and those that left a link out

authorityVars ==
    <<conversions, names, tasks, converting, executed, lost, outages>>

ConversionIds == 1 .. MaxConversions

Statuses == {"queued", "running", "succeeded", "failed"}

JobFiles ==
    [key : RequestKeys, print : Fingerprints, status : Statuses,
     superseded_by : 0 .. MaxConversions]

AuthorityInit ==
    /\ conversions = [c \in {} |-> {}]
    /\ names = <<>>
    /\ tasks = [c \in ConversionIds |-> 0]
    /\ converting = 0
    /\ executed = [c \in ConversionIds |-> 0]
    /\ lost = {}
    /\ outages = [all |-> 0, unlinked |-> 0]

-----------------------------------------------------------------------------
Created == DOMAIN conversions

Unfinished(c) == conversions[c].status \in {"queued", "running"}

Attempts(k) == {c \in Created : conversions[c].key = k}

Live(k) == {c \in Attempts(k) : conversions[c].superseded_by = 0}

First(S) ==
    names[CHOOSE n \in DOMAIN names :
             names[n] \in S /\ \A m \in 1 .. n - 1 : names[m] \notin S]

(* Mutant: the links are not looked at.                                    *)
MutFound(k) == First(Attempts(k))

(* _find_job_by_idempotency_key.                                           *)
Found(k) == IF Live(k) # {} THEN First(Live(k)) ELSE First(Attempts(k))

(* The new file's place: latest, but for one file of the same second.      *)
Filed(c) ==
    {<<c>> \o names} \cup
    IF names = <<>> THEN {} ELSE {<<Head(names), c>> \o Tail(names)}

NewJob(k, p) ==
    [key |-> k, print |-> p, status |-> "queued", superseded_by |-> 0]

(* What create_conversion_job writes for a new job c, and the link from    *)
(* the attempt `old' that it replaces.                                     *)
Written(c, k, p, old) ==
    [d \in Created \cup {c} |->
        CASE d = c -> NewJob(k, p)
          [] d = old -> [conversions[d] EXCEPT !.superseded_by = c]
          [] OTHER -> conversions[d]]

Scheduled(c) == tasks' = [tasks EXCEPT ![c] = @ + 1]

NewId == Cardinality(Created) + 1

(* The key is known under another fingerprint.                             *)
Refuses(k, p) == Attempts(k) # {} /\ conversions[Found(k)].print # p

(* The attempts a request cannot be answered with.                         *)
Replaceable(c) == conversions[c].status = "failed"

(* create_conversion: a first attempt, or one after a failure.             *)
CreateAttempt(k, p) ==
    /\ Created # ConversionIds
    /\ Attempts(k) # {} => ~Refuses(k, p) /\ Replaceable(Found(k))
    /\ conversions' =
          Written(NewId, k, p, IF Attempts(k) = {} THEN 0 ELSE Found(k))
    /\ names' \in Filed(NewId)
    /\ Scheduled(NewId)
    /\ UNCHANGED <<converting, executed, lost, outages>>

(* An idempotent replay; if the job is not finished, with another task.    *)
ReplayAttempt(k, p) ==
    /\ Attempts(k) # {} /\ ~Refuses(k, p)
    /\ LET c == Found(k)
       IN  /\ ~Replaceable(c)
           /\ IF Unfinished(c)
              THEN tasks[c] < MaxTasks /\ Scheduled(c)
              ELSE UNCHANGED tasks
    /\ UNCHANGED <<conversions, names, converting, executed, lost, outages>>

(* 409: nothing is written.                                                *)
Refuse(k, p) == Refuses(k, p) /\ UNCHANGED authorityVars

-----------------------------------------------------------------------------
(* A background task (complete_conversion_job).                            *)

(* Mutant: the job is not read again under the lock.                       *)
MutBegin(c) ==
    /\ converting = 0
    /\ tasks[c] > 0
    /\ conversions' = [conversions EXCEPT ![c].status = "running"]
    /\ converting' = c
    /\ executed' = [executed EXCEPT ![c] = @ + 1]
    /\ UNCHANGED <<names, tasks, lost, outages>>

(* It takes the lock and finds the job not yet finished.                   *)
Begin(c) ==
    /\ converting = 0
    /\ tasks[c] > 0
    /\ Unfinished(c)
    /\ conversions' = [conversions EXCEPT ![c].status = "running"]
    /\ converting' = c
    /\ executed' = [executed EXCEPT ![c] = @ + 1]
    /\ UNCHANGED <<names, tasks, lost, outages>>

(* The job was finished while the task waited for the lock.                *)
Skip(c) ==
    /\ converting = 0
    /\ tasks[c] > 0
    /\ ~Unfinished(c)
    /\ tasks' = [tasks EXCEPT ![c] = @ - 1]
    /\ UNCHANGED <<conversions, names, converting, executed, lost, outages>>

(* Mutant: a failure is not written.                                       *)
MutEnd(c, status) ==
    /\ converting = c
    /\ conversions' = [conversions EXCEPT ![c].status =
                          IF status = "failed" THEN @ ELSE status]
    /\ converting' = 0
    /\ tasks' = [tasks EXCEPT ![c] = @ - 1]
    /\ UNCHANGED <<names, executed, lost, outages>>

(* The converter returns: a result that passes the gates, or _fail_job.    *)
End(c, status) ==
    /\ converting = c
    /\ conversions' = [conversions EXCEPT ![c].status = status]
    /\ converting' = 0
    /\ tasks' = [tasks EXCEPT ![c] = @ - 1]
    /\ UNCHANGED <<names, executed, lost, outages>>

(* The process ends: what was under way stays "running" in its file.       *)
NoTasks(unlinked) ==
    /\ outages.all < MaxOutages
    /\ outages' = [all |-> outages.all + 1,
                   unlinked |-> outages.unlinked + unlinked]
    /\ tasks' = [c \in ConversionIds |-> 0]
    /\ converting' = 0
    /\ UNCHANGED <<executed, lost>>

Outage == NoTasks(0) /\ UNCHANGED <<conversions, names>>

(* It ends after the new attempt is written and before the old is linked.  *)
OutageBeforeLink(k) ==
    /\ Created # ConversionIds
    /\ Attempts(k) # {} /\ Replaceable(Found(k))
    /\ conversions' = Written(NewId, k, conversions[Found(k)].print, 0)
    /\ names' \in Filed(NewId)
    /\ NoTasks(1)

(* External: an artifact of a published result goes or is changed.         *)
Lose(c) ==
    /\ Cardinality(lost) < MaxLosses
    /\ conversions[c].status = "succeeded"
    /\ c \notin lost
    /\ lost' = lost \cup {c}
    /\ UNCHANGED <<conversions, names, tasks, converting, executed, outages>>

Work ==
    \E c \in Created :
        Begin(c) \/ Skip(c) \/ End(c, "succeeded") \/ End(c, "failed")

AuthorityNext ==
    \/ \E k \in RequestKeys, p \in Fingerprints :
          CreateAttempt(k, p) \/ ReplayAttempt(k, p) \/ Refuse(k, p)
    \/ Work
    \/ \E c \in Created : Lose(c)
    \/ Outage
    \/ \E k \in RequestKeys : OutageBeforeLink(k)

AuthoritySpec == AuthorityInit /\ [][AuthorityNext]_authorityVars

(* The thread pool runs the tasks, and the converter ends every conversion *)
(* (its subprocess has a timeout).                                         *)
FairAuthority == AuthoritySpec /\ WF_authorityVars(Work)

-----------------------------------------------------------------------------
(* _project_job_for_read, of which the result is a part.                   *)
Result(c) ==
    CASE conversions[c].status = "succeeded" /\ c \notin lost -> "ready"
      [] conversions[c].status = "succeeded" /\ c \in lost -> "failed"
      [] conversions[c].status = "failed" -> "failed"
      [] OTHER -> "none"

-----------------------------------------------------------------------------
(* Type correctness; the files are all in the order of the search.         *)
AuthorityTypeOK ==
    /\ Created = 1 .. Cardinality(Created)
    /\ conversions \in [Created -> JobFiles]
    /\ \A c \in Created : \E n \in DOMAIN names : names[n] = c
    /\ Len(names) = Cardinality(Created)
    /\ tasks \in [ConversionIds -> 0 .. MaxTasks]
    /\ converting \in Created \cup {0}
    /\ converting # 0 => tasks[converting] > 0
    /\ executed \in [ConversionIds -> Nat]
    /\ lost \subseteq Created
    /\ outages \in [all : 0 .. MaxOutages, unlinked : 0 .. MaxOutages]

(* An attempt that another one replaces has failed and is older, and the   *)
(* other one is for the same request (_create_conversion_job_locked).      *)
SupersededHasFailed ==
    \A c \in Created : LET d == conversions[c].superseded_by IN
        d # 0 =>
            /\ conversions[c].status = "failed"
            /\ d \in Created /\ d > c
            /\ conversions[d].key = conversions[c].key
            /\ conversions[d].print = conversions[c].print

(* conversion_authority.py:839: the chain links every attempt that was     *)
(* replaced, so one attempt is live; whichever way names of one second     *)
(* are sorted, and it is the only one that can have a result.              *)
LinksAreKept ==
    \A k \in RequestKeys :
        /\ Cardinality(Live(k)) <= 1
        /\ \A c \in Attempts(k) :
              conversions[c].status = "succeeded" => c \in Live(k)

(* That holds through crashes, but for one between the two writes of a     *)
(* retry.                                                                  *)
OneLiveAttempt == outages.unlinked = 0 => LinksAreKept

(* However many requests schedule the job, before and after a crash, its   *)
(* converter runs once in a process: the artifact directory is written by  *)
(* one conversion (complete_conversion_job, read again under the lock).    *)
ConvertedOnce == \A c \in ConversionIds : executed[c] <= 1 + outages.all

(* A conversion that a task waits for comes to an end, whatever fails      *)
(* before it, unless the process ends (complete_conversion_job).           *)
EveryConversionEnds ==
    \A c \in ConversionIds, n \in 0 .. MaxOutages :
        (tasks[c] > 0 /\ outages.all = n)
            ~> ((c \in Created /\ ~Unfinished(c)) \/ outages.all # n)

=============================================================================
