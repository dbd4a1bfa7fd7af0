------------------------ MODULE ConversionPipelineProofs ------------------------
(***************************************************************************)
(* What holds of the conversion loop for any intakes, polls, restarts,     *)
(* retries and removals.                                                   *)
(*                                                                         *)
(* PipelineInv says how the volatile state and the file fit together: what *)
(* an intake awaits, the queue and the call hold the queued jobs; only the *)
(* last job of a key has got beyond a failed download; a call, a job and a *)
(* poller name a conversion of their key; what may still be called back    *)
(* for has not been.  AP!AuthorityInv is the invariant of the conversion   *)
(* authority that the loop drives.                                         *)
(***************************************************************************)
EXTENDS ConversionPipeline, FiniteSetTheorems, SequenceTheorems, TLAPS

AP == INSTANCE ConversionAuthorityProofs WITH
    RequestKeys <- Keys \X {"event", "correlation"},
    Fingerprints <- {"original", "rebuilt"},
    MaxLosses <- 0

JobStates ==
    {"accepted", "queued_for_conversion", "dispatched", "dispatch_failed",
     "dropped_on_restart"}

JobRecords ==
    [key : Keys, status : JobStates,
     download : {"downloading", "downloaded", "failed"},
     outcome : {"open", "ready", "failed"},
     conversion : 0 .. MaxConversions]

PipelineTypeOK ==
    /\ issued \in 0 .. MaxJobs
    /\ Known \subseteq 1 .. issued
    /\ store \in [Known -> JobRecords]
    /\ ledger \in [Keys -> {"none", "detected", "queued", "ready", "failed",
                            "removed"}]
    /\ callbacks \in [Jobs -> Nat]
    /\ call \in [job : 0 .. MaxJobs, conversion : 0 .. MaxConversions,
                 state : {"idle", "sent", "answered", "refused"}]
    /\ pollers \in [DOMAIN pollers -> Nat]
    /\ requests \in Nat /\ faults \in Nat
    /\ crashes \in [all : Nat, unrecorded : Nat, unswept : SUBSET Keys]

(* What is awaited for a job that has only been accepted.                  *)
IntakeInv ==
    \A j \in DOMAIN intake :
        /\ j \in Known /\ store[j].status = "accepted"
        /\ store[j].download # "failed"
        /\ intake[j] = "download" => store[j].download = "downloading"

(* The queue and the call hold the queued jobs, each in one place.         *)
QueueInv ==
    /\ queue \in Seq(Nat)
    /\ \A n \in DOMAIN queue :
          /\ queue[n] \in Known
          /\ store[queue[n]].status = "queued_for_conversion"
          /\ queue[n] # call.job
    /\ \A m, n \in DOMAIN queue : queue[m] = queue[n] => m = n
    /\ call = NoCall <=> call.job = 0
    /\ call # NoCall =>
          /\ call.job \in Known
          /\ store[call.job].status = "queued_for_conversion"
    /\ \A j \in Known :
          store[j].status = "queued_for_conversion" =>
              j = call.job \/ \E n \in DOMAIN queue : queue[n] = j

GivenUp(j) == store[j].status = "accepted" /\ store[j].download = "failed"

(* Of the jobs of a key only the last has got beyond a failed download, and *)
(* a key whose removal was carried through has none.                       *)
KeyInv ==
    /\ \A k \in Keys :
          ledger[k] = "removed" /\ k \notin crashes.unswept => JobsOf(k) = {}
    /\ \A k \in Keys : JobsOf(k) # {} =>
          \E last \in JobsOf(k) :
              \A j \in JobsOf(k) : j <= last /\ (j # last => GivenUp(j))

OfKey(c, k) == c \in Authority!Created /\ CorrelationOf(c) = k

(* A poller that a report left behind may outlive the jobs of its key.     *)
Gone(k) == ledger[k] = "removed" /\ JobsOf(k) = {}

(* Whose conversion it is that a call, a job or a poller names.            *)
ConversionInv ==
    /\ call.state = "answered" => OfKey(call.conversion, store[call.job].key)
    /\ \A j \in Known :
          store[j].status = "dispatched" =>
              OfKey(store[j].conversion, store[j].key)
    /\ DOMAIN pollers \cup manual \subseteq Authority!Created
    /\ \A c \in DOMAIN pollers :
          \/ Gone(CorrelationOf(c))
          \/ \E j \in JobsOf(CorrelationOf(c)) :
                store[j].status = "dispatched" /\ store[j].conversion = c

(* A job may be called back for again: it has no outcome, or a poller.     *)
Awaited(j) ==
    \/ store[j].status # "dispatched"
    \/ store[j].outcome = "open"
    \/ store[j].conversion \in DOMAIN pollers

CallbackBound == 1 + crashes.unrecorded + faults + requests

CallbackInv ==
    /\ IsFiniteSet(manual) /\ Cardinality(manual) <= requests
    /\ \A j \in Jobs :
          /\ callbacks[j] <= CallbackBound
          /\ j > issued => callbacks[j] = 0
          /\ j \in Known =>
                callbacks[j] + Cardinality(manual)
                    + (IF Awaited(j) THEN 1 ELSE 0) <= CallbackBound

(* A key asks under one identity, and a plain one with one fingerprint.    *)
RequestInv ==
    /\ \A c \in Authority!Created :
          /\ CorrelationOf(c) \notin WithEventId =>
                conversions[c].key[2] = "correlation"
          /\ CorrelationOf(c) \in Plain => conversions[c].print = "original"
    /\ \A j \in DOMAIN pending : pending[j] \in {"original", "rebuilt"}
    /\ call # NoCall => call.job \in DOMAIN pending
    /\ \A n \in DOMAIN queue : queue[n] \in DOMAIN pending
    /\ outages.unlinked = 0 /\ lost = {}

PipelineInv ==
    /\ PipelineTypeOK /\ IntakeInv /\ QueueInv /\ KeyInv /\ ConversionInv
    /\ CallbackInv /\ RequestInv
    /\ DispatchedIsWatched /\ PlainRetryIsNotRefused

-----------------------------------------------------------------------------
(***************************************************************************)
(* The steps of the loop are steps of the authority, of which there are    *)
(* two instances: the operators they share are the same.                   *)
(***************************************************************************)
LEMMA AuthorityConstants ==
    /\ {MaxConversions, MaxTasks, MaxOutages, 0} \subseteq Nat
    /\ MaxTasks > 0
BY PipelineAssumption

LEMMA SameCardinality ==
    ASSUME NEW S
    PROVE  /\ Authority!Cardinality(S) = Cardinality(S)
           /\ AP!Cardinality(S) = Cardinality(S)
BY DEF Authority!Cardinality, AP!Cardinality, Cardinality

LEMMA SameAttempts ==
    /\ Authority!Created = AP!Created
    /\ Authority!ConversionIds = AP!ConversionIds
    /\ \A k : Authority!Attempts(k) = AP!Attempts(k)
    /\ \A k : Authority!Live(k) = AP!Live(k)
    /\ \A S : Authority!First(S) = AP!First(S)
    /\ Authority!NewId = AP!NewId
    /\ \A c : Authority!Unfinished(c) <=> AP!Unfinished(c)
    /\ \A c : Authority!Replaceable(c) <=> AP!Replaceable(c)
<1>1. \A k : Authority!Attempts(k) = AP!Attempts(k)
  BY DEF Authority!Attempts, AP!Attempts, Authority!Created, AP!Created
<1>2. \A k : Authority!Live(k) = AP!Live(k)
  BY <1>1 DEF Authority!Live, AP!Live
<1>3. Authority!NewId = AP!NewId
  BY SameCardinality
     DEF Authority!NewId, AP!NewId, Authority!Created, AP!Created
<1> QED
  BY <1>1, <1>2, <1>3
     DEF Authority!Created, AP!Created, Authority!ConversionIds,
         AP!ConversionIds, Authority!First, AP!First, Authority!Unfinished,
         AP!Unfinished, Authority!Replaceable, AP!Replaceable

LEMMA SameFound ==
    /\ \A k : Authority!Found(k) = AP!Found(k)
    /\ \A k, p : Authority!Refuses(k, p) <=> AP!Refuses(k, p)
<1>1. \A k : Authority!Found(k) = AP!Found(k)
  BY SameAttempts DEF Authority!Found, AP!Found
<1> QED
  BY <1>1, SameAttempts DEF Authority!Refuses, AP!Refuses

LEMMA SameCreate ==
    ASSUME NEW k, NEW p, Authority!CreateAttempt(k, p)
    PROVE  AP!CreateAttempt(k, p)
<1>1. \A c, old : Authority!Written(c, k, p, old) = AP!Written(c, k, p, old)
  BY SameAttempts
     DEF Authority!Written, AP!Written, Authority!NewJob, AP!NewJob
<1>2. \A c : Authority!Filed(c) = AP!Filed(c)
  BY DEF Authority!Filed, AP!Filed
<1> QED
  BY <1>1, <1>2, SameAttempts, SameFound
     DEF Authority!CreateAttempt, AP!CreateAttempt, Authority!Scheduled,
         AP!Scheduled

LEMMA SameReplay ==
    ASSUME NEW k, NEW p
    PROVE  /\ Authority!ReplayAttempt(k, p) => AP!ReplayAttempt(k, p)
           /\ Authority!Refuse(k, p) => AP!Refuse(k, p)
BY SameAttempts, SameFound
   DEF Authority!ReplayAttempt, AP!ReplayAttempt, Authority!Scheduled,
       AP!Scheduled, Authority!Refuse, AP!Refuse, Authority!authorityVars,
       AP!authorityVars

LEMMA SameWork == Authority!Work => AP!Work
BY SameAttempts
   DEF Authority!Work, AP!Work, Authority!Begin, AP!Begin, Authority!Skip,
       AP!Skip, Authority!End, AP!End

LEMMA SameOutage == Authority!Outage => AP!Outage
BY SameAttempts
   DEF Authority!Outage, AP!Outage, Authority!NoTasks, AP!NoTasks

(* What a step of the loop does to the authority.                          *)
AuthoritySame ==
    /\ Authority!Created \subseteq Authority!Created'
    /\ \A c \in Authority!Created :
          /\ conversions'[c].key = conversions[c].key
          /\ conversions'[c].print = conversions[c].print
    /\ outages'.unlinked = outages.unlinked /\ lost' = lost

LEMMA JobFiles ==
    ASSUME AP!AuthorityInv
    PROVE  /\ Authority!Created \subseteq 1 .. MaxConversions
           /\ \A c \in Authority!Created :
                 /\ conversions[c].key \in Keys \X {"event", "correlation"}
                 /\ conversions[c].print \in {"original", "rebuilt"}
                 /\ CorrelationOf(c) \in Keys
<1>1. AP!Created \subseteq 1 .. MaxConversions
  BY AP!JobsAreIds, AuthorityConstants DEF AP!ConversionIds
<1>2. conversions \in [AP!Created -> AP!JobFiles]
  BY DEF AP!AuthorityInv, AP!AuthorityTypeOK
<1>3. ASSUME NEW c \in AP!Created
      PROVE  /\ conversions[c].key \in Keys \X {"event", "correlation"}
             /\ conversions[c].print \in {"original", "rebuilt"}
  <2>1. conversions[c] \in AP!JobFiles
    BY <1>2
  <2> QED
    BY <2>1 DEF AP!JobFiles
<1> QED
  BY <1>1, <1>3, SameAttempts DEF CorrelationOf

LEMMA FoundIsAttempt ==
    ASSUME AP!AuthorityInv, NEW k \in Keys \X {"event", "correlation"},
           Authority!Attempts(k) # {}
    PROVE  /\ Authority!Found(k) \in Authority!Created
           /\ conversions[Authority!Found(k)].key = k
<1>1. AP!Found(k) \in AP!Live(k)
  BY AP!FoundAttempt, AuthorityConstants, SameAttempts
<1> QED
  BY <1>1, SameFound, SameAttempts DEF AP!Live, AP!Attempts

LEMMA NewIsNew ==
    ASSUME AP!AuthorityInv, Authority!Created # Authority!ConversionIds
    PROVE  /\ Authority!NewId \in 1 .. MaxConversions
           /\ Authority!NewId \notin Authority!Created
<1>1. AP!AuthorityTypeOK /\ AP!Named
  BY DEF AP!AuthorityInv
<1> QED
  BY <1>1, AP!OneMore, AuthorityConstants, SameAttempts DEF AP!ConversionIds

LEMMA CreatedAttempt ==
    ASSUME AP!AuthorityInv, NEW k \in Keys \X {"event", "correlation"}, NEW p,
           Authority!CreateAttempt(k, p)
    PROVE  /\ Authority!NewId \in 1 .. MaxConversions
           /\ Authority!NewId \notin Authority!Created
           /\ Authority!Created' = Authority!Created \cup {Authority!NewId}
           /\ conversions'[Authority!NewId].key = k
           /\ conversions'[Authority!NewId].print = p
           /\ AuthoritySame
<1> DEFINE id == Authority!NewId
           old == IF Authority!Attempts(k) = {} THEN 0 ELSE Authority!Found(k)
<1>1. id \in 1 .. MaxConversions /\ id \notin Authority!Created
  BY NewIsNew DEF Authority!CreateAttempt
<1>2. /\ conversions' = Authority!Written(id, k, p, old)
      /\ outages' = outages /\ lost' = lost
  BY DEF Authority!CreateAttempt
<1>a. old # id
  BY <1>1, FoundIsAttempt
<1> HIDE DEF id, old
<1>3. /\ Authority!Created' = Authority!Created \cup {id}
      /\ conversions'[id].key = k /\ conversions'[id].print = p
  <2>1. DOMAIN conversions' = Authority!Created \cup {id}
    BY <1>2 DEF Authority!Written
  <2>2. conversions'[id] = Authority!NewJob(k, p)
    BY <1>2, <1>a DEF Authority!Written
  <2> QED
    BY <2>1, <2>2 DEF Authority!NewJob, Authority!Created
<1>4. ASSUME NEW c \in Authority!Created
      PROVE  /\ conversions'[c].key = conversions[c].key
             /\ conversions'[c].print = conversions[c].print
  <2>1. c # id
    BY <1>1
  <2>2. conversions[c] \in AP!JobFiles
    BY SameAttempts DEF AP!AuthorityInv, AP!AuthorityTypeOK
  <2>3. \/ conversions'[c] = conversions[c]
        \/ conversions'[c] = [conversions[c] EXCEPT !.superseded_by = id]
    BY <1>2, <2>1 DEF Authority!Written
  <2> QED
    BY <2>2, <2>3 DEF AP!JobFiles
<1> QED
  BY <1>1, <1>2, <1>3, <1>4 DEF AuthoritySame, id

LEMMA AuthorityStays ==
    ASSUME UNCHANGED authorityVars
    PROVE  AuthoritySame /\ Authority!Created' = Authority!Created
BY DEF authorityVars, AuthoritySame, Authority!Created

LEMMA AuthorityWorks ==
    ASSUME AP!AuthorityInv, Authority!Work \/ Authority!Outage
    PROVE  AuthoritySame /\ Authority!Created' = Authority!Created
<1>1. \A c \in Authority!Created : conversions[c] \in AP!JobFiles
  BY SameAttempts DEF AP!AuthorityInv, AP!AuthorityTypeOK
<1>2. outages \in [all : 0 .. MaxOutages, unlinked : 0 .. MaxOutages]
  BY DEF AP!AuthorityInv, AP!AuthorityTypeOK
<1>3. CASE Authority!Outage
  <2>1. outages'.unlinked = outages.unlinked
    BY <1>2, <1>3, AuthorityConstants DEF Authority!Outage, Authority!NoTasks
  <2> QED
    BY <1>3, <2>1
       DEF Authority!Outage, Authority!NoTasks, AuthoritySame, Authority!Created
<1>4. ASSUME NEW c \in Authority!Created,
             \/ conversions' = conversions
             \/ \E s : conversions' = [conversions EXCEPT ![c].status = s]
      PROVE  /\ Authority!Created' = Authority!Created
             /\ \A d \in Authority!Created :
                   /\ conversions'[d].key = conversions[d].key
                   /\ conversions'[d].print = conversions[d].print
  BY <1>1, <1>4 DEF Authority!Created, AP!JobFiles
<1>5. CASE Authority!Work
  <2>1. PICK c \in Authority!Created :
            \/ Authority!Begin(c) \/ Authority!Skip(c)
            \/ Authority!End(c, "succeeded") \/ Authority!End(c, "failed")
    BY <1>5 DEF Authority!Work
  <2>2. /\ \/ conversions' = conversions
           \/ \E s : conversions' = [conversions EXCEPT ![c].status = s]
        /\ outages' = outages /\ lost' = lost
    BY <2>1 DEF Authority!Begin, Authority!Skip, Authority!End
  <2> QED
    BY <1>4, <2>2 DEF AuthoritySame
<1> QED
  BY <1>3, <1>5

-----------------------------------------------------------------------------
(***************************************************************************)
(* The jobs of a key.                                                      *)
(***************************************************************************)
LEMMA LastOfKey ==
    ASSUME PipelineTypeOK, KeyInv, NEW k \in Keys, JobsOf(k) # {}
    PROVE  /\ Latest(k) \in Known /\ store[Latest(k)].key = k
           /\ \A j \in JobsOf(k) : j # Latest(k) => GivenUp(j)
           /\ \A j \in JobsOf(k) : j <= Latest(k)
<1> DEFINE S == JobsOf(k)
<1>1. PICK last \in S : \A j \in S : j <= last /\ (j # last => GivenUp(j))
  BY DEF KeyInv
<1>2. S \subseteq Nat
  BY DEF PipelineTypeOK, JobsOf
<1>3. \A x \in S : (\A y \in S : x >= y) => x = last
  <2> HIDE DEF S
  <2> QED
    BY <1>1, <1>2
<1>4. Max(S) = last
  <2>1. \A y \in S : last >= y
    <3> HIDE DEF S
    <3> QED
      BY <1>1, <1>2
  <2> HIDE DEF S
  <2> QED
    BY <1>1, <1>3, <2>1 DEF Max
<1> QED
  BY <1>1, <1>4 DEF Latest, JobsOf

LEMMA OneBeyond ==
    ASSUME KeyInv, NEW i \in Known, NEW j \in Known, store[i].key \in Keys,
           store[i].key = store[j].key, ~ GivenUp(i), ~ GivenUp(j)
    PROVE  i = j
<1>1. i \in JobsOf(store[i].key) /\ j \in JobsOf(store[i].key)
  BY DEF JobsOf
<1>2. PICK last \in JobsOf(store[i].key) :
          \A n \in JobsOf(store[i].key) : n # last => GivenUp(n)
  BY <1>1 DEF KeyInv
<1> QED
  BY <1>1, <1>2

LEMMA LatestBeyond ==
    ASSUME PipelineTypeOK, KeyInv, NEW j \in Known, ~ GivenUp(j)
    PROVE  /\ store[j].key \in Keys /\ JobsOf(store[j].key) # {}
           /\ Latest(store[j].key) = j
<1>1. store[j].key \in Keys /\ j \in JobsOf(store[j].key)
  BY DEF PipelineTypeOK, JobRecords, JobsOf
<1> QED
  BY <1>1, LastOfKey

LEMMA JobTypes ==
    ASSUME PipelineTypeOK, NEW j \in Known
    PROVE  store[j] \in JobRecords /\ j \in 1 .. issued /\ j \in Jobs /\ j \in Nat
<1>1. store[j] \in JobRecords /\ j \in 1 .. issued /\ issued \in 0 .. MaxJobs
  BY DEF PipelineTypeOK
<1> QED
  BY <1>1, PipelineAssumption DEF Jobs

-----------------------------------------------------------------------------
(***************************************************************************)
(* How a step may change the jobs without disturbing each conjunct.        *)
(***************************************************************************)
LEMMA KeyInvKept ==
    ASSUME KeyInv, Known' = Known,
           \A j \in Known : /\ store'[j].key = store[j].key
                            /\ GivenUp(j) => GivenUp(j)',
           \A k \in Keys :
               ledger'[k] = "removed" /\ k \notin crashes'.unswept =>
                   ledger[k] = "removed" /\ k \notin crashes.unswept
    PROVE  KeyInv'
<1>1. \A k : JobsOf(k)' = JobsOf(k)
  BY DEF JobsOf
<1>2. \A k \in Keys : \A j \in JobsOf(k) : GivenUp(j) => GivenUp(j)'
  BY DEF JobsOf
<1> HIDE DEF GivenUp
<1> QED
  BY <1>1, <1>2 DEF KeyInv

LEMMA IntakeInvKept ==
    ASSUME IntakeInv,
           \A j \in DOMAIN intake' :
               /\ j \in DOMAIN intake /\ intake'[j] = intake[j]
               /\ j \in Known' /\ store'[j] = store[j]
    PROVE  IntakeInv'
BY DEF IntakeInv

LEMMA QueueInvKept ==
    ASSUME QueueInv, queue' = queue, call'.job = call.job,
           call' = NoCall <=> call = NoCall, Known' = Known,
           \A j \in Known :
               store'[j].status = "queued_for_conversion" <=>
                   store[j].status = "queued_for_conversion"
    PROVE  QueueInv'
BY DEF QueueInv

LEMMA ConversionInvKept ==
    ASSUME PipelineTypeOK, QueueInv, ConversionInv, AuthoritySame, Known' = Known,
           call'.state = "answered" => call' = call,
           \A j \in Known :
               /\ store'[j].key = store[j].key
               /\ store'[j].status = "dispatched" <=>
                     store[j].status = "dispatched"
               /\ store[j].status = "dispatched" =>
                     store'[j].conversion = store[j].conversion,
           manual' \subseteq Authority!Created,
           \A c \in DOMAIN pollers' :
               \/ c \in DOMAIN pollers
               \/ \E j \in Known : /\ store[j].status = "dispatched"
                                   /\ store[j].conversion = c,
           \A k \in Keys : ledger[k] = "removed" => ledger'[k] = "removed",
           \A c \in Authority!Created : CorrelationOf(c) \in Keys
    PROVE  ConversionInv'
<1>1. \A c \in Authority!Created :
         c \in Authority!Created' /\ CorrelationOf(c)' = CorrelationOf(c)
  BY DEF AuthoritySame, CorrelationOf
<1>2. \A c, k : OfKey(c, k) => OfKey(c, k)'
  BY <1>1 DEF OfKey
<1>3. \A k : JobsOf(k)' = JobsOf(k)
  BY DEF JobsOf
<1>4. call'.state = "answered" =>
         OfKey(call.conversion, store[call.job].key)' /\ call' = call
  <2> SUFFICES ASSUME call'.state = "answered"
               PROVE  OfKey(call.conversion, store[call.job].key)'
    OBVIOUS
  <2>1. call' = call /\ call.state = "answered"
    OBVIOUS
  <2>2. call.job \in Known
    BY <2>1 DEF QueueInv, NoCall
  <2>3. OfKey(call.conversion, store[call.job].key)
    BY <2>1 DEF ConversionInv
  <2> QED
    BY <1>2, <2>1, <2>2, <2>3
<1>5. ASSUME NEW j \in Known, store'[j].status = "dispatched"
      PROVE  OfKey(store[j].conversion, store[j].key)'
  BY <1>2, <1>5 DEF ConversionInv
<1>6. ASSUME NEW c \in DOMAIN pollers'
      PROVE  /\ c \in Authority!Created
             /\ \/ Gone(CorrelationOf(c))
                \/ \E j \in JobsOf(CorrelationOf(c)) :
                      store[j].status = "dispatched" /\ store[j].conversion = c
  <2>1. CASE c \in DOMAIN pollers
    BY <2>1 DEF ConversionInv
  <2>2. CASE \E j \in Known : /\ store[j].status = "dispatched"
                              /\ store[j].conversion = c
    BY <2>2 DEF ConversionInv, OfKey, JobsOf
  <2> QED
    BY <2>1, <2>2
<1>7. ASSUME NEW c \in DOMAIN pollers'
      PROVE  \/ Gone(CorrelationOf(c))'
             \/ \E j \in JobsOf(CorrelationOf(c))' :
                   store'[j].status = "dispatched" /\ store'[j].conversion = c
  <2>1. CorrelationOf(c)' = CorrelationOf(c) /\ CorrelationOf(c) \in Keys
    BY <1>1, <1>6
  <2>2. ASSUME NEW j \in JobsOf(CorrelationOf(c)),
               store[j].status = "dispatched", store[j].conversion = c
        PROVE  /\ j \in JobsOf(CorrelationOf(c))'
               /\ store'[j].status = "dispatched" /\ store'[j].conversion = c
    BY <1>3, <2>1, <2>2 DEF JobsOf
  <2>3. Gone(CorrelationOf(c)) => Gone(CorrelationOf(c))'
    BY <1>3, <2>1 DEF Gone
  <2> QED
    BY <1>6, <2>1, <2>2, <2>3
<1>8. DOMAIN pollers' \cup manual' \subseteq Authority!Created'
  BY <1>1, <1>6
<1>9. \A j \in Known' : store'[j].status = "dispatched" =>
         OfKey(store[j].conversion, store[j].key)'
  BY <1>5
<1> QED
  BY <1>4, <1>7, <1>8, <1>9 DEF ConversionInv

LEMMA WatchedKept ==
    ASSUME DispatchedIsWatched, requests' = 0 => requests = 0,
           faults' = 0 => faults = 0,
           requests' = 0 /\ faults' = 0 =>
               \A j \in Known' :
                   store'[j].status = "dispatched" /\ store'[j].outcome = "open" =>
                       /\ j \in Known /\ store[j].status = "dispatched"
                       /\ store[j].outcome = "open"
                       /\ store'[j].conversion = store[j].conversion
                       /\ store[j].conversion \in DOMAIN pollers =>
                             store[j].conversion \in DOMAIN pollers'
    PROVE  DispatchedIsWatched'
BY DEF DispatchedIsWatched

LEMMA CallbackInvKept ==
    ASSUME PipelineTypeOK, CallbackInv, callbacks' = callbacks,
           issued' = issued, Known' \subseteq Known,
           CallbackBound' \in Nat, CallbackBound' >= CallbackBound,
           requests' \in Nat, requests' >= requests,
           IsFiniteSet(manual'),
           Cardinality(manual') <= Cardinality(manual),
           \A j \in Known' : Awaited(j)' => Awaited(j)
    PROVE  CallbackInv'
<1>1. /\ requests \in Nat /\ CallbackBound \in Nat
      /\ \A j \in Jobs : callbacks[j] \in Nat
  BY DEF PipelineTypeOK, CallbackBound
<1>2. Cardinality(manual) \in Nat /\ Cardinality(manual') \in Nat
  BY FS_CardinalityType DEF CallbackInv
<1>3. ASSUME NEW j \in Jobs
      PROVE  /\ callbacks'[j] <= CallbackBound'
             /\ j > issued' => callbacks'[j] = 0
             /\ j \in Known' =>
                   callbacks'[j] + Cardinality(manual')
                       + (IF Awaited(j)' THEN 1 ELSE 0) <= CallbackBound'
  <2>1. callbacks[j] \in Nat /\ callbacks'[j] = callbacks[j]
    BY <1>1
  <2>2. /\ callbacks[j] <= CallbackBound
        /\ j > issued => callbacks[j] = 0
        /\ j \in Known =>
              callbacks[j] + Cardinality(manual)
                  + (IF Awaited(j) THEN 1 ELSE 0) <= CallbackBound
    BY DEF CallbackInv
  <2> QED
    BY <1>1, <1>2, <2>1, <2>2
<1>4. Cardinality(manual') <= requests'
  BY <1>1, <1>2 DEF CallbackInv
<1> QED
  BY <1>3, <1>4 DEF CallbackInv

LEMMA RequestInvKept ==
    ASSUME RequestInv, AuthoritySame, Authority!Created' = Authority!Created,
           UNCHANGED <<call, queue, pending>>
    PROVE  RequestInv'
<1>1. \A c \in Authority!Created :
         /\ CorrelationOf(c)' = CorrelationOf(c)
         /\ conversions'[c].key[2] = conversions[c].key[2]
         /\ conversions'[c].print = conversions[c].print
  BY DEF AuthoritySame, CorrelationOf
<1> QED
  BY <1>1 DEF RequestInv, AuthoritySame

LEMMA PlainKept ==
    ASSUME PlainRetryIsNotRefused, call'.state = "refused" => call' = call,
           \A j \in Known' : j \in Known /\ store'[j].key = store[j].key
    PROVE  PlainRetryIsNotRefused'
BY DEF PlainRetryIsNotRefused, RetryIsNotRefused

-----------------------------------------------------------------------------
(***************************************************************************)
(* The steps that leave the jobs alone.                                    *)
(***************************************************************************)
LEMMA AuthorityIsStill ==
    ASSUME UNCHANGED authorityVars
    PROVE  /\ AuthoritySame /\ Authority!Created' = Authority!Created
           /\ \A c : CorrelationOf(c)' = CorrelationOf(c)
           /\ \A c : Authority!Result(c)' = Authority!Result(c)
BY AuthorityStays DEF authorityVars, CorrelationOf, Authority!Result

LEMMA CallbackBounds ==
    ASSUME PipelineTypeOK, crashes' \in [all : Nat, unrecorded : Nat, unswept : SUBSET Keys],
           faults' \in Nat, requests' \in Nat,
           crashes'.unrecorded >= crashes.unrecorded, faults' >= faults,
           requests' >= requests
    PROVE  /\ CallbackBound \in Nat /\ CallbackBound' \in Nat
           /\ CallbackBound' >= CallbackBound
BY DEF PipelineTypeOK, CallbackBound

(* Answers, polls in vain, announced keys, and the authority's own steps.  *)
LEMMA QuietStep ==
    ASSUME PipelineInv, AP!AuthorityInv, AuthoritySame,
           Authority!Created' = Authority!Created,
           UNCHANGED <<store, issued, callbacks, intake, pending, queue, call,
                       crashes, faults>>,
           ledger' \in [Keys -> {"none", "detected", "queued", "ready",
                                 "failed", "removed"}],
           \A k \in Keys : ledger'[k] = "removed" <=> ledger[k] = "removed",
           pollers' \in [DOMAIN pollers' -> Nat],
           DOMAIN pollers' \subseteq DOMAIN pollers,
           \/ /\ manual' \subseteq manual /\ requests' = requests
              /\ DOMAIN pollers' = DOMAIN pollers
           \/ \E c \in Authority!Created \ manual :
                 manual' = manual \cup {c} /\ requests' = requests + 1
    PROVE  PipelineInv'
<1> USE DEF PipelineInv
<1>1. requests \in Nat /\ requests' \in Nat /\ requests' >= requests
  BY DEF PipelineTypeOK
<1>2. PipelineTypeOK'
  BY <1>1 DEF PipelineTypeOK, Known
<1>3. IntakeInv'
  BY IntakeInvKept DEF Known, IntakeInv
<1>4. QueueInv'
  BY QueueInvKept DEF Known
<1>5. KeyInv'
  BY KeyInvKept DEF Known, GivenUp
<1>6. ConversionInv'
  <2>1. manual' \subseteq Authority!Created
    BY DEF ConversionInv
  <2> QED
    BY <2>1, ConversionInvKept, JobFiles DEF Known
<1>7. CallbackInv'
  <2>1. crashes \in [all : Nat, unrecorded : Nat, unswept : SUBSET Keys] /\ faults \in Nat
    BY DEF PipelineTypeOK
  <2>2. /\ CallbackBound \in Nat /\ CallbackBound' \in Nat
        /\ CallbackBound' >= CallbackBound
    BY <1>1, <2>1, CallbackBounds
  <2>3. \A j \in Known : Awaited(j)' => Awaited(j)
    BY DEF Awaited
  <2>4. IsFiniteSet(manual) /\ Cardinality(manual) \in Nat
    BY FS_CardinalityType DEF CallbackInv
  <2>5. CASE manual' \subseteq manual
    <3>1. IsFiniteSet(manual') /\ Cardinality(manual') <= Cardinality(manual)
      BY <2>4, <2>5, FS_Subset
    <3> QED
      BY <1>1, <2>2, <2>3, <3>1, CallbackInvKept DEF Known
  <2>6. CASE \E c \in Authority!Created \ manual :
                manual' = manual \cup {c} /\ requests' = requests + 1
    <3>1. IsFiniteSet(manual') /\ Cardinality(manual') = Cardinality(manual) + 1
      BY <2>4, <2>6, FS_AddElement
    <3>2. CallbackBound' = CallbackBound + 1
      BY <1>1, <2>1, <2>6 DEF CallbackBound
    <3>3. \A j \in Jobs : callbacks[j] \in Nat
      BY DEF PipelineTypeOK
    <3>4. ASSUME NEW j \in Jobs
          PROVE  /\ callbacks'[j] <= CallbackBound'
                 /\ j > issued' => callbacks'[j] = 0
                 /\ j \in Known' =>
                       callbacks'[j] + Cardinality(manual')
                           + (IF Awaited(j)' THEN 1 ELSE 0) <= CallbackBound'
      <4>1. /\ callbacks[j] <= CallbackBound
            /\ j > issued => callbacks[j] = 0
            /\ j \in Known =>
                  callbacks[j] + Cardinality(manual)
                      + (IF Awaited(j) THEN 1 ELSE 0) <= CallbackBound
        BY DEF CallbackInv
      <4> QED
        BY <2>2, <2>3, <2>4, <3>1, <3>2, <3>3, <4>1 DEF Known
    <3>5. Cardinality(manual') <= requests'
      BY <1>1, <2>4, <2>6, <3>1 DEF CallbackInv
    <3> QED
      BY <3>1, <3>4, <3>5 DEF CallbackInv
  <2> QED
    BY <2>5, <2>6
<1>8. RequestInv'
  BY RequestInvKept
<1>9. DispatchedIsWatched'
  <2>1. requests' = 0 => requests = 0 /\ DOMAIN pollers' = DOMAIN pollers
    BY <1>1
  <2> QED
    BY <2>1, WatchedKept DEF Known
<1>10. PlainRetryIsNotRefused'
  BY PlainKept DEF Known
<1> QED
  BY <1>2, <1>3, <1>4, <1>5, <1>6, <1>7, <1>8, <1>9, <1>10

LEMMA QuietActions ==
    ASSUME PipelineInv, AP!AuthorityInv,
           \/ UNCHANGED vars
           \/ \E k \in Keys : Answered(k) \/ Detect(k) \/ ReconversionFails(k)
           \/ \E c \in DOMAIN pollers : PollInVain(c)
           \/ \E c \in manual : ManualInVain(c)
           \/ \E c \in Authority!Created : ManualIngest(c)
           \/ AuthorityStep
    PROVE  PipelineInv'
<1> USE DEF memory
<1>1. /\ ledger \in [Keys -> {"none", "detected", "queued", "ready", "failed",
                              "removed"}]
      /\ pollers \in [DOMAIN pollers -> Nat]
  BY DEF PipelineInv, PipelineTypeOK
<1>2. CASE UNCHANGED vars
  <2>1. UNCHANGED <<store, issued, callbacks, intake, pending, queue, call,
                    crashes, faults, ledger, pollers, manual, requests>>
    BY <1>2 DEF vars, pipelineVars
  <2>2. AuthoritySame /\ Authority!Created' = Authority!Created
    BY <1>2, AuthorityIsStill DEF vars
  <2> QED
    BY <1>1, <2>1, <2>2, QuietStep
<1>3. ASSUME NEW k \in Keys, Detect(k) \/ ReconversionFails(k)
      PROVE  PipelineInv'
  <2>1. /\ ledger' \in [Keys -> {"none", "detected", "queued", "ready",
                                 "failed", "removed"}]
        /\ \A i \in Keys : ledger'[i] = "removed" <=> ledger[i] = "removed"
    BY <1>1, <1>3 DEF Detect, ReconversionFails
  <2>2. UNCHANGED <<store, issued, callbacks, intake, pending, queue, call,
                    crashes, faults, pollers, manual, requests>>
    BY <1>3 DEF Detect, ReconversionFails
  <2>3. AuthoritySame /\ Authority!Created' = Authority!Created
    BY <1>3, AuthorityIsStill DEF Detect, ReconversionFails
  <2> QED
    BY <1>1, <2>1, <2>2, <2>3, QuietStep
<1>4. ASSUME NEW c \in DOMAIN pollers, PollInVain(c)
      PROVE  PipelineInv'
  <2>1. /\ pollers' \in [DOMAIN pollers' -> Nat]
        /\ DOMAIN pollers' = DOMAIN pollers
    BY <1>1, <1>4 DEF PollInVain
  <2>2. UNCHANGED <<store, issued, callbacks, intake, pending, queue, call,
                    crashes, faults, ledger, manual, requests>>
    BY <1>4 DEF PollInVain
  <2>3. AuthoritySame /\ Authority!Created' = Authority!Created
    BY <1>4, AuthorityIsStill DEF PollInVain
  <2> QED
    BY <1>1, <2>1, <2>2, <2>3, QuietStep
<1>5. ASSUME NEW c \in manual, ManualInVain(c)
      PROVE  PipelineInv'
  <2>1. /\ UNCHANGED <<store, issued, callbacks, intake, pending, queue, call,
                       crashes, faults, ledger, pollers, requests>>
        /\ manual' \subseteq manual
    BY <1>5 DEF ManualInVain
  <2>2. AuthoritySame /\ Authority!Created' = Authority!Created
    BY <1>5, AuthorityIsStill DEF ManualInVain
  <2> QED
    BY <1>1, <2>1, <2>2, QuietStep
<1>6. ASSUME NEW c \in Authority!Created, ManualIngest(c)
      PROVE  PipelineInv'
  <2>1. /\ UNCHANGED <<store, issued, callbacks, intake, pending, queue, call,
                       crashes, faults, ledger>>
        /\ manual' = manual \cup {c} /\ requests' = requests + 1
        /\ c \notin manual
        /\ pollers' = Without(pollers, {c})
    BY <1>6 DEF ManualIngest
  <2>2. /\ pollers' \in [DOMAIN pollers' -> Nat]
        /\ DOMAIN pollers' \subseteq DOMAIN pollers
    BY <1>1, <2>1 DEF Without
  <2>3. AuthoritySame /\ Authority!Created' = Authority!Created
    BY <1>6, AuthorityIsStill DEF ManualIngest
  <2> QED
    BY <1>1, <2>1, <2>2, <2>3, QuietStep
<1>7. CASE AuthorityStep
  <2>1. UNCHANGED <<store, issued, callbacks, intake, pending, queue, call,
                    crashes, faults, ledger, pollers, manual, requests>>
    BY <1>7 DEF AuthorityStep, pipelineVars
  <2>2. AuthoritySame /\ Authority!Created' = Authority!Created
    BY <1>7, AuthorityWorks DEF AuthorityStep
  <2> QED
    BY <1>1, <2>1, <2>2, QuietStep
<1> QED
  BY <1>2, <1>3, <1>4, <1>5, <1>6, <1>7 DEF Answered

-----------------------------------------------------------------------------
(***************************************************************************)
(* An ingest.                                                              *)
(***************************************************************************)
Ledgers ==
    [Keys -> {"none", "detected", "queued", "ready", "failed", "removed"}]

LEMMA RecordedShape ==
    ASSUME ledger \in Ledgers, NEW k \in Keys,
           NEW s \in {"queued", "ready", "failed"}, ledger' = Recorded(k, s)
    PROVE  /\ ledger' \in Ledgers
           /\ \A i \in Keys : ledger'[i] = "removed" <=> ledger[i] = "removed"
BY DEF Recorded, Ledgers

LEMMA OutcomeShape ==
    ASSUME PipelineTypeOK, NEW l \in Known, NEW v \in {"ready", "failed"},
           NEW jobs, jobs = WithOutcome(l, v)
    PROVE  /\ DOMAIN jobs = Known
           /\ \A j \in Known :
                 /\ jobs[j] \in JobRecords
                 /\ jobs[j].key = store[j].key
                 /\ jobs[j].status = store[j].status
                 /\ jobs[j].download = store[j].download
                 /\ jobs[j].conversion = store[j].conversion
                 /\ j # l => jobs[j] = store[j]
           /\ jobs[l].outcome = v
<1>1. \A j \in Known : store[j] \in JobRecords
  BY DEF PipelineTypeOK
<1>2. DOMAIN jobs = Known
  BY DEF WithOutcome, Known
<1>3. jobs[l] = [store[l] EXCEPT !.outcome = v]
  BY DEF WithOutcome, Known
<1>4. \A j \in Known : j # l => jobs[j] = store[j]
  BY DEF WithOutcome, Known
<1>5. store[l] \in JobRecords
  BY <1>1
<1>6. /\ jobs[l] \in JobRecords /\ jobs[l].outcome = v
      /\ jobs[l].key = store[l].key /\ jobs[l].status = store[l].status
      /\ jobs[l].download = store[l].download
      /\ jobs[l].conversion = store[l].conversion
  BY <1>3, <1>5 DEF JobRecords
<1> QED
  BY <1>1, <1>2, <1>4, <1>6

IngestShape(k, v) ==
    /\ Known' = Known
    /\ \A j \in Known :
          /\ store'[j] \in JobRecords
          /\ store'[j].key = store[j].key
          /\ store'[j].status = store[j].status
          /\ store'[j].download = store[j].download
          /\ store'[j].conversion = store[j].conversion
          /\ \/ store'[j] = store[j]
             \/ store'[j].outcome = v
    /\ ledger' \in Ledgers
    /\ \A i \in Keys : ledger'[i] = "removed" <=> ledger[i] = "removed"
    /\ faults' \in Nat /\ (faults' = faults \/ faults' = faults + 1)
    /\ JobsOf(k) = {} =>
          callbacks' = callbacks /\ store' = store /\ faults' = faults
    /\ JobsOf(k) # {} =>
          /\ callbacks' = [callbacks EXCEPT ![Latest(k)] = @ + 1]
          /\ faults' = faults => store'[Latest(k)].outcome = v

LEMMA IngestedShape ==
    ASSUME PipelineTypeOK, KeyInv, NEW k \in Keys, NEW v \in {"ready", "failed"},
           Ingested(k, v)
    PROVE  IngestShape(k, v)
<1>1. /\ \A j \in Known : store[j] \in JobRecords
      /\ ledger \in Ledgers /\ faults \in Nat
  BY DEF PipelineTypeOK, Ledgers
<1>2. CASE JobsOf(k) = {}
  BY <1>1, <1>2 DEF Ingested, IngestShape, Known
<1>3. CASE JobsOf(k) # {}
  <2> DEFINE l == Latest(k)
  <2>1. l \in Known
    BY <1>3, LastOfKey
  <2>2. /\ callbacks' = [callbacks EXCEPT ![l] = @ + 1]
        /\ store' \in {store, WithOutcome(l, v)}
        /\ ledger' \in {ledger, Recorded(k, v)}
        /\ faults' = faults \/ faults' = faults + 1
        /\ faults' = faults => store' = WithOutcome(l, v)
    <3>1. faults # faults + 1
      BY <1>1
    <3> QED
      BY <1>3, <3>1 DEF Ingested, Callback, Fault
  <2> HIDE DEF l
  <2>3. ledger' \in Ledgers
        /\ \A i \in Keys : ledger'[i] = "removed" <=> ledger[i] = "removed"
    BY <1>1, <2>2, RecordedShape
  <2>4. CASE store' = WithOutcome(l, v)
    <3>1. /\ Known' = Known
          /\ \A j \in Known :
                /\ store'[j] \in JobRecords
                /\ store'[j].key = store[j].key
                /\ store'[j].status = store[j].status
                /\ store'[j].download = store[j].download
                /\ store'[j].conversion = store[j].conversion
                /\ j # l => store'[j] = store[j]
          /\ store'[l].outcome = v
      BY <2>1, <2>4, OutcomeShape DEF Known
    <3> QED
      BY <1>1, <1>3, <2>2, <2>3, <3>1 DEF IngestShape, l
  <2>5. CASE store' = store /\ faults' # faults
    BY <1>1, <1>3, <2>2, <2>3, <2>5 DEF IngestShape, l, Known
  <2> QED
    BY <2>2, <2>4, <2>5
<1> QED
  BY <1>2, <1>3

(* The poller of a conversion watches the last job of its key.             *)
LEMMA PolledJob ==
    ASSUME PipelineTypeOK, KeyInv, ConversionInv, NEW c \in DOMAIN pollers,
           CorrelationOf(c) \in Keys, JobsOf(CorrelationOf(c)) # {}
    PROVE  /\ Latest(CorrelationOf(c)) \in Known
           /\ store[Latest(CorrelationOf(c))].status = "dispatched"
           /\ store[Latest(CorrelationOf(c))].conversion = c
<1> DEFINE k == CorrelationOf(c)
<1>1. PICK j \in JobsOf(k) : /\ store[j].status = "dispatched"
                             /\ store[j].conversion = c
  BY DEF ConversionInv, Gone
<1>2. j \in Known /\ store[j].key = k /\ ~ GivenUp(j)
  BY <1>1 DEF JobsOf, GivenUp
<1> QED
  BY <1>1, <1>2, LatestBeyond

(* The job that a dispatched job's conversion belongs to is that job.      *)
LEMMA DispatchedJob ==
    ASSUME PipelineTypeOK, KeyInv, ConversionInv, NEW j \in Known,
           store[j].status = "dispatched"
    PROVE  /\ CorrelationOf(store[j].conversion) = store[j].key
           /\ JobsOf(store[j].key) # {} /\ store[j].key \in Keys
           /\ Latest(store[j].key) = j
<1>1. ~ GivenUp(j)
  BY DEF GivenUp
<1> QED
  BY <1>1, LatestBeyond DEF ConversionInv, OfKey

(* A callback is paid for: by a crash, a fault or a request, by a result   *)
(* that was being fetched, or by what its job awaited.                     *)
LEMMA CalledBack ==
    ASSUME PipelineTypeOK, CallbackInv, NEW l \in Known,
           callbacks' = [callbacks EXCEPT ![l] = @ + 1],
           issued' = issued, Known' = Known,
           CallbackBound' \in Nat, CallbackBound' >= CallbackBound,
           requests' \in Nat, requests' >= requests,
           IsFiniteSet(manual'),
           Cardinality(manual') <= Cardinality(manual),
           \A j \in Known : Awaited(j)' => Awaited(j),
           \/ CallbackBound' >= CallbackBound + 1
           \/ Cardinality(manual') < Cardinality(manual)
           \/ Awaited(l) /\ ~ Awaited(l)'
    PROVE  CallbackInv'
<1>1. /\ requests \in Nat /\ CallbackBound \in Nat
      /\ l \in Jobs /\ ~ (l > issued) /\ callbacks \in [Jobs -> Nat]
  BY JobTypes DEF PipelineTypeOK, CallbackBound
<1>2. Cardinality(manual) \in Nat /\ Cardinality(manual') \in Nat
  BY FS_CardinalityType DEF CallbackInv
<1>3. ASSUME NEW j \in Jobs
      PROVE  /\ callbacks'[j] <= CallbackBound'
             /\ j > issued' => callbacks'[j] = 0
             /\ j \in Known' =>
                   callbacks'[j] + Cardinality(manual')
                       + (IF Awaited(j)' THEN 1 ELSE 0) <= CallbackBound'
  <2>1. /\ callbacks[j] <= CallbackBound /\ callbacks[j] \in Nat
        /\ j > issued => callbacks[j] = 0
        /\ j \in Known =>
              callbacks[j] + Cardinality(manual)
                  + (IF Awaited(j) THEN 1 ELSE 0) <= CallbackBound
    BY <1>1 DEF CallbackInv
  <2>2. CASE j # l
    <3>1. callbacks'[j] = callbacks[j]
      BY <1>1, <2>2
    <3> QED
      BY <1>1, <1>2, <2>1, <3>1
  <2>3. CASE j = l
    <3>1. callbacks'[l] = callbacks[l] + 1
      BY <1>1
    <3>2. callbacks'[l] + Cardinality(manual')
              + (IF Awaited(l)' THEN 1 ELSE 0) <= CallbackBound'
      BY <1>1, <1>2, <2>1, <2>3, <3>1
    <3>3. callbacks'[l] \in Nat
      BY <2>1, <2>3, <3>1
    <3> QED
      BY <1>1, <1>2, <2>3, <3>2, <3>3
  <2> QED
    BY <2>2, <2>3
<1>4. Cardinality(manual') <= requests'
  BY <1>1, <1>2 DEF CallbackInv
<1> QED
  BY <1>3, <1>4 DEF CallbackInv

LEMMA IngestStep ==
    ASSUME PipelineInv, AP!AuthorityInv,
           NEW c \in Authority!Created, NEW v \in {"ready", "failed"},
           Ingested(CorrelationOf(c), v),
           UNCHANGED <<issued, intake, pending, queue, call, crashes,
                       authorityVars>>,
           \/ /\ c \in DOMAIN pollers /\ pollers' = Without(pollers, {c})
              /\ manual' = manual /\ requests' = requests
           \/ /\ c \in manual /\ manual' = manual \ {c}
              /\ pollers' = pollers /\ requests' = requests
           \/ /\ requests' = requests + 1
              /\ manual' = manual /\ pollers' = pollers
    PROVE  PipelineInv'
<1> DEFINE k == CorrelationOf(c)
           l == Latest(k)
<1> USE DEF PipelineInv
<1>1. k \in Keys
  BY JobFiles
<1>2. IngestShape(k, v)
  BY <1>1, IngestedShape
<1> HIDE DEF k
<1>3. /\ requests \in Nat /\ requests' \in Nat /\ requests' >= requests
      /\ faults \in Nat /\ faults' \in Nat /\ faults' >= faults
      /\ crashes \in [all : Nat, unrecorded : Nat, unswept : SUBSET Keys]
  BY <1>2 DEF PipelineTypeOK, IngestShape
<1>4. AuthoritySame /\ Authority!Created' = Authority!Created
  BY AuthorityIsStill
<1>5. /\ pollers' \in [DOMAIN pollers' -> Nat]
      /\ DOMAIN pollers' \subseteq DOMAIN pollers
      /\ \A d \in DOMAIN pollers : d \notin DOMAIN pollers' => d = c
  BY DEF PipelineTypeOK, Without
<1>6. JobsOf(k) # {} => l \in Known /\ l \in Jobs
  BY <1>1, LastOfKey, JobTypes
<1>7. PipelineTypeOK'
  <2>1. Known' = Known /\ store' \in [Known -> JobRecords]
    <3>1. store' = [j \in Known' |-> store'[j]]
      BY <1>6, <1>2 DEF Ingested, WithOutcome, Known, IngestShape, k,
         PipelineTypeOK
    <3> QED
      BY <1>2, <3>1 DEF IngestShape
  <2>2. callbacks' \in [Jobs -> Nat]
    BY <1>2, <1>6 DEF IngestShape, PipelineTypeOK
  <2> QED
    BY <1>2, <1>3, <1>5, <2>1, <2>2 DEF PipelineTypeOK, IngestShape, Ledgers
<1>8. IntakeInv'
  BY <1>2 DEF IntakeInv, IngestShape
<1>9. QueueInv'
  BY <1>2, QueueInvKept DEF IngestShape
<1>10. KeyInv'
  BY <1>2, KeyInvKept DEF IngestShape, GivenUp
<1>11. ConversionInv'
  <2>1. manual' \subseteq Authority!Created
    BY DEF ConversionInv
  <2> QED
    BY <1>2, <1>4, <1>5, <2>1, ConversionInvKept, JobFiles DEF IngestShape
<1>12. RequestInv'
  BY <1>4, RequestInvKept
<1>13. PlainRetryIsNotRefused'
  BY <1>2, PlainKept DEF IngestShape
<1>14. DispatchedIsWatched'
  <2>1. /\ requests' = 0 => requests = 0
        /\ faults' = 0 => faults = 0
    BY <1>3
  <2> SUFFICES ASSUME requests' = 0, faults' = 0, NEW j \in Known',
                      store'[j].status = "dispatched",
                      store'[j].outcome = "open"
               PROVE  /\ j \in Known /\ store[j].status = "dispatched"
                      /\ store[j].outcome = "open"
                      /\ store'[j].conversion = store[j].conversion
                      /\ store[j].conversion \in DOMAIN pollers =>
                            store[j].conversion \in DOMAIN pollers'
    BY <2>1, WatchedKept
  <2>2. /\ j \in Known /\ store[j].status = "dispatched"
        /\ store[j].outcome = "open"
        /\ store'[j].conversion = store[j].conversion
    BY <1>2 DEF IngestShape
  <2>3. CASE store[j].conversion = c
    <3>1. JobsOf(k) # {} /\ l = j
      BY <2>2, <2>3, DispatchedJob DEF k
    <3>2. faults' = faults
      BY <1>3
    <3> QED
      BY <1>2, <3>1, <3>2 DEF IngestShape
  <2> QED
    BY <1>5, <2>2, <2>3
<1>15. CallbackInv'
  <2>1. /\ CallbackBound \in Nat /\ CallbackBound' \in Nat
        /\ CallbackBound' >= CallbackBound
    BY <1>3, CallbackBounds
  <2>2. /\ IsFiniteSet(manual) /\ Cardinality(manual) \in Nat
        /\ Cardinality(manual) <= requests
    BY FS_CardinalityType DEF CallbackInv
  <2>3. /\ IsFiniteSet(manual') /\ Cardinality(manual') \in Nat
        /\ Cardinality(manual') <= Cardinality(manual)
        /\ manual' # manual => Cardinality(manual') = Cardinality(manual) - 1
    <3>1. CASE manual' = manual
      BY <2>2, <3>1
    <3>2. CASE c \in manual /\ manual' = manual \ {c}
      <4>1. IsFiniteSet(manual') /\ Cardinality(manual') = Cardinality(manual) - 1
        BY <2>2, <3>2, FS_RemoveElement
      <4>2. Cardinality(manual') \in Nat
        BY <4>1, FS_CardinalityType
      <4> QED
        BY <2>2, <4>1, <4>2
    <3> QED
      BY <3>1, <3>2
  <2>4. \A j \in Known : Awaited(j)' => Awaited(j)
    BY <1>2, <1>5 DEF Awaited, IngestShape
  <2>5. CASE JobsOf(k) = {}
    BY <1>2, <1>3, <2>1, <2>3, <2>4, <2>5, CallbackInvKept DEF IngestShape
  <2>6. CASE JobsOf(k) # {}
    <3>1. PICK m \in Known : m = l
      BY <1>6, <2>6
    <3>2. callbacks' = [callbacks EXCEPT ![m] = @ + 1]
      BY <1>2, <2>6, <3>1 DEF IngestShape
    <3>3. \/ CallbackBound' >= CallbackBound + 1
          \/ Cardinality(manual') < Cardinality(manual)
          \/ Awaited(m) /\ ~ Awaited(m)'
      <4>1. CASE requests' = requests + 1 \/ faults' # faults
        BY <1>2, <1>3, <4>1 DEF CallbackBound, IngestShape
      <4>2. CASE manual' # manual
        BY <2>2, <2>3, <4>2
      <4>3. CASE /\ faults' = faults
                 /\ c \in DOMAIN pollers /\ pollers' = Without(pollers, {c})
        <5>1. store[m].status = "dispatched" /\ store[m].conversion = c
          BY <1>1, <2>6, <3>1, <4>3, PolledJob DEF k
        <5>2. Awaited(m)
          BY <4>3, <5>1 DEF Awaited
        <5>3. c \notin DOMAIN pollers'
          BY <4>3 DEF Without
        <5>4. /\ store'[m].status = "dispatched" /\ store'[m].conversion = c
              /\ store'[m].outcome = v
          BY <1>2, <2>6, <3>1, <4>3, <5>1 DEF IngestShape
        <5> QED
          BY <5>2, <5>3, <5>4 DEF Awaited
      <4> QED
        BY <1>3, <4>1, <4>2, <4>3
    <3> QED
      BY <1>2, <1>3, <2>1, <2>3, <2>4, <3>2, <3>3, CalledBack DEF IngestShape
  <2> QED
    BY <2>5, <2>6
<1> QED
  BY <1>7, <1>8, <1>9, <1>10, <1>11, <1>12, <1>13, <1>14, <1>15

LEMMA Results ==
    ASSUME NEW c, Terminal(c)
    PROVE  Authority!Result(c) \in {"ready", "failed"}
BY DEF Terminal, Authority!Result

LEMMA IngestActions ==
    ASSUME PipelineInv, AP!AuthorityInv,
           \/ \E c \in DOMAIN pollers : Poll(c) \/ PollTimeout(c)
           \/ \E c \in manual : ManualResult(c)
           \/ \E c \in Authority!Created : Report(c)
    PROVE  PipelineInv'
<1>1. DOMAIN pollers \cup manual \subseteq Authority!Created
  BY DEF PipelineInv, ConversionInv
<1>2. ASSUME NEW c \in DOMAIN pollers, Poll(c) \/ PollTimeout(c)
      PROVE  PipelineInv'
  <2>1. PICK v \in {"ready", "failed"} : Ingested(CorrelationOf(c), v)
    BY <1>2, Results DEF Poll, PollTimeout
  <2>2. /\ UNCHANGED <<issued, intake, pending, queue, call, crashes,
                       authorityVars>>
        /\ pollers' = Without(pollers, {c})
        /\ manual' = manual /\ requests' = requests
    BY <1>2 DEF Poll, PollTimeout
  <2> QED
    BY <1>1, <2>1, <2>2, IngestStep
<1>3. ASSUME NEW c \in manual, ManualResult(c)
      PROVE  PipelineInv'
  <2>1. PICK v \in {"ready", "failed"} : Ingested(CorrelationOf(c), v)
    BY <1>3, Results DEF ManualResult
  <2>2. /\ UNCHANGED <<issued, intake, pending, queue, call, crashes,
                       authorityVars>>
        /\ manual' = manual \ {c}
        /\ pollers' = pollers /\ requests' = requests
    BY <1>3 DEF ManualResult
  <2> QED
    BY <1>1, <2>1, <2>2, IngestStep
<1>4. ASSUME NEW c \in Authority!Created, Report(c)
      PROVE  PipelineInv'
  <2>1. PICK v \in {"ready", "failed"} : Ingested(CorrelationOf(c), v)
    BY <1>4, Results DEF Report
  <2>2. /\ UNCHANGED <<issued, intake, pending, queue, call, crashes,
                       authorityVars>>
        /\ requests' = requests + 1
        /\ manual' = manual /\ pollers' = pollers
    BY <1>4 DEF Report
  <2> QED
    BY <2>1, <2>2, IngestStep
<1> QED
  BY <1>2, <1>3, <1>4

-----------------------------------------------------------------------------
(***************************************************************************)
(* The dispatch queue.                                                     *)
(***************************************************************************)
LEMMA StatusShape ==
    ASSUME PipelineTypeOK, NEW j \in Known, NEW s \in JobStates,
           store' = WithStatus(j, s)
    PROVE  /\ Known' = Known /\ store' \in [Known -> JobRecords]
           /\ \A i \in Known :
                 /\ store'[i].key = store[i].key
                 /\ store'[i].download = store[i].download
                 /\ store'[i].outcome = store[i].outcome
                 /\ store'[i].conversion = store[i].conversion
                 /\ i # j => store'[i].status = store[i].status
           /\ store'[j].status = s
<1>1. \A i \in Known : store[i] \in JobRecords
  BY DEF PipelineTypeOK
<1>2. /\ Known' = Known /\ store' = [i \in Known |-> store'[i]]
      /\ \A i \in Known : i # j => store'[i] = store[i]
      /\ store'[j] = [store[j] EXCEPT !.status = s]
  BY DEF WithStatus, Known, PipelineTypeOK
<1>3. /\ store'[j] \in JobRecords /\ store'[j].status = s
      /\ store'[j].key = store[j].key
      /\ store'[j].download = store[j].download
      /\ store'[j].outcome = store[j].outcome
      /\ store'[j].conversion = store[j].conversion
  BY <1>1, <1>2 DEF JobRecords
<1> QED
  BY <1>1, <1>2, <1>3

LEMMA RequestShape ==
    ASSUME NEW j \in 1 .. MaxJobs
    PROVE  /\ Request(j) # NoCall /\ Request(j).job = j /\ j # 0
           /\ Request(j).state = "sent" /\ NoCall.job = 0 /\ NoCall.state = "idle"
           /\ {Request(j), NoCall} \subseteq
                 [job : 0 .. MaxJobs, conversion : 0 .. MaxConversions,
                  state : {"idle", "sent", "answered", "refused"}]
<1>1. Request(j).state # NoCall.state
  BY DEF Request, NoCall
<1> QED
  BY <1>1, PipelineAssumption DEF Request, NoCall

LEMMA EnqueuedQueue ==
    ASSUME PipelineTypeOK, QueueInv, NEW j \in Known,
           store[j].status # "queued_for_conversion",
           Known' = Known,
           \A i \in Known : i # j => store'[i].status = store[i].status,
           store'[j].status = "queued_for_conversion",
           Enqueued(j)
    PROVE  /\ QueueInv'
           /\ call' \in [job : 0 .. MaxJobs, conversion : 0 .. MaxConversions,
                         state : {"idle", "sent", "answered", "refused"}]
           /\ call'.state \in {"answered", "refused"} => call' = call
           /\ call' # NoCall => call'.job = j \/ call' = call
           /\ \A n \in DOMAIN queue' :
                 \/ queue'[n] = j
                 \/ n \in DOMAIN queue /\ queue'[n] = queue[n]
<1>1. j \in 1 .. MaxJobs /\ j \in Nat
  BY JobTypes DEF Jobs
<1>2. /\ queue \in Seq(Nat)
      /\ \A n \in DOMAIN queue :
            /\ queue[n] \in Known /\ queue[n] # j /\ queue[n] # call.job
            /\ store[queue[n]].status = "queued_for_conversion"
      /\ \A m, n \in DOMAIN queue : queue[m] = queue[n] => m = n
      /\ call # NoCall => call.job # j
      /\ call = NoCall => call.job = 0
  BY DEF QueueInv
<1>3. CASE call = NoCall
  <2>1. call' = Request(j) /\ queue' = queue
    BY <1>3 DEF Enqueued
  <2>2. call' # NoCall /\ call'.job = j /\ j # 0 /\ call'.state = "sent"
    BY <1>1, <2>1, RequestShape
  <2>3. \A i \in Known' : store'[i].status = "queued_for_conversion" =>
           i = call'.job \/ \E n \in DOMAIN queue' : queue'[n] = i
    <3> SUFFICES ASSUME NEW i \in Known, i # j,
                        store[i].status = "queued_for_conversion"
                 PROVE  \E n \in DOMAIN queue : queue[n] = i
      BY <2>1, <2>2
    <3>1. i # 0
      BY JobTypes
    <3> QED
      BY <1>2, <1>3, <3>1 DEF QueueInv
  <2>4. \A n \in DOMAIN queue' :
           /\ queue'[n] \in Known'
           /\ store'[queue'[n]].status = "queued_for_conversion"
           /\ queue'[n] # call'.job
    BY <1>2, <2>1, <2>2
  <2>5. QueueInv'
    BY <1>2, <2>1, <2>2, <2>3, <2>4 DEF QueueInv
  <2> QED
    BY <1>1, <2>1, <2>2, <2>5, RequestShape
<1>4. CASE call # NoCall
  <2>1. call' = call /\ queue' = Append(queue, j)
    BY <1>4 DEF Enqueued
  <2>2. /\ queue' \in Seq(Nat)
        /\ DOMAIN queue = 1 .. Len(queue) /\ Len(queue) \in Nat
        /\ DOMAIN queue' = 1 .. Len(queue) + 1
        /\ \A n \in DOMAIN queue : queue'[n] = queue[n]
        /\ queue'[Len(queue) + 1] = j
    BY <1>1, <1>2, <2>1, AppendProperties, LenProperties
  <2>3. \A n \in DOMAIN queue' : n \in DOMAIN queue \/ n = Len(queue) + 1
    BY <2>2
  <2>4. \A n \in DOMAIN queue' :
           /\ queue'[n] \in Known'
           /\ store'[queue'[n]].status = "queued_for_conversion"
           /\ queue'[n] # call'.job
    BY <1>2, <1>4, <2>1, <2>2, <2>3
  <2>5. \A m, n \in DOMAIN queue' : queue'[m] = queue'[n] => m = n
    <3> SUFFICES ASSUME NEW m \in DOMAIN queue', NEW n \in DOMAIN queue',
                        queue'[m] = queue'[n]
                 PROVE  m = n
      OBVIOUS
    <3>1. CASE m \in DOMAIN queue /\ n \in DOMAIN queue
      <4>1. queue[m] = queue[n]
        BY <2>2, <3>1
      <4> QED
        BY <1>2, <3>1, <4>1
    <3>2. CASE m \notin DOMAIN queue
      BY <1>2, <2>2, <2>3, <3>2
    <3>3. CASE n \notin DOMAIN queue
      BY <1>2, <2>2, <2>3, <3>3
    <3> QED
      BY <3>1, <3>2, <3>3
  <2>6. \A i \in Known' : store'[i].status = "queued_for_conversion" =>
           i = call'.job \/ \E n \in DOMAIN queue' : queue'[n] = i
    <3> SUFFICES ASSUME NEW i \in Known, i # j,
                        store[i].status = "queued_for_conversion", i # call.job
                 PROVE  \E n \in DOMAIN queue' : queue'[n] = i
      BY <2>1, <2>2
    <3>1. PICK n \in DOMAIN queue : queue[n] = i
      BY DEF QueueInv
    <3> QED
      BY <2>2, <3>1
  <2>7. call'.job \in Known' /\ store'[call'.job].status = "queued_for_conversion"
        /\ call'.job # 0
    BY <1>2, <1>4, <2>1 DEF QueueInv
  <2>8. QueueInv'
    BY <1>4, <2>1, <2>2, <2>4, <2>5, <2>6, <2>7 DEF QueueInv
  <2> QED
    BY <1>4, <2>1, <2>2, <2>3, <2>8 DEF PipelineTypeOK
<1> QED
  BY <1>3, <1>4

LEMMA WorkerQueue ==
    ASSUME PipelineTypeOK, QueueInv, call # NoCall, Known' = Known,
           \A i \in Known : i # call.job => store'[i].status = store[i].status,
           store'[call.job].status # "queued_for_conversion",
           WorkerGoesOn
    PROVE  /\ QueueInv'
           /\ call' \in [job : 0 .. MaxJobs, conversion : 0 .. MaxConversions,
                         state : {"idle", "sent", "answered", "refused"}]
           /\ call'.state # "answered" /\ call'.state # "refused"
           /\ call' # NoCall => \E n \in DOMAIN queue : call'.job = queue[n]
           /\ \A m \in DOMAIN queue' : \E n \in DOMAIN queue :
                 queue'[m] = queue[n]
<1>1. /\ queue \in Seq(Nat) /\ DOMAIN queue = 1 .. Len(queue)
      /\ Len(queue) \in Nat
      /\ \A n \in DOMAIN queue :
            /\ queue[n] \in Known /\ queue[n] # call.job
            /\ store[queue[n]].status = "queued_for_conversion"
      /\ \A m, n \in DOMAIN queue : queue[m] = queue[n] => m = n
      /\ \A i \in Known : store[i].status = "queued_for_conversion" =>
            i = call.job \/ \E n \in DOMAIN queue : queue[n] = i
  BY LenProperties DEF QueueInv
<1>2. /\ NoCall.job = 0 /\ NoCall.state = "idle"
      /\ NoCall \in [job : 0 .. MaxJobs, conversion : 0 .. MaxConversions,
                     state : {"idle", "sent", "answered", "refused"}]
  BY PipelineAssumption DEF NoCall
<1>3. CASE queue = <<>>
  <2>1. call' = NoCall /\ queue' = queue /\ DOMAIN queue = {}
    BY <1>3 DEF WorkerGoesOn
  <2>2. QueueInv'
    BY <1>1, <1>2, <2>1 DEF QueueInv
  <2> QED
    BY <1>2, <2>1, <2>2
<1>4. CASE queue # <<>>
  <2>1. call' = Request(queue[1]) /\ queue' = Tail(queue) /\ 1 \in DOMAIN queue
    BY <1>1, <1>4, EmptySeq DEF WorkerGoesOn
  <2>2. /\ queue' \in Seq(Nat) /\ DOMAIN queue' = 1 .. Len(queue) - 1
        /\ \A n \in DOMAIN queue' :
              /\ queue'[n] = queue[n + 1] /\ n + 1 \in DOMAIN queue
              /\ n \in Nat /\ n + 1 # 1
    BY <1>1, <1>4, <2>1, HeadTailProperties, LenProperties
  <2>3. queue[1] \in 1 .. MaxJobs /\ queue[1] \in Known
    BY <1>1, <2>1, JobTypes DEF Jobs
  <2>4. /\ call' # NoCall /\ call'.job = queue[1] /\ call'.job # 0
        /\ call'.state = "sent"
        /\ call' \in [job : 0 .. MaxJobs, conversion : 0 .. MaxConversions,
                      state : {"idle", "sent", "answered", "refused"}]
    BY <2>1, <2>3, RequestShape
  <2>5. \A n \in DOMAIN queue' :
           /\ queue'[n] \in Known'
           /\ store'[queue'[n]].status = "queued_for_conversion"
           /\ queue'[n] # call'.job
    <3> SUFFICES ASSUME NEW n \in DOMAIN queue'
                 PROVE  /\ queue'[n] \in Known'
                        /\ store'[queue'[n]].status = "queued_for_conversion"
                        /\ queue'[n] # call'.job
      OBVIOUS
    <3>1. queue'[n] = queue[n + 1] /\ n + 1 \in DOMAIN queue /\ n + 1 # 1
      BY <2>2
    <3>2. /\ queue[n + 1] \in Known /\ queue[n + 1] # call.job
          /\ store[queue[n + 1]].status = "queued_for_conversion"
      BY <1>1, <3>1
    <3>3. queue[n + 1] # queue[1]
      BY <1>1, <2>1, <3>1
    <3> QED
      BY <2>4, <3>1, <3>2, <3>3
  <2>6. \A m, n \in DOMAIN queue' : queue'[m] = queue'[n] => m = n
    <3> SUFFICES ASSUME NEW m \in DOMAIN queue', NEW n \in DOMAIN queue',
                        queue'[m] = queue'[n]
                 PROVE  m = n
      OBVIOUS
    <3>1. m + 1 = n + 1 /\ m \in Nat /\ n \in Nat
      BY <1>1, <2>2
    <3> QED
      BY <3>1
  <2>7. \A i \in Known' : store'[i].status = "queued_for_conversion" =>
           i = call'.job \/ \E n \in DOMAIN queue' : queue'[n] = i
    <3> SUFFICES ASSUME NEW i \in Known, i # call.job, i # queue[1],
                        store[i].status = "queued_for_conversion"
                 PROVE  \E n \in DOMAIN queue' : queue'[n] = i
      BY <2>4
    <3>1. PICK n \in DOMAIN queue : queue[n] = i
      BY <1>1
    <3>2. n - 1 \in DOMAIN queue' /\ (n - 1) + 1 = n
      BY <1>1, <2>2, <3>1
    <3> QED
      BY <2>2, <3>1, <3>2
  <2>8. QueueInv'
    BY <1>1, <2>1, <2>2, <2>3, <2>4, <2>5, <2>6, <2>7 DEF QueueInv
  <2> QED
    BY <2>1, <2>2, <2>4, <2>8
<1> QED
  BY <1>3, <1>4

LEMMA PrioritizedQueue ==
    ASSUME PipelineTypeOK, QueueInv, NEW n \in DOMAIN queue, Prioritize(n)
    PROVE  /\ QueueInv'
           /\ \A m \in DOMAIN queue' : \E i \in DOMAIN queue :
                 queue'[m] = queue[i]
<1> DEFINE len == Len(queue)
           old(m) == IF m = 1 THEN n ELSE IF m <= n THEN m - 1 ELSE m
<1>1. /\ queue \in Seq(Nat) /\ len \in Nat /\ DOMAIN queue = 1 .. len
      /\ n \in 1 .. len
  BY LenProperties DEF QueueInv
<1>2. /\ queue' \in Seq(Nat) /\ DOMAIN queue' = 1 .. len
      /\ \A m \in 1 .. len : queue'[m] = queue[old(m)]
  <2> DEFINE a == SubSeq(queue, 1, n - 1)
             b == SubSeq(queue, n + 1, len)
             s == <<queue[n]>> \o (a \o b)
  <2>1. queue' = s
    BY DEF Prioritize, RemoveAt
  <2>2. /\ a \in Seq(Nat) /\ Len(a) = n - 1
        /\ \A m \in 1 .. n - 1 : a[m] = queue[m]
    <3>1. \A i \in 1 .. n - 1 : queue[i] \in Nat
      BY <1>1, ElementOfSeq
    <3>2. 1 \in Int /\ n - 1 \in Int
      BY <1>1
    <3>3. /\ a \in Seq(Nat)
          /\ Len(a) = IF 1 <= n - 1 THEN (n - 1) - 1 + 1 ELSE 0
          /\ \A i \in 1 .. (n - 1) - 1 + 1 : a[i] = queue[1 + i - 1]
      BY <3>1, <3>2, SubSeqProperties
    <3> HIDE DEF a
    <3> QED
      BY <1>1, <3>3
  <2>3. /\ b \in Seq(Nat) /\ Len(b) = len - n
        /\ \A m \in 1 .. len - n : b[m] = queue[n + m]
    <3>1. \A i \in n + 1 .. len : queue[i] \in Nat
      <4>1. \A i \in 1 .. len : queue[i] \in Nat
        BY <1>1, ElementOfSeq
      <4> QED
        BY <1>1, <4>1
    <3>2. n + 1 \in Int /\ len \in Int
      BY <1>1
    <3>3. /\ b \in Seq(Nat)
          /\ Len(b) = IF n + 1 <= len THEN len - (n + 1) + 1 ELSE 0
          /\ \A i \in 1 .. len - (n + 1) + 1 : b[i] = queue[(n + 1) + i - 1]
      <4> HIDE DEF len
      <4> QED
        BY <3>1, <3>2, SubSeqProperties
    <3>4. \A i \in 1 .. len - n : (n + 1) + i - 1 = n + i
      BY <1>1
    <3>5. /\ len - (n + 1) + 1 = len - n
          /\ ~ (n + 1 <= len) => len - n = 0
      BY <1>1
    <3> HIDE DEF b, len
    <3> QED
      BY <3>3, <3>4, <3>5
  <2> HIDE DEF a, b
  <2>4. /\ a \o b \in Seq(Nat) /\ Len(a \o b) = len - 1
        /\ \A m \in 1 .. len - 1 :
              (a \o b)[m] = IF m <= n - 1 THEN queue[m] ELSE queue[m + 1]
    <3>1. /\ a \o b \in Seq(Nat) /\ Len(a \o b) = (n - 1) + (len - n)
          /\ \A m \in 1 .. (n - 1) + (len - n) :
                (a \o b)[m] = IF m <= n - 1 THEN a[m] ELSE b[m - (n - 1)]
      <4>1. /\ a \o b \in Seq(Nat) /\ Len(a \o b) = Len(a) + Len(b)
            /\ \A m \in 1 .. Len(a) + Len(b) :
                  (a \o b)[m] = IF m <= Len(a) THEN a[m] ELSE b[m - Len(a)]
        BY <2>2, <2>3, ConcatProperties
      <4> HIDE DEF len
      <4> QED
        BY <2>2, <2>3, <4>1
    <3>2. (n - 1) + (len - n) = len - 1
      BY <1>1
    <3>3. ASSUME NEW m \in 1 .. len - 1
          PROVE  (a \o b)[m] = IF m <= n - 1 THEN queue[m] ELSE queue[m + 1]
      <4>1. CASE m <= n - 1
        BY <1>1, <2>2, <3>1, <3>2, <4>1
      <4>2. CASE ~ (m <= n - 1)
        <5>1. m - (n - 1) \in 1 .. len - n /\ n + (m - (n - 1)) = m + 1
          BY <1>1, <4>2
        <5> QED
          BY <2>3, <3>1, <3>2, <4>2, <5>1
      <4> QED
        BY <4>1, <4>2
    <3> QED
      BY <3>1, <3>2, <3>3
  <2> DEFINE h == <<queue[n]>>
  <2>5. h \in Seq(Nat) /\ Len(h) = 1 /\ h[1] = queue[n]
    BY <1>1, ElementOfSeq
  <2>6. /\ s \in Seq(Nat) /\ Len(s) = len
        /\ \A m \in 1 .. len : s[m] = IF m <= 1 THEN h[m] ELSE (a \o b)[m - 1]
    <3> HIDE DEF h
    <3>1. s = h \o (a \o b)
      BY DEF h
    <3>2. /\ h \o (a \o b) \in Seq(Nat) /\ Len(h \o (a \o b)) = 1 + (len - 1)
          /\ \A m \in 1 .. 1 + (len - 1) :
                (h \o (a \o b))[m] = IF m <= 1 THEN h[m] ELSE (a \o b)[m - 1]
      <4> DEFINE t == a \o b
      <4> HIDE DEF t, len
      <4>1. t \in Seq(Nat) /\ Len(t) = len - 1
        BY <2>4 DEF t
      <4>2. /\ h \o t \in Seq(Nat) /\ Len(h \o t) = Len(h) + Len(t)
            /\ \A m \in 1 .. Len(h) + Len(t) :
                  (h \o t)[m] = IF m <= Len(h) THEN h[m] ELSE t[m - Len(h)]
        BY <2>5, <4>1, ConcatProperties
      <4>3. /\ h \o t \in Seq(Nat) /\ Len(h \o t) = 1 + (len - 1)
            /\ \A m \in 1 .. 1 + (len - 1) :
                  (h \o t)[m] = IF m <= 1 THEN h[m] ELSE t[m - 1]
        BY <2>5, <4>1, <4>2
      <4> QED
        BY <4>3 DEF t
    <3>3. 1 + (len - 1) = len
      BY <1>1
    <3> HIDE DEF s
    <3> QED
      BY <3>1, <3>2, <3>3
  <2> HIDE DEF s, h
  <2>7. ASSUME NEW m \in 1 .. len
        PROVE  s[m] = queue[old(m)]
    <3>1. CASE m = 1
      BY <2>5, <2>6, <3>1
    <3>2. CASE m # 1
      <4>1. m - 1 \in 1 .. len - 1 /\ ~ (m <= 1) /\ (m - 1) + 1 = m
            /\ (m - 1 <= n - 1 <=> m <= n)
        BY <1>1, <3>2
      <4>2. s[m] = IF m <= n THEN queue[m - 1] ELSE queue[m]
        BY <2>4, <2>6, <4>1
      <4> QED
        BY <3>2, <4>2
    <3> QED
      BY <3>1, <3>2
  <2> QED
    BY <2>1, <2>6, <2>7, LenProperties
<1>3. \A m \in 1 .. len : old(m) \in 1 .. len
  BY <1>1
<1>4. \A l, m \in 1 .. len : old(l) = old(m) => l = m
  BY <1>1
<1>5. ASSUME NEW i \in 1 .. len
      PROVE  \E m \in 1 .. len : old(m) = i
  <2>1. CASE i = n
    BY <1>1, <2>1
  <2>2. CASE i < n
    <3>1. i + 1 \in 1 .. len /\ old(i + 1) = i
      BY <1>1, <2>2
    <3> QED
      BY <3>1
  <2>3. CASE i > n
    BY <1>1, <2>3
  <2> QED
    BY <1>1, <2>1, <2>2, <2>3
<1> HIDE DEF old, len
<1>6. store' = store /\ call' = call /\ Known' = Known
  BY DEF Prioritize, Known
<1>7. ASSUME NEW m \in DOMAIN queue'
      PROVE  /\ queue'[m] \in Known
             /\ store[queue'[m]].status = "queued_for_conversion"
             /\ queue'[m] # call.job
  <2>1. PICK i \in DOMAIN queue : queue'[m] = queue[i]
    BY <1>1, <1>2, <1>3
  <2> QED
    BY <2>1 DEF QueueInv
<1>10. \A l, m \in DOMAIN queue' : queue'[l] = queue'[m] => l = m
  <2> SUFFICES ASSUME NEW l \in 1 .. len, NEW m \in 1 .. len,
                      queue'[l] = queue'[m]
               PROVE  l = m
    BY <1>2
  <2>1. queue[old(l)] = queue[old(m)]
    BY <1>2
  <2>2. old(l) = old(m)
    BY <1>1, <1>3, <2>1 DEF QueueInv
  <2> QED
    BY <1>4, <2>2
<1>8. \A j \in Known : store[j].status = "queued_for_conversion" =>
         j = call.job \/ \E m \in DOMAIN queue' : queue'[m] = j
  <2> SUFFICES ASSUME NEW j \in Known, j # call.job,
                      store[j].status = "queued_for_conversion"
               PROVE  \E m \in DOMAIN queue' : queue'[m] = j
    OBVIOUS
  <2>1. PICK i \in 1 .. len : queue[i] = j
    BY <1>1 DEF QueueInv
  <2>2. PICK m \in 1 .. len : old(m) = i
    BY <1>5
  <2>3. m \in DOMAIN queue' /\ queue'[m] = j
    BY <1>2, <2>1, <2>2
  <2> QED
    BY <2>3
<1>9. QueueInv'
  BY <1>2, <1>6, <1>7, <1>8, <1>10 DEF QueueInv
<1> QED
  BY <1>1, <1>2, <1>3, <1>9

-----------------------------------------------------------------------------
(***************************************************************************)
(* The steps that change a job.                                            *)
(***************************************************************************)
LEMMA CallbacksUntouched ==
    ASSUME PipelineTypeOK, CallbackInv,
           UNCHANGED <<callbacks, issued, requests, crashes, manual>>,
           faults' \in Nat, faults' >= faults, Known' \subseteq Known,
           \A j \in Known' : Awaited(j)' => Awaited(j)
    PROVE  CallbackInv'
<1>1. /\ crashes \in [all : Nat, unrecorded : Nat, unswept : SUBSET Keys] /\ requests \in Nat
      /\ crashes.unrecorded \in Nat
  BY DEF PipelineTypeOK
<1>2. /\ CallbackBound \in Nat /\ CallbackBound' \in Nat
      /\ CallbackBound' >= CallbackBound
  BY <1>1, CallbackBounds
<1>3. IsFiniteSet(manual') /\ Cardinality(manual') <= Cardinality(manual)
  BY FS_CardinalityType DEF CallbackInv
<1> QED
  BY <1>1, <1>2, <1>3, CallbackInvKept

LEMMA EnqueueStep ==
    ASSUME PipelineInv, AP!AuthorityInv, NEW j \in Known,
           store[j].status \notin {"queued_for_conversion", "dispatched"},
           ~ GivenUp(j),
           store' = WithStatus(j, "queued_for_conversion"), Enqueued(j),
           UNCHANGED <<issued, callbacks, pollers, manual, requests, crashes,
                       authorityVars>>,
           ledger' \in Ledgers,
           \A k \in Keys : ledger'[k] = "removed" <=> ledger[k] = "removed",
           faults' \in Nat, faults' = faults \/ faults' = faults + 1,
           DOMAIN pending' = DOMAIN pending \cup {j},
           \A i \in DOMAIN pending' : pending'[i] \in {"original", "rebuilt"},
           \A i \in DOMAIN intake' :
               i # j /\ i \in DOMAIN intake /\ intake'[i] = intake[i]
    PROVE  PipelineInv'
<1> USE DEF PipelineInv
<1>1. /\ Known' = Known /\ store' \in [Known -> JobRecords]
      /\ \A i \in Known :
            /\ store'[i].key = store[i].key
            /\ store'[i].download = store[i].download
            /\ store'[i].outcome = store[i].outcome
            /\ store'[i].conversion = store[i].conversion
            /\ i # j => store'[i].status = store[i].status
      /\ store'[j].status = "queued_for_conversion"
  BY StatusShape DEF JobStates
<1>2. /\ QueueInv'
      /\ call' \in [job : 0 .. MaxJobs, conversion : 0 .. MaxConversions,
                    state : {"idle", "sent", "answered", "refused"}]
      /\ call'.state \in {"answered", "refused"} => call' = call
      /\ call' # NoCall => call'.job = j \/ call' = call
      /\ \A n \in DOMAIN queue' :
            \/ queue'[n] = j
            \/ n \in DOMAIN queue /\ queue'[n] = queue[n]
  BY <1>1, EnqueuedQueue
<1>3. AuthoritySame /\ Authority!Created' = Authority!Created
  BY AuthorityIsStill
<1>4. faults \in Nat /\ faults' >= faults
  BY DEF PipelineTypeOK
<1>5. PipelineTypeOK'
  BY <1>1, <1>2 DEF PipelineTypeOK, Ledgers
<1>6. IntakeInv'
  BY <1>1 DEF IntakeInv
<1>7. KeyInv'
  <2>1. \A i \in Known : GivenUp(i) => GivenUp(i)'
    BY <1>1 DEF GivenUp
  <2> QED
    BY <1>1, <2>1, KeyInvKept
<1>8. ConversionInv'
  <2>1. manual' \subseteq Authority!Created
    BY DEF ConversionInv
  <2> QED
    BY <1>1, <1>2, <1>3, <2>1, ConversionInvKept, JobFiles
<1>9. CallbackInv'
  <2>1. \A i \in Known : Awaited(i)' => Awaited(i)
    BY <1>1 DEF Awaited
  <2> QED
    BY <1>1, <1>4, <2>1, CallbacksUntouched
<1>10. RequestInv'
  <2>1. \A c \in Authority!Created :
           /\ CorrelationOf(c)' = CorrelationOf(c)
           /\ conversions' = conversions
           /\ outages' = outages /\ lost' = lost
    BY AuthorityIsStill DEF authorityVars
  <2>2. call' # NoCall' => call'.job \in DOMAIN pending'
    BY <1>2 DEF RequestInv, NoCall
  <2>3. \A n \in DOMAIN queue' : queue'[n] \in DOMAIN pending'
    BY <1>2 DEF RequestInv
  <2> QED
    BY <1>3, <2>1, <2>2, <2>3 DEF RequestInv, AuthoritySame
<1>11. DispatchedIsWatched'
  <2>1. faults' = 0 => faults = 0
    BY <1>4
  <2> QED
    BY <1>1, <2>1, WatchedKept
<1>12. PlainRetryIsNotRefused'
  BY <1>1, <1>2, PlainKept
<1> QED
  BY <1>2, <1>5, <1>6, <1>7, <1>8, <1>9, <1>10, <1>11, <1>12

LEMMA EnqueueActions ==
    ASSUME PipelineInv, AP!AuthorityInv,
           \/ \E j \in DOMAIN intake : Queue(j)
           \/ \E j \in Known : RetryDispatch(j)
    PROVE  PipelineInv'
<1>1. /\ ledger \in Ledgers /\ faults \in Nat
      /\ \A j \in Known : store[j] \in JobRecords
      /\ \A i \in DOMAIN pending : pending[i] \in {"original", "rebuilt"}
  BY DEF PipelineInv, PipelineTypeOK, RequestInv, Ledgers
<1>2. ASSUME NEW j \in DOMAIN intake, Queue(j)
      PROVE  PipelineInv'
  <2>1. j \in Known /\ store[j].status = "accepted" /\ ~ GivenUp(j)
        /\ store[j].key \in Keys
    BY <1>1 DEF PipelineInv, IntakeInv, GivenUp, JobRecords
  <2>2. \/ ledger' = Recorded(store[j].key, "queued") /\ faults' = faults
        \/ faults' = faults + 1 /\ ledger' = ledger
    BY <1>2 DEF Queue, Fault
  <2>3. /\ ledger' \in Ledgers
        /\ \A k \in Keys : ledger'[k] = "removed" <=> ledger[k] = "removed"
    BY <1>1, <2>1, <2>2, RecordedShape
  <2>4. /\ DOMAIN pending' = DOMAIN pending \cup {j}
        /\ \A i \in DOMAIN pending' : pending'[i] \in {"original", "rebuilt"}
    BY <1>1, <1>2 DEF Queue, With
  <2>5. \A i \in DOMAIN intake' :
           i # j /\ i \in DOMAIN intake /\ intake'[i] = intake[i]
    BY <1>2 DEF Queue, Without
  <2>6. /\ UNCHANGED <<issued, callbacks, pollers, manual, requests, crashes,
                       authorityVars>>
        /\ store' = WithStatus(j, "queued_for_conversion") /\ Enqueued(j)
    BY <1>2 DEF Queue
  <2> QED
    BY <1>1, <2>1, <2>2, <2>3, <2>4, <2>5, <2>6, EnqueueStep
<1>3. ASSUME NEW j \in Known, RetryDispatch(j)
      PROVE  PipelineInv'
  <2>1. /\ store[j].status \in {"dispatch_failed", "dropped_on_restart"}
        /\ ~ GivenUp(j)
    BY <1>3 DEF RetryDispatch, Retryable, GivenUp
  <2>2. /\ DOMAIN pending' = DOMAIN pending \cup {j}
        /\ \A i \in DOMAIN pending' : pending'[i] \in {"original", "rebuilt"}
    BY <1>1, <1>3 DEF RetryDispatch, With
  <2>3. /\ UNCHANGED <<issued, callbacks, pollers, manual, requests, crashes,
                       authorityVars, ledger, faults, intake>>
        /\ store' = WithStatus(j, "queued_for_conversion") /\ Enqueued(j)
    BY <1>3 DEF RetryDispatch
  <2>4. j \notin DOMAIN intake
    BY <2>1 DEF PipelineInv, IntakeInv
  <2> QED
    BY <1>1, <2>1, <2>2, <2>3, <2>4, EnqueueStep
<1> QED
  BY <1>2, <1>3

LEMMA DownloadActions ==
    ASSUME PipelineInv, AP!AuthorityInv,
           \E j \in DOMAIN intake : DownloadFails(j) \/ Downloaded(j)
    PROVE  PipelineInv'
<1> USE DEF PipelineInv
<1>1. PICK j \in DOMAIN intake : DownloadFails(j) \/ Downloaded(j)
  OBVIOUS
<1>2. j \in Known /\ store[j].status = "accepted" /\ store[j] \in JobRecords
  BY DEF IntakeInv, PipelineTypeOK
<1>3. UNCHANGED <<issued, ledger, callbacks, pending, queue, call, pollers,
                  manual, requests, crashes, faults, authorityVars>>
  BY <1>1 DEF DownloadFails, Downloaded
<1>4. PICK d \in {"failed", "downloaded"} :
         /\ store' = [store EXCEPT ![j].download = d]
         /\ \A i \in DOMAIN intake' :
               /\ i \in DOMAIN intake
               /\ i # j => intake'[i] = intake[i]
               /\ i = j => d = "downloaded" /\ intake'[i] = "check"
  BY <1>1 DEF DownloadFails, Downloaded, With, Without
<1>5. /\ Known' = Known /\ store' \in [Known -> JobRecords]
      /\ \A i \in Known :
            /\ store'[i].key = store[i].key
            /\ store'[i].status = store[i].status
            /\ store'[i].outcome = store[i].outcome
            /\ store'[i].conversion = store[i].conversion
            /\ i # j => store'[i] = store[i]
      /\ store'[j].download = d
  <2>1. \A i \in Known : store[i] \in JobRecords
    BY DEF PipelineTypeOK
  <2>2. /\ Known' = Known /\ store' = [i \in Known |-> store'[i]]
        /\ \A i \in Known : i # j => store'[i] = store[i]
        /\ store'[j] = [store[j] EXCEPT !.download = d]
    BY <1>2, <1>4 DEF Known, PipelineTypeOK
  <2>3. /\ store'[j] \in JobRecords /\ store'[j].download = d
        /\ store'[j].key = store[j].key /\ store'[j].status = store[j].status
        /\ store'[j].outcome = store[j].outcome
        /\ store'[j].conversion = store[j].conversion
    BY <1>2, <2>2 DEF JobRecords
  <2> QED
    BY <2>1, <2>2, <2>3
<1>6. AuthoritySame /\ Authority!Created' = Authority!Created
  BY <1>3, AuthorityIsStill
<1>7. PipelineTypeOK'
  BY <1>3, <1>5 DEF PipelineTypeOK
<1>8. IntakeInv'
  <2> SUFFICES ASSUME NEW i \in DOMAIN intake'
               PROVE  /\ i \in Known' /\ store'[i].status = "accepted"
                      /\ store'[i].download # "failed"
                      /\ intake'[i] = "download" =>
                            store'[i].download = "downloading"
    BY DEF IntakeInv
  <2> QED
    BY <1>2, <1>4, <1>5 DEF IntakeInv
<1>9. QueueInv'
  BY <1>3, <1>5, QueueInvKept
<1>10. KeyInv'
  <2>1. ASSUME NEW i \in Known, GivenUp(i) PROVE GivenUp(i)'
    <3>1. i # j
      BY <2>1 DEF GivenUp, IntakeInv
    <3> QED
      BY <1>5, <2>1, <3>1 DEF GivenUp
  <2> QED
    BY <1>3, <1>5, <2>1, KeyInvKept
<1>11. ConversionInv'
  <2>1. manual' \subseteq Authority!Created
    BY <1>3 DEF ConversionInv
  <2> QED
    BY <1>3, <1>5, <1>6, <2>1, ConversionInvKept, JobFiles
<1>12. CallbackInv'
  <2>1. faults' \in Nat /\ faults' >= faults
    BY <1>3 DEF PipelineTypeOK
  <2>2. \A i \in Known : Awaited(i)' => Awaited(i)
    BY <1>3, <1>5 DEF Awaited
  <2> QED
    BY <1>3, <1>5, <2>1, <2>2, CallbacksUntouched
<1>13. RequestInv'
  BY <1>3, <1>6, RequestInvKept
<1>14. DispatchedIsWatched'
  BY <1>3, <1>5, WatchedKept
<1>15. PlainRetryIsNotRefused'
  BY <1>3, <1>5, PlainKept
<1> QED
  BY <1>7, <1>8, <1>9, <1>10, <1>11, <1>12, <1>13, <1>14, <1>15

(* The request under way ends: its job leaves the queue, the next goes out. *)
LEMMA CallStep ==
    ASSUME PipelineInv, AP!AuthorityInv, call # NoCall, WorkerGoesOn,
           Known' = Known, store' \in [Known -> JobRecords],
           \A i \in Known :
               /\ store'[i].key = store[i].key
               /\ i # call.job => store'[i] = store[i],
           store'[call.job].status \in {"dispatched", "dispatch_failed"},
           store'[call.job].outcome = "open",
           store'[call.job].status = "dispatched" =>
               /\ call.state = "answered"
               /\ store'[call.job].conversion = call.conversion,
           pollers' \in [DOMAIN pollers' -> Nat],
           \/ pollers' = pollers /\ store'[call.job].status = "dispatch_failed"
           \/ /\ DOMAIN pollers' = DOMAIN pollers \cup {call.conversion}
              /\ store'[call.job].status = "dispatched",
           \A i \in DOMAIN pending' :
               i \in DOMAIN pending /\ pending'[i] = pending[i],
           DOMAIN pending \ {call.job} \subseteq DOMAIN pending',
           UNCHANGED <<issued, ledger, callbacks, intake, manual, requests,
                       crashes, faults, authorityVars>>
    PROVE  PipelineInv'
<1> USE DEF PipelineInv
<1>1. /\ call.job \in Known
      /\ store[call.job].status = "queued_for_conversion"
  BY DEF QueueInv
<1>2. /\ QueueInv'
      /\ call' \in [job : 0 .. MaxJobs, conversion : 0 .. MaxConversions,
                    state : {"idle", "sent", "answered", "refused"}]
      /\ call'.state # "answered" /\ call'.state # "refused"
      /\ call' # NoCall => \E n \in DOMAIN queue : call'.job = queue[n]
      /\ \A m \in DOMAIN queue' : \E n \in DOMAIN queue : queue'[m] = queue[n]
  BY WorkerQueue
<1>3. /\ AuthoritySame /\ Authority!Created' = Authority!Created
      /\ \A c : CorrelationOf(c)' = CorrelationOf(c)
  BY AuthorityIsStill
<1>4. PipelineTypeOK'
  BY <1>2 DEF PipelineTypeOK
<1>5. IntakeInv'
  BY <1>1 DEF IntakeInv
<1>6. KeyInv'
  <2>1. \A i \in Known : GivenUp(i) => GivenUp(i)'
    BY <1>1 DEF GivenUp
  <2> QED
    BY <2>1, KeyInvKept
<1>7. \A c, k : OfKey(c, k)' <=> OfKey(c, k)
  BY <1>3 DEF OfKey
<1>8. \A k : JobsOf(k)' = JobsOf(k)
  BY DEF JobsOf
<1>9. ASSUME store'[call.job].status = "dispatched"
      PROVE  /\ call.conversion \in Authority!Created
             /\ CorrelationOf(call.conversion) = store[call.job].key
  BY <1>9 DEF ConversionInv, OfKey
<1>10. ConversionInv'
  <2>1. ASSUME NEW j \in Known', store'[j].status = "dispatched"
        PROVE  OfKey(store[j].conversion, store[j].key)'
    <3>1. /\ store'[j].conversion \in Authority!Created
          /\ CorrelationOf(store'[j].conversion) = store'[j].key
      <4>1. CASE j = call.job
        BY <1>1, <1>9, <2>1, <4>1
      <4>2. CASE j # call.job
        BY <2>1, <4>2 DEF ConversionInv, OfKey
      <4> QED
        BY <4>1, <4>2
    <3> QED
      BY <1>3, <3>1 DEF OfKey, CorrelationOf, authorityVars
  <2>2. DOMAIN pollers' \cup manual' \subseteq Authority!Created'
    BY <1>3, <1>9 DEF ConversionInv
  <2>3. ASSUME NEW c \in DOMAIN pollers'
        PROVE  \/ Gone(CorrelationOf(c))
               \/ \E j \in JobsOf(CorrelationOf(c)) :
                     store'[j].status = "dispatched" /\ store'[j].conversion = c
    <3>1. CASE c \in DOMAIN pollers
      <4>1. CASE Gone(CorrelationOf(c))
        BY <4>1
      <4>2. ASSUME NEW j \in JobsOf(CorrelationOf(c)),
                   store[j].status = "dispatched", store[j].conversion = c
            PROVE  store'[j].status = "dispatched" /\ store'[j].conversion = c
        BY <1>1, <4>2 DEF JobsOf
      <4> QED
        BY <3>1, <4>1, <4>2 DEF ConversionInv
    <3>2. CASE c \notin DOMAIN pollers
      <4>1. c = call.conversion /\ store'[call.job].status = "dispatched"
        BY <3>2
      <4>2. call.job \in JobsOf(CorrelationOf(c))
        BY <1>1, <1>9, <4>1 DEF JobsOf
      <4> QED
        BY <4>1, <4>2
    <3> QED
      BY <3>1, <3>2
  <2>4. \A c \in DOMAIN pollers' :
           \/ Gone(CorrelationOf(c))'
           \/ \E j \in JobsOf(CorrelationOf(c))' :
                 store'[j].status = "dispatched" /\ store'[j].conversion = c
    <3>1. \A c : JobsOf(CorrelationOf(c))' = JobsOf(CorrelationOf(c))
      BY <1>3, <1>8 DEF JobsOf
    <3>2. \A c : Gone(CorrelationOf(c)) => Gone(CorrelationOf(c))'
      BY <1>3, <3>1 DEF Gone
    <3> QED
      BY <1>3, <2>3, <3>1, <3>2
  <2> QED
    BY <1>2, <2>1, <2>2, <2>4 DEF ConversionInv
<1>11. CallbackInv'
  <2>1. ASSUME NEW j \in Known, Awaited(j)' PROVE Awaited(j)
    <3>1. CASE j = call.job
      BY <1>1, <3>1 DEF Awaited
    <3>2. CASE j # call.job
      <4> SUFFICES ASSUME store[j].status = "dispatched",
                          store[j].conversion = call.conversion,
                          store'[call.job].status = "dispatched"
                   PROVE  FALSE
        BY <2>1, <3>2 DEF Awaited
      <4>1. store[j].key = store[call.job].key
        BY <1>9 DEF ConversionInv, OfKey
      <4>2. store[j].key \in Keys /\ ~ GivenUp(j) /\ ~ GivenUp(call.job)
        BY <1>1, JobTypes DEF GivenUp, JobRecords
      <4> QED
        BY <1>1, <3>2, <4>1, <4>2, OneBeyond
    <3> QED
      BY <3>1, <3>2
  <2>2. faults' \in Nat /\ faults' >= faults
    BY DEF PipelineTypeOK
  <2> QED
    BY <2>1, <2>2, CallbacksUntouched
<1>12. RequestInv'
  <2>1. conversions' = conversions /\ outages' = outages /\ lost' = lost
    BY DEF authorityVars
  <2>2. \A n \in DOMAIN queue : queue[n] \in DOMAIN pending'
    BY DEF RequestInv, QueueInv
  <2>3. \A n \in DOMAIN queue' : queue'[n] \in DOMAIN pending'
    BY <1>2, <2>2
  <2>4. call' # NoCall' => call'.job \in DOMAIN pending'
    BY <1>2, <2>2 DEF NoCall
  <2>5. \A i \in DOMAIN pending' : pending'[i] \in {"original", "rebuilt"}
    BY DEF RequestInv
  <2> QED
    BY <1>3, <2>1, <2>3, <2>4, <2>5 DEF RequestInv
<1>13. DispatchedIsWatched'
  <2> SUFFICES ASSUME requests = 0, faults = 0, NEW j \in Known,
                      store'[j].status = "dispatched",
                      store'[j].outcome = "open"
               PROVE  store'[j].conversion \in DOMAIN pollers'
    BY DEF DispatchedIsWatched
  <2>1. CASE j = call.job
    BY <2>1
  <2>2. CASE j # call.job
    BY <2>2 DEF DispatchedIsWatched
  <2> QED
    BY <2>1, <2>2
<1>14. PlainRetryIsNotRefused'
  BY <1>2, PlainKept
<1> QED
  BY <1>2, <1>4, <1>5, <1>6, <1>10, <1>11, <1>12, <1>13, <1>14

LEMMA CallActions ==
    ASSUME PipelineInv, AP!AuthorityInv, Dispatched \/ DispatchFails
    PROVE  PipelineInv'
<1>1. /\ PipelineTypeOK /\ \A i \in Known : store[i] \in JobRecords
      /\ store \in [Known -> JobRecords]
      /\ call.conversion \in 0 .. MaxConversions
      /\ pollers \in [DOMAIN pollers -> Nat]
  BY DEF PipelineInv, PipelineTypeOK
<1>2. call # NoCall
  BY DEF Dispatched, DispatchFails, NoCall
<1>3. call.job \in Known /\ store[call.job] \in JobRecords
  BY <1>1, <1>2 DEF PipelineInv, QueueInv
<1> DEFINE m == call.job
<1>4. CASE Dispatched
  <2>1. store' = [store EXCEPT ![m].status = "dispatched",
                               ![m].outcome = "open",
                               ![m].conversion = call.conversion]
    BY <1>4 DEF Dispatched
  <2>2. store'[m] = [store[m] EXCEPT !.status = "dispatched",
                                     !.outcome = "open",
                                     !.conversion = call.conversion]
    BY <1>1, <1>3, <2>1
  <2>3. /\ Known' = Known /\ store' = [i \in Known |-> store'[i]]
        /\ \A i \in Known : i # m => store'[i] = store[i]
    BY <1>1, <2>1 DEF Known
  <2>4. /\ store'[m] \in JobRecords /\ store'[m].status = "dispatched"
        /\ store'[m].key = store[m].key /\ store'[m].outcome = "open"
        /\ store'[m].conversion = call.conversion
    BY <1>1, <1>3, <2>2 DEF JobRecords, JobStates
  <2>5. /\ store' \in [Known -> JobRecords]
        /\ \A i \in Known : store'[i].key = store[i].key
    BY <1>1, <2>3, <2>4
  <2>6. /\ pollers' \in [DOMAIN pollers' -> Nat]
        /\ DOMAIN pollers' = DOMAIN pollers \cup {call.conversion}
    BY <1>1, <1>4 DEF Dispatched, With
  <2>7. /\ \A i \in DOMAIN pending' :
              i \in DOMAIN pending /\ pending'[i] = pending[i]
        /\ DOMAIN pending \ {m} \subseteq DOMAIN pending'
    BY <1>4 DEF Dispatched, Without
  <2>8. /\ call.state = "answered" /\ WorkerGoesOn
        /\ UNCHANGED <<issued, ledger, callbacks, intake, manual, requests,
                       crashes, faults, authorityVars>>
    BY <1>4 DEF Dispatched
  <2> QED
    BY <1>2, <2>3, <2>4, <2>5, <2>6, <2>7, <2>8, CallStep
<1>5. CASE DispatchFails
  <2>1. store' = [store EXCEPT ![m].status = "dispatch_failed",
                               ![m].outcome = "open"]
    BY <1>5 DEF DispatchFails
  <2>2. store'[m] = [store[m] EXCEPT !.status = "dispatch_failed",
                                     !.outcome = "open"]
    BY <1>1, <1>3, <2>1
  <2>3. /\ Known' = Known /\ store' = [i \in Known |-> store'[i]]
        /\ \A i \in Known : i # m => store'[i] = store[i]
    BY <1>1, <2>1 DEF Known
  <2>4. /\ store'[m] \in JobRecords /\ store'[m].status = "dispatch_failed"
        /\ store'[m].key = store[m].key /\ store'[m].outcome = "open"
    BY <1>3, <2>2 DEF JobRecords, JobStates
  <2>5. /\ store' \in [Known -> JobRecords]
        /\ \A i \in Known : store'[i].key = store[i].key
    BY <1>1, <2>3, <2>4
  <2>6. /\ WorkerGoesOn
        /\ UNCHANGED <<issued, ledger, callbacks, intake, pending, pollers,
                       manual, requests, crashes, faults, authorityVars>>
    BY <1>5 DEF DispatchFails
  <2> QED
    BY <1>1, <1>2, <2>3, <2>4, <2>5, <2>6, CallStep
<1> QED
  BY <1>4, <1>5

LEMMA AcceptStep ==
    ASSUME PipelineInv, AP!AuthorityInv, NEW k \in Keys, Accept(k)
    PROVE  PipelineInv'
<1> USE DEF PipelineInv
<1> DEFINE new == issued + 1
<1>1. /\ issued \in 0 .. MaxJobs /\ issued' = new /\ new \in 1 .. MaxJobs
      /\ Known \subseteq 1 .. issued /\ new \notin Known
      /\ \A j \in Known : store[j] \in JobRecords
  BY PipelineAssumption DEF PipelineTypeOK, Accept
<1>2. UNCHANGED <<ledger, callbacks, pending, queue, call, pollers, manual,
                  requests, crashes, faults, authorityVars>>
  BY DEF Accept
<1>3. /\ Known' = Known \cup {new}
      /\ \A j \in Known : store'[j] = store[j]
      /\ store'[new] = [key |-> k, status |-> "accepted",
                        download |-> "downloading", outcome |-> "open",
                        conversion |-> 0]
      /\ store' = [j \in Known' |-> store'[j]]
  BY <1>1 DEF Accept, With, Known
<1>4. /\ store'[new] \in JobRecords /\ store'[new].key = k
      /\ store'[new].status = "accepted"
      /\ store'[new].download = "downloading"
  BY <1>3, PipelineAssumption DEF JobRecords, JobStates
<1> HIDE DEF new
<1>5. AuthoritySame /\ Authority!Created' = Authority!Created
      /\ \A c : CorrelationOf(c)' = CorrelationOf(c)
  BY <1>2, AuthorityIsStill
<1>6. PipelineTypeOK'
  <2>1. store' \in [Known' -> JobRecords]
    BY <1>1, <1>3, <1>4
  <2>2. issued' \in 0 .. MaxJobs /\ Known' \subseteq 1 .. issued'
    BY <1>1, <1>3 DEF new
  <2> QED
    BY <1>2, <2>1, <2>2 DEF PipelineTypeOK
<1>7. IntakeInv'
  <2>1. ASSUME NEW i \in DOMAIN intake', i # new
        PROVE  i \in DOMAIN intake /\ intake'[i] = intake[i]
    BY <2>1 DEF Accept, With, new
  <2> QED
    BY <1>3, <1>4, <2>1 DEF IntakeInv
<1>8. QueueInv'
  <2>1. /\ store'[new].status # "queued_for_conversion"
    BY <1>4
  <2> QED
    BY <1>1, <1>2, <1>3, <2>1 DEF QueueInv
<1>9. \A j \in Known : GivenUp(j)' <=> GivenUp(j)
  BY <1>3 DEF GivenUp
<1>10. \A i : i # k => JobsOf(i)' = JobsOf(i)
  BY <1>1, <1>3, <1>4 DEF JobsOf
<1>11. JobsOf(k)' = JobsOf(k) \cup {new}
  BY <1>1, <1>3, <1>4 DEF JobsOf
<1>12. KeyInv'
  <2>1. \A i \in Keys :
           ledger'[i] = "removed" /\ i \notin crashes'.unswept =>
               JobsOf(i)' = {}
    BY <1>2, <1>10 DEF KeyInv, Accept, Refused
  <2>2. \A j \in JobsOf(k) : GivenUp(j)
    <3> SUFFICES ASSUME NEW j \in JobsOf(k) PROVE GivenUp(j)
      OBVIOUS
    <3>1. GivenUp(Latest(k))
      BY DEF Accept, FreshIntake, GivenUp
    <3> QED
      BY <3>1, LastOfKey
  <2>3. \A j \in JobsOf(k)' : j <= new /\ (j # new => GivenUp(j)')
    <3>1. \A j \in JobsOf(k) : j \in Known /\ j <= new
      BY <1>1 DEF JobsOf, new
    <3>2. new <= new
      BY <1>1
    <3> QED
      BY <1>9, <1>11, <2>2, <3>1, <3>2
  <2>4. ASSUME NEW i \in Keys, i # k, JobsOf(i)' # {}
        PROVE  \E last \in JobsOf(i)' :
                  \A j \in JobsOf(i)' :
                     j <= last /\ (j # last => GivenUp(j)')
    <3>1. JobsOf(i)' = JobsOf(i) /\ JobsOf(i) # {}
      BY <1>10, <2>4
    <3>2. PICK last \in JobsOf(i) :
             \A j \in JobsOf(i) : j <= last /\ (j # last => GivenUp(j))
      BY <3>1 DEF KeyInv
    <3>3. \A j \in JobsOf(i) : GivenUp(j) => GivenUp(j)'
      BY <1>9 DEF JobsOf
    <3> QED
      BY <3>1, <3>2, <3>3
  <2>5. new \in JobsOf(k)'
    BY <1>11
  <2> QED
    BY <2>1, <2>3, <2>4, <2>5 DEF KeyInv
<1>13. ConversionInv'
  <2>1. \A c, i : OfKey(c, i)' <=> OfKey(c, i)
    BY <1>5 DEF OfKey
  <2>2. call'.state = "answered" => OfKey(call.conversion, store[call.job].key)'
    <3> SUFFICES ASSUME call.state = "answered"
                 PROVE  OfKey(call.conversion, store[call.job].key)'
      BY <1>2
    <3>1. call.job \in Known
      BY DEF QueueInv, NoCall
    <3>2. OfKey(call.conversion, store[call.job].key)
      BY DEF ConversionInv
    <3> QED
      BY <1>2, <1>3, <2>1, <3>1, <3>2
  <2>3. \A j \in Known' : store'[j].status = "dispatched" =>
           OfKey(store[j].conversion, store[j].key)'
    BY <1>3, <1>4, <2>1 DEF ConversionInv
  <2>4. ASSUME NEW c \in DOMAIN pollers
        PROVE  \/ Gone(CorrelationOf(c))'
               \/ \E j \in JobsOf(CorrelationOf(c))' :
                     store'[j].status = "dispatched" /\ store'[j].conversion = c
    <3>1. \A j \in JobsOf(CorrelationOf(c)) :
             store'[j] = store[j] /\ j \in JobsOf(CorrelationOf(c))'
      BY <1>3, <1>5 DEF JobsOf
    <3>2. Gone(CorrelationOf(c)) => Gone(CorrelationOf(c))'
      BY <1>2, <1>5, <1>10 DEF Gone, Accept, Refused
    <3> QED
      BY <1>2, <1>5, <3>1, <3>2 DEF ConversionInv
  <2>5. DOMAIN pollers' \cup manual' \subseteq Authority!Created'
    BY <1>2, <1>5 DEF ConversionInv
  <2> QED
    BY <1>2, <2>2, <2>3, <2>4, <2>5 DEF ConversionInv
<1>14. CallbackInv'
  <2>1. /\ CallbackBound' = CallbackBound /\ CallbackBound \in Nat
        /\ crashes.unrecorded \in Nat /\ faults \in Nat /\ requests \in Nat
    BY <1>2, CallbackBounds DEF CallbackBound, PipelineTypeOK
  <2>2. Cardinality(manual) \in Nat /\ Cardinality(manual) <= requests
    BY FS_CardinalityType DEF CallbackInv
  <2>3. Cardinality(manual) + 1 <= CallbackBound
    BY <2>1, <2>2 DEF CallbackBound
  <2>4. callbacks[new] = 0 /\ new \in Jobs /\ new > issued
    <3>1. new \in Jobs /\ new > issued
      BY <1>1 DEF Jobs, new
    <3> QED
      BY <3>1 DEF CallbackInv
  <2>5. \A j \in Known : Awaited(j)' <=> Awaited(j)
    BY <1>2, <1>3 DEF Awaited
  <2>6. ASSUME NEW j \in Jobs
        PROVE  /\ callbacks'[j] <= CallbackBound'
               /\ j > issued' => callbacks'[j] = 0
               /\ j \in Known' =>
                     callbacks'[j] + Cardinality(manual')
                         + (IF Awaited(j)' THEN 1 ELSE 0) <= CallbackBound'
    <3>1. /\ callbacks'[j] <= CallbackBound'
          /\ j > issued' => callbacks'[j] = 0
      BY <1>1, <1>2, <2>1 DEF CallbackInv, new, Jobs
    <3>2. CASE j = new
      BY <1>2, <2>1, <2>2, <2>3, <2>4, <3>1, <3>2
    <3>3. CASE j # new
      BY <1>2, <1>3, <2>1, <2>5, <3>1, <3>3 DEF CallbackInv
    <3> QED
      BY <3>2, <3>3
  <2> QED
    BY <1>2, <2>6 DEF CallbackInv
<1>15. RequestInv'
  BY <1>2, <1>5, RequestInvKept
<1>16. DispatchedIsWatched'
  BY <1>2, <1>3, <1>4, WatchedKept
<1>17. PlainRetryIsNotRefused'
  <2>1. call # NoCall => call.job \in Known
    BY DEF QueueInv
  <2>2. NoCall.state # "refused"
    BY DEF NoCall
  <2> QED
    BY <1>2, <1>3, <2>1, <2>2 DEF PlainRetryIsNotRefused, RetryIsNotRefused
<1> QED
  BY <1>6, <1>7, <1>8, <1>12, <1>13, <1>14, <1>15, <1>16, <1>17

LEMMA RemoveStep ==
    ASSUME PipelineInv, AP!AuthorityInv, NEW k \in Keys, RemoveRecord(k)
    PROVE  PipelineInv'
<1> USE DEF PipelineInv
<1>1. UNCHANGED <<issued, callbacks, intake, pending, queue, call, pollers,
                  manual, requests, faults, authorityVars>>
  BY DEF RemoveRecord
<1>c. /\ crashes' \in [all : Nat, unrecorded : Nat, unswept : SUBSET Keys]
      /\ crashes'.unrecorded = crashes.unrecorded
      /\ crashes.unswept \subseteq crashes'.unswept \cup {k}
  <2>1. crashes \in [all : Nat, unrecorded : Nat, unswept : SUBSET Keys]
    BY DEF PipelineTypeOK
  <2>2. crashes' = [crashes EXCEPT !.unswept = @ \ {k}]
    BY DEF RemoveRecord
  <2> QED
    BY <2>1, <2>2
<1>2. /\ Known' = {j \in Known : store[j].key # k}
      /\ \A j \in Known' : j \in Known /\ store'[j] = store[j]
      /\ store' = [j \in Known' |-> store'[j]]
  BY DEF RemoveRecord, Without, Known, JobsOf
<1>3. \A j \in Known : InFlight(j) => j \in Known'
  BY <1>2 DEF RemoveRecord, Removable, JobsOf
<1>4. /\ ledger' = [ledger EXCEPT ![k] = "removed"]
      /\ ledger \in Ledgers /\ ledger' \in Ledgers /\ ledger'[k] = "removed"
      /\ \A i \in Keys : i # k => ledger'[i] = ledger[i]
  BY DEF RemoveRecord, Tombstone, Ledgers, PipelineTypeOK
<1>5. AuthoritySame /\ Authority!Created' = Authority!Created
      /\ \A c : CorrelationOf(c)' = CorrelationOf(c)
  BY <1>1, AuthorityIsStill
<1>6. PipelineTypeOK'
  <2>1. store' \in [Known' -> JobRecords]
    BY <1>2 DEF PipelineTypeOK
  <2>2. Known' \subseteq 1 .. issued'
    BY <1>1, <1>2 DEF PipelineTypeOK
  <2> QED
    BY <1>1, <1>4, <1>c, <2>1, <2>2 DEF PipelineTypeOK, Ledgers
<1>7. \A j \in Known :
         store[j].status = "queued_for_conversion" => j \in Known'
  BY <1>3 DEF InFlight
<1>8. IntakeInv'
  <2>1. \A j \in DOMAIN intake : j \in Known'
    BY <1>3 DEF IntakeInv, InFlight
  <2> QED
    BY <1>1, <1>2, <2>1, IntakeInvKept
<1>9. QueueInv'
  <2>1. /\ \A n \in DOMAIN queue' :
              /\ queue'[n] \in Known'
              /\ store'[queue'[n]].status = "queued_for_conversion"
              /\ queue'[n] # call'.job
        /\ call' # NoCall =>
              /\ call'.job \in Known'
              /\ store'[call'.job].status = "queued_for_conversion"
    BY <1>1, <1>2, <1>7 DEF QueueInv
  <2>2. \A j \in Known' :
           store'[j].status = "queued_for_conversion" =>
               j = call'.job \/ \E n \in DOMAIN queue' : queue'[n] = j
    BY <1>1, <1>2 DEF QueueInv
  <2> QED
    BY <1>1, <2>1, <2>2 DEF QueueInv
<1>10. /\ \A i : i # k => JobsOf(i)' = JobsOf(i)
       /\ JobsOf(k)' = {}
  BY <1>2 DEF JobsOf
<1>11. KeyInv'
  <2>1. \A j \in Known' : GivenUp(j)' <=> GivenUp(j)
    BY <1>2 DEF GivenUp
  <2>2. ASSUME NEW i \in Keys, i # k, JobsOf(i)' # {}
        PROVE  \E last \in JobsOf(i)' :
                  \A j \in JobsOf(i)' :
                     j <= last /\ (j # last => GivenUp(j)')
    <3>1. JobsOf(i)' = JobsOf(i) /\ JobsOf(i) # {}
      BY <1>10, <2>2
    <3>2. PICK last \in JobsOf(i) :
             \A j \in JobsOf(i) : j <= last /\ (j # last => GivenUp(j))
      BY <3>1 DEF KeyInv
    <3>3. \A j \in JobsOf(i) : GivenUp(j) => GivenUp(j)'
      BY <2>1, <2>2, <1>2 DEF JobsOf
    <3> QED
      BY <3>1, <3>2, <3>3
  <2>3. \A i \in Keys :
           ledger'[i] = "removed" /\ i \notin crashes'.unswept =>
               JobsOf(i)' = {}
    BY <1>4, <1>10, <1>c DEF KeyInv
  <2> QED
    BY <1>10, <2>2, <2>3 DEF KeyInv
<1>12. ConversionInv'
  <2>1. \A c, i : OfKey(c, i)' <=> OfKey(c, i)
    BY <1>5 DEF OfKey
  <2>2. call'.state = "answered" => OfKey(call.conversion, store[call.job].key)'
    <3> SUFFICES ASSUME call.state = "answered"
                 PROVE  OfKey(call.conversion, store[call.job].key)'
      BY <1>1
    <3>1. call.job \in Known'
      BY <1>7 DEF QueueInv, NoCall
    <3>2. OfKey(call.conversion, store[call.job].key)
      BY DEF ConversionInv
    <3> QED
      BY <1>1, <1>2, <2>1, <3>1, <3>2
  <2>3. \A j \in Known' : store'[j].status = "dispatched" =>
           OfKey(store[j].conversion, store[j].key)'
    BY <1>2, <2>1 DEF ConversionInv
  <2>4. ASSUME NEW c \in DOMAIN pollers
        PROVE  \/ Gone(CorrelationOf(c))'
               \/ \E j \in JobsOf(CorrelationOf(c))' :
                     store'[j].status = "dispatched" /\ store'[j].conversion = c
    <3>1. c \in Authority!Created /\ CorrelationOf(c) \in Keys
      BY JobFiles DEF ConversionInv
    <3>2. CASE CorrelationOf(c) = k
      BY <1>4, <1>5, <1>10, <3>2 DEF Gone
    <3>3. CASE CorrelationOf(c) # k
      <4>1. ledger'[CorrelationOf(c)] = ledger[CorrelationOf(c)]
        BY <1>4, <3>1, <3>3
      <4>2. \A j \in JobsOf(CorrelationOf(c)) :
               j \in JobsOf(CorrelationOf(c))' /\ store'[j] = store[j]
        BY <1>2, <1>5, <3>3 DEF JobsOf
      <4>3. Gone(CorrelationOf(c)) => Gone(CorrelationOf(c))'
        BY <1>5, <1>10, <3>3, <4>1 DEF Gone
      <4> QED
        BY <1>5, <4>2, <4>3 DEF ConversionInv
    <3> QED
      BY <3>2, <3>3
  <2>5. DOMAIN pollers' \cup manual' \subseteq Authority!Created'
    BY <1>1, <1>5 DEF ConversionInv
  <2> QED
    BY <1>1, <2>2, <2>3, <2>4, <2>5 DEF ConversionInv
<1>13. CallbackInv'
  <2>1. faults' \in Nat /\ faults' >= faults
    BY <1>1 DEF PipelineTypeOK
  <2>2. \A j \in Known' : Awaited(j)' => Awaited(j)
    BY <1>1, <1>2 DEF Awaited
  <2>3. /\ CallbackBound' \in Nat /\ CallbackBound' >= CallbackBound
        /\ requests' \in Nat /\ requests' >= requests
    BY <1>1, <1>c, CallbackBounds DEF PipelineTypeOK
  <2>4. IsFiniteSet(manual') /\ Cardinality(manual') <= Cardinality(manual)
    BY <1>1, FS_CardinalityType DEF CallbackInv
  <2> QED
    BY <1>1, <1>2, <1>c, <2>1, <2>2, <2>3, <2>4, CallbackInvKept
<1>14. RequestInv'
  BY <1>1, <1>5, RequestInvKept
<1>15. DispatchedIsWatched'
  BY <1>1, <1>2, WatchedKept
<1>16. PlainRetryIsNotRefused'
  BY <1>1, <1>2, PlainKept
<1> QED
  BY <1>6, <1>8, <1>9, <1>11, <1>12, <1>13, <1>14, <1>15, <1>16

LEMMA PrioritizeStep ==
    ASSUME PipelineInv, AP!AuthorityInv, NEW n \in DOMAIN queue, Prioritize(n)
    PROVE  PipelineInv'
<1> USE DEF PipelineInv
<1>1. UNCHANGED <<store, issued, ledger, callbacks, intake, pending, call,
                  pollers, manual, requests, crashes, faults, authorityVars>>
  BY DEF Prioritize
<1>2. QueueInv' /\ \A m \in DOMAIN queue' : \E i \in DOMAIN queue :
                      queue'[m] = queue[i]
  BY PrioritizedQueue
<1>3. AuthoritySame /\ Authority!Created' = Authority!Created
      /\ \A c : CorrelationOf(c)' = CorrelationOf(c)
  BY <1>1, AuthorityIsStill
<1>4. PipelineTypeOK' /\ IntakeInv'
  BY <1>1 DEF PipelineTypeOK, IntakeInv, Known
<1>5. KeyInv'
  BY <1>1, KeyInvKept DEF Known, GivenUp
<1>6. ConversionInv'
  <2>1. manual' \subseteq Authority!Created
    BY <1>1 DEF ConversionInv
  <2> QED
    BY <1>1, <1>3, <2>1, ConversionInvKept, JobFiles DEF Known
<1>7. CallbackInv'
  <2>1. faults' \in Nat /\ faults' >= faults
    BY <1>1 DEF PipelineTypeOK
  <2> QED
    BY <1>1, <2>1, CallbacksUntouched DEF Known, Awaited
<1>8. RequestInv'
  <2>1. conversions' = conversions /\ outages' = outages /\ lost' = lost
    BY <1>1 DEF authorityVars
  <2> QED
    BY <1>1, <1>2, <1>3, <2>1 DEF RequestInv
<1>9. DispatchedIsWatched' /\ PlainRetryIsNotRefused'
  BY <1>1 DEF DispatchedIsWatched, PlainRetryIsNotRefused, RetryIsNotRefused,
     Known
<1> QED
  BY <1>2, <1>4, <1>5, <1>6, <1>7, <1>8, <1>9

-----------------------------------------------------------------------------
(***************************************************************************)
(* A request reaches the authority.                                        *)
(***************************************************************************)
LEMMA Asked ==
    ASSUME PipelineInv, call.state = "sent"
    PROVE  /\ call.job \in Known /\ store[call.job].key \in Keys
           /\ RequestKey(call.job) \in Keys \X {"event", "correlation"}
           /\ RequestKey(call.job)[1] = store[call.job].key
           /\ store[call.job].key \notin WithEventId =>
                 RequestKey(call.job)[2] = "correlation"
           /\ Fingerprint(call.job) \in {"original", "rebuilt"}
           /\ store[call.job].key \in Plain =>
                 Fingerprint(call.job) = "original"
<1>1. call # NoCall
  BY DEF NoCall
<1>2. call.job \in Known /\ call.job \in DOMAIN pending
  BY <1>1 DEF PipelineInv, QueueInv, RequestInv
<1>3. store[call.job].key \in Keys
  BY <1>2, JobTypes DEF PipelineInv, JobRecords
<1>4. pending[call.job] \in {"original", "rebuilt"}
  BY <1>2 DEF PipelineInv, RequestInv
<1> QED
  BY <1>2, <1>3, <1>4 DEF RequestKey, Fingerprint

LEMMA ArriveStep ==
    ASSUME PipelineInv, AP!AuthorityInv, Arrive
    PROVE  PipelineInv'
<1> USE DEF PipelineInv
<1> DEFINE k == RequestKey(call.job)
           p == Fingerprint(call.job)
           q == store[call.job].key
<1>1. /\ call.job \in Known /\ q \in Keys
      /\ k \in Keys \X {"event", "correlation"} /\ k[1] = q
      /\ q \notin WithEventId => k[2] = "correlation"
      /\ p \in {"original", "rebuilt"} /\ (q \in Plain => p = "original")
  BY Asked DEF Arrive
<1>2. UNCHANGED <<store, issued, ledger, callbacks, intake, pending, queue,
                  pollers, manual, requests, crashes, faults>>
  BY DEF Arrive
<1>3. call # NoCall /\ NoCall.state = "idle"
  BY DEF Arrive, NoCall
<1>4. Authority!Created \subseteq 1 .. MaxConversions
  BY JobFiles
<1> HIDE DEF k, p
<1>5. \/ /\ Authority!CreateAttempt(k, p)
         /\ call' = [call EXCEPT !.state = "answered",
                                 !.conversion = Authority!NewId]
      \/ /\ Authority!ReplayAttempt(k, p)
         /\ call' = [call EXCEPT !.state = "answered",
                                 !.conversion = Authority!Found(k)]
      \/ /\ Authority!Refuse(k, p)
         /\ call' = [call EXCEPT !.state = "refused"]
  BY DEF Arrive, k, p
(* What the authority did, and what it answered.                           *)
<1>6. /\ AuthoritySame
      /\ \A c \in Authority!Created' :
            \/ c \in Authority!Created
            \/ conversions'[c].key = k /\ conversions'[c].print = p
      /\ \/ /\ call'.state = "answered"
            /\ call'.conversion \in Authority!Created'
            /\ call'.conversion \in 1 .. MaxConversions
            /\ conversions'[call'.conversion].key = k
         \/ /\ call'.state = "refused" /\ call'.conversion = call.conversion
            /\ q \notin Plain
      /\ call'.job = call.job
      /\ call' = [job |-> call'.job, state |-> call'.state,
                  conversion |-> call'.conversion]
  <2>1. call \in [job : 0 .. MaxJobs, conversion : 0 .. MaxConversions,
                  state : {"idle", "sent", "answered", "refused"}]
    BY DEF PipelineTypeOK
  <2>2. CASE /\ Authority!CreateAttempt(k, p)
             /\ call' = [call EXCEPT !.state = "answered",
                                     !.conversion = Authority!NewId]
    <3>1. /\ Authority!NewId \in 1 .. MaxConversions
          /\ Authority!Created' = Authority!Created \cup {Authority!NewId}
          /\ conversions'[Authority!NewId].key = k
          /\ conversions'[Authority!NewId].print = p
          /\ AuthoritySame
      BY <1>1, <2>2, CreatedAttempt
    <3>2. /\ call'.state = "answered" /\ call'.conversion = Authority!NewId
          /\ call'.job = call.job
          /\ call' = [job |-> call'.job, state |-> call'.state,
                      conversion |-> call'.conversion]
      BY <2>1, <2>2
    <3> QED
      BY <3>1, <3>2
  <2>3. CASE /\ Authority!ReplayAttempt(k, p)
             /\ call' = [call EXCEPT !.state = "answered",
                                     !.conversion = Authority!Found(k)]
    <3>1. /\ Authority!Found(k) \in Authority!Created
          /\ conversions[Authority!Found(k)].key = k
      BY <1>1, <2>3, FoundIsAttempt DEF Authority!ReplayAttempt
    <3>2. /\ AuthoritySame /\ conversions' = conversions
          /\ Authority!Created' = Authority!Created
      BY <2>3 DEF Authority!ReplayAttempt, AuthoritySame, Authority!Created
    <3>3. /\ call'.state = "answered" /\ call'.conversion = Authority!Found(k)
          /\ call'.job = call.job
          /\ call' = [job |-> call'.job, state |-> call'.state,
                      conversion |-> call'.conversion]
      BY <2>1, <2>3
    <3> QED
      BY <1>4, <3>1, <3>2, <3>3
  <2>4. CASE /\ Authority!Refuse(k, p)
             /\ call' = [call EXCEPT !.state = "refused"]
    <3>1. /\ Authority!Found(k) \in Authority!Created
          /\ conversions[Authority!Found(k)].key = k
          /\ conversions[Authority!Found(k)].print # p
      BY <1>1, <2>4, FoundIsAttempt DEF Authority!Refuse, Authority!Refuses
    <3>2. q \notin Plain
      BY <1>1, <3>1 DEF RequestInv, CorrelationOf
    <3>3. /\ AuthoritySame /\ Authority!Created' = Authority!Created
      BY <2>4
         DEF Authority!Refuse, Authority!authorityVars, AuthoritySame,
             Authority!Created
    <3>4. /\ call'.state = "refused" /\ call'.conversion = call.conversion
          /\ call'.job = call.job
          /\ call' = [job |-> call'.job, state |-> call'.state,
                      conversion |-> call'.conversion]
      BY <2>1, <2>4
    <3> QED
      BY <3>2, <3>3, <3>4
  <2> QED
    BY <1>5, <2>2, <2>3, <2>4
<1>7. /\ \A c \in Authority!Created :
            c \in Authority!Created' /\ CorrelationOf(c)' = CorrelationOf(c)
      /\ \A c, i : OfKey(c, i) => OfKey(c, i)'
  BY <1>6 DEF AuthoritySame, CorrelationOf, OfKey
<1>8. PipelineTypeOK'
  <2>1. call' \in [job : 0 .. MaxJobs, conversion : 0 .. MaxConversions,
                   state : {"idle", "sent", "answered", "refused"}]
    <3>1. /\ call'.job \in 0 .. MaxJobs
          /\ call'.conversion \in 0 .. MaxConversions
          /\ call'.state \in {"idle", "sent", "answered", "refused"}
      BY <1>6, PipelineAssumption DEF PipelineTypeOK
    <3> QED
      BY <1>6, <3>1
  <2> QED
    BY <1>2, <2>1 DEF PipelineTypeOK, Known
<1>9. IntakeInv'
  BY <1>2 DEF IntakeInv, Known
<1>10. call' # NoCall
  BY <1>3, <1>6
<1>11. QueueInv'
  BY <1>2, <1>3, <1>6, <1>10, QueueInvKept DEF Known
<1>12. KeyInv'
  BY <1>2, KeyInvKept DEF Known, GivenUp
<1>13. ConversionInv'
  <2>1. call'.state = "answered" => OfKey(call.conversion, store[call.job].key)'
    BY <1>1, <1>2, <1>6 DEF OfKey, CorrelationOf
  <2>2. \A j \in Known' : store'[j].status = "dispatched" =>
           OfKey(store[j].conversion, store[j].key)'
    BY <1>2, <1>7 DEF ConversionInv, Known
  <2>3. \A c \in DOMAIN pollers :
           \/ Gone(CorrelationOf(c))'
           \/ \E j \in JobsOf(CorrelationOf(c))' :
                 store'[j].status = "dispatched" /\ store'[j].conversion = c
    <3> SUFFICES ASSUME NEW c \in DOMAIN pollers
                 PROVE  \/ Gone(CorrelationOf(c))'
                        \/ \E j \in JobsOf(CorrelationOf(c))' :
                              /\ store'[j].status = "dispatched"
                              /\ store'[j].conversion = c
      OBVIOUS
    <3>1. CorrelationOf(c)' = CorrelationOf(c)
      BY <1>7 DEF ConversionInv
    <3>2. \A j \in JobsOf(CorrelationOf(c)) : j \in JobsOf(CorrelationOf(c))'
      BY <1>2, <3>1 DEF JobsOf, Known
    <3>3. Gone(CorrelationOf(c)) => Gone(CorrelationOf(c))'
      BY <1>2, <3>1 DEF Gone, JobsOf, Known
    <3> QED
      BY <1>2, <3>1, <3>2, <3>3 DEF ConversionInv
  <2>4. DOMAIN pollers' \cup manual' \subseteq Authority!Created'
    BY <1>2, <1>7 DEF ConversionInv
  <2> QED
    BY <1>2, <2>1, <2>2, <2>3, <2>4 DEF ConversionInv
<1>14. CallbackInv'
  <2>1. faults' \in Nat /\ faults' >= faults
    BY <1>2 DEF PipelineTypeOK
  <2> QED
    BY <1>2, <2>1, CallbacksUntouched DEF Known, Awaited
<1>15. RequestInv'
  <2>1. ASSUME NEW c \in Authority!Created'
        PROVE  /\ CorrelationOf(c)' \notin WithEventId =>
                     conversions'[c].key[2] = "correlation"
               /\ CorrelationOf(c)' \in Plain =>
                     conversions'[c].print = "original"
    <3>1. CASE c \in Authority!Created
      BY <1>6, <1>7, <3>1 DEF RequestInv, AuthoritySame
    <3>2. CASE conversions'[c].key = k /\ conversions'[c].print = p
      BY <1>1, <3>2 DEF CorrelationOf
    <3> QED
      BY <1>6, <3>1, <3>2
  <2>2. call'.job \in DOMAIN pending'
    BY <1>2, <1>3, <1>6 DEF RequestInv
  <2> QED
    BY <1>2, <1>6, <2>1, <2>2 DEF RequestInv, AuthoritySame
<1>16. DispatchedIsWatched'
  BY <1>2 DEF DispatchedIsWatched, Known
<1>17. PlainRetryIsNotRefused'
  BY <1>2, <1>6 DEF PlainRetryIsNotRefused, RetryIsNotRefused, Known
<1> QED
  BY <1>8, <1>9, <1>11, <1>12, <1>13, <1>14, <1>15, <1>16, <1>17

-----------------------------------------------------------------------------
(***************************************************************************)
(* A new process starts.                                                   *)
(***************************************************************************)
SameButOutcome(jobs) ==
    /\ DOMAIN jobs = Known
    /\ \A j \in Known :
          /\ jobs[j] \in JobRecords
          /\ jobs[j].key = store[j].key
          /\ jobs[j].status = store[j].status
          /\ jobs[j].download = store[j].download
          /\ jobs[j].conversion = store[j].conversion
          /\ \/ jobs[j].outcome = store[j].outcome
             \/ jobs[j].outcome # "open"

LEMMA ReloadedShape ==
    ASSUME PipelineTypeOK, NEW jobs, SameButOutcome(jobs),
           store' = Reloaded(jobs)
    PROVE  /\ Known' = Known /\ store' \in [Known -> JobRecords]
           /\ \A j \in Known :
                 /\ store'[j].key = store[j].key
                 /\ store'[j].status # "queued_for_conversion"
                 /\ store'[j].status = "dispatched" <=>
                       store[j].status = "dispatched"
                 /\ store'[j].conversion = store[j].conversion
                 /\ store'[j].outcome = jobs[j].outcome
                 /\ GivenUp(j) => GivenUp(j)'
<1>1. /\ Known' = Known /\ store' = [j \in Known |-> store'[j]]
      /\ \A j \in Known : store'[j] =
            [jobs[j] EXCEPT
               !.status = IF @ = "queued_for_conversion"
                          THEN "dropped_on_restart" ELSE @,
               !.download = IF @ = "downloading" THEN "failed" ELSE @]
  BY DEF Reloaded, SameButOutcome, Known
<1>2. ASSUME NEW j \in Known
      PROVE  /\ store'[j] \in JobRecords
             /\ store'[j].key = jobs[j].key
             /\ store'[j].status = IF jobs[j].status = "queued_for_conversion"
                                   THEN "dropped_on_restart"
                                   ELSE jobs[j].status
             /\ store'[j].download = IF jobs[j].download = "downloading"
                                     THEN "failed" ELSE jobs[j].download
             /\ store'[j].outcome = jobs[j].outcome
             /\ store'[j].conversion = jobs[j].conversion
  <2>1. jobs[j] \in JobRecords
    BY DEF SameButOutcome
  <2> QED
    BY <1>1, <2>1 DEF JobRecords, JobStates
<1>3. store' \in [Known -> JobRecords]
  BY <1>1, <1>2
<1>4. ASSUME NEW j \in Known
      PROVE  /\ store'[j].key = store[j].key
             /\ store'[j].status # "queued_for_conversion"
             /\ store'[j].status = "dispatched" <=>
                   store[j].status = "dispatched"
             /\ store'[j].conversion = store[j].conversion
             /\ store'[j].outcome = jobs[j].outcome
             /\ GivenUp(j) => GivenUp(j)'
  <2>1. /\ jobs[j].key = store[j].key /\ jobs[j].status = store[j].status
        /\ jobs[j].download = store[j].download
        /\ jobs[j].conversion = store[j].conversion
    BY DEF SameButOutcome
  <2> QED
    BY <1>2, <2>1 DEF GivenUp
<1> QED
  BY <1>1, <1>3, <1>4

LEMMA BoundGrows ==
    ASSUME NEW n \in Nat, NEW f \in Nat, NEW r \in Nat, NEW q \in Nat,
           NEW u \in {0, 1}, q >= r
    PROVE  /\ 1 + n + f + r \in Nat /\ 1 + (n + u) + f + q \in Nat
           /\ 1 + (n + u) + f + q >= 1 + n + f + r
           /\ u = 1 \/ q = r + 1 =>
                 1 + (n + u) + f + q >= 1 + n + f + r + 1
OBVIOUS

LEMMA StartStep ==
    ASSUME PipelineInv, AP!AuthorityInv, NEW jobs, NEW u \in {0, 1},
           NEW w \in SUBSET Keys, SameButOutcome(jobs), Starts(jobs, u, w),
           ledger' \in Ledgers,
           \A k \in Keys : ledger[k] = "removed" => ledger'[k] = "removed",
           \A k \in Keys :
               ledger'[k] = "removed" => ledger[k] = "removed" \/ k \in w,
           requests' \in {requests, requests + 1},
           \/ callbacks' = callbacks
           \/ \E l \in Known :
                 /\ callbacks' = [callbacks EXCEPT ![l] = @ + 1]
                 /\ \/ u = 1 \/ requests' = requests + 1
                    \/ manual # {}
                    \/ Awaited(l) /\ store[l].status = "dispatched"
                          /\ jobs[l].outcome # "open"
    PROVE  PipelineInv'
<1> USE DEF PipelineInv
<1>1. /\ store' = Reloaded(jobs) /\ pollers' = [c \in Unwatched(store') |-> 0]
      /\ intake' = Empty /\ pending' = Empty /\ queue' = <<>>
      /\ call' = NoCall /\ manual' = {}
      /\ crashes' = [crashes EXCEPT !.all = @ + 1, !.unrecorded = @ + u,
                                    !.unswept = @ \cup w]
      /\ UNCHANGED <<issued, faults, authorityVars>>
  BY DEF Starts
<1>2. /\ Known' = Known /\ store' \in [Known -> JobRecords]
      /\ \A j \in Known :
            /\ store'[j].key = store[j].key
            /\ store'[j].status # "queued_for_conversion"
            /\ store'[j].status = "dispatched" <=>
                  store[j].status = "dispatched"
            /\ store'[j].conversion = store[j].conversion
            /\ store'[j].outcome = jobs[j].outcome
            /\ GivenUp(j) => GivenUp(j)'
  BY <1>1, ReloadedShape
<1>3. /\ AuthoritySame /\ Authority!Created' = Authority!Created
      /\ \A c : CorrelationOf(c)' = CorrelationOf(c)
  BY <1>1, AuthorityIsStill
<1>4. /\ crashes' \in [all : Nat, unrecorded : Nat, unswept : SUBSET Keys]
      /\ crashes.unrecorded \in Nat
      /\ crashes'.unrecorded = crashes.unrecorded + u
      /\ crashes'.unswept = crashes.unswept \cup w
      /\ requests \in Nat /\ faults \in Nat
      /\ requests' \in Nat /\ requests' >= requests
  <2>1. /\ crashes \in [all : Nat, unrecorded : Nat, unswept : SUBSET Keys]
        /\ requests \in Nat /\ faults \in Nat
    BY DEF PipelineTypeOK
  <2>2. crashes' = [all |-> crashes.all + 1,
                    unrecorded |-> crashes.unrecorded + u,
                    unswept |-> crashes.unswept \cup w]
    BY <1>1, <2>1
  <2>3. u \in Nat
    OBVIOUS
  <2> QED
    BY <2>1, <2>2, <2>3
<1>5. \A c : c \in DOMAIN pollers' <=>
         \E j \in Known : /\ store[j].status = "dispatched"
                          /\ store'[j].outcome = "open"
                          /\ store[j].conversion = c
  BY <1>1, <1>2 DEF Unwatched, Known
<1>6. DOMAIN intake' = {} /\ DOMAIN pending' = {} /\ DOMAIN queue' = {}
      /\ queue' \in Seq(Nat) /\ NoCall.job = 0 /\ NoCall.state = "idle"
  BY <1>1 DEF Empty, NoCall
<1>7. PipelineTypeOK'
  <2>1. /\ pollers' \in [DOMAIN pollers' -> Nat]
        /\ callbacks' \in [Jobs -> Nat]
    <3>1. callbacks \in [Jobs -> Nat]
      BY DEF PipelineTypeOK
    <3> QED
      BY <1>1, <3>1
  <2>2. call' \in [job : 0 .. MaxJobs, conversion : 0 .. MaxConversions,
                   state : {"idle", "sent", "answered", "refused"}]
    BY <1>1, PipelineAssumption DEF NoCall
  <2> QED
    BY <1>1, <1>2, <1>4, <2>1, <2>2 DEF PipelineTypeOK, Ledgers
<1>8. IntakeInv'
  BY <1>6 DEF IntakeInv
<1>9. QueueInv'
  BY <1>1, <1>2, <1>6 DEF QueueInv
<1>10. KeyInv'
  BY <1>2, <1>4, KeyInvKept
<1>11. ConversionInv'
  <2>1. call'.state # "answered"
    BY <1>1, <1>6
  <2>2. manual' \subseteq Authority!Created
    BY <1>1
  <2> QED
    BY <1>2, <1>3, <1>5, <2>1, <2>2, ConversionInvKept, JobFiles
<1>12. ASSUME NEW i \in Known, NEW j \in Known,
              store[i].status = "dispatched", store[j].status = "dispatched",
              store[i].conversion = store[j].conversion
       PROVE  i = j
  <2>1. store[i].key = store[j].key
    BY <1>12 DEF ConversionInv, OfKey
  <2>2. store[i].key \in Keys /\ ~ GivenUp(i) /\ ~ GivenUp(j)
    BY <1>12, JobTypes DEF GivenUp, JobRecords
  <2> QED
    BY <2>1, <2>2, OneBeyond
<1>13. \A j \in Known : Awaited(j)' <=>
          store[j].status # "dispatched" \/ jobs[j].outcome = "open"
  BY <1>2, <1>5, <1>12 DEF Awaited
<1>14. CallbackInv'
  <2>1. /\ CallbackBound \in Nat /\ CallbackBound' \in Nat
        /\ CallbackBound' >= CallbackBound
        /\ u = 1 \/ requests' = requests + 1 =>
              CallbackBound' >= CallbackBound + 1
    <3>1. /\ crashes.unrecorded \in Nat /\ faults \in Nat
          /\ requests \in Nat /\ requests' \in Nat /\ requests' >= requests
      BY <1>4
    <3>2. /\ CallbackBound = 1 + crashes.unrecorded + faults + requests
          /\ CallbackBound' = 1 + (crashes.unrecorded + u) + faults + requests'
      BY <1>1, <1>4 DEF CallbackBound
    <3> QED
      BY <3>1, <3>2, BoundGrows
  <2>2. \A j \in Known : Awaited(j)' => Awaited(j)
    BY <1>13 DEF Awaited, SameButOutcome
  <2>3. IsFiniteSet(manual') /\ Cardinality(manual') = 0
    BY <1>1, FS_EmptySet
  <2>4. /\ Cardinality(manual) \in Nat
        /\ manual # {} => Cardinality(manual) # 0
    BY FS_CardinalityType, FS_EmptySet DEF CallbackInv
  <2>5. Cardinality(manual') <= Cardinality(manual)
    BY <2>3, <2>4
  <2>6. CASE callbacks' = callbacks
    BY <1>1, <1>2, <1>4, <2>1, <2>2, <2>3, <2>5, <2>6, CallbackInvKept
  <2>7. ASSUME NEW l \in Known,
               callbacks' = [callbacks EXCEPT ![l] = @ + 1],
               \/ u = 1 \/ requests' = requests + 1
               \/ manual # {}
               \/ Awaited(l) /\ store[l].status = "dispatched"
                     /\ jobs[l].outcome # "open"
        PROVE  CallbackInv'
    <3>1. \/ CallbackBound' >= CallbackBound + 1
          \/ Cardinality(manual') < Cardinality(manual)
          \/ Awaited(l) /\ ~ Awaited(l)'
      BY <1>13, <2>1, <2>3, <2>4, <2>7
    <3>2. /\ issued' = issued /\ requests' \in Nat /\ requests' >= requests
      BY <1>1, <1>4
    <3> QED
      BY <1>2, <2>1, <2>2, <2>3, <2>5, <2>7, <3>1, <3>2, CalledBack
  <2> QED
    BY <2>6, <2>7
<1>15. RequestInv'
  <2>1. conversions' = conversions /\ outages' = outages /\ lost' = lost
    BY <1>1 DEF authorityVars
  <2>2. call' = NoCall'
    BY <1>1 DEF NoCall
  <2> QED
    BY <1>3, <1>6, <2>1, <2>2 DEF RequestInv
<1>16. DispatchedIsWatched'
  BY <1>2, <1>5 DEF DispatchedIsWatched
<1>17. PlainRetryIsNotRefused'
  BY <1>1, <1>6 DEF PlainRetryIsNotRefused, RetryIsNotRefused
<1> QED
  BY <1>7, <1>8, <1>9, <1>10, <1>11, <1>14, <1>15, <1>16, <1>17

LEMMA StartActions ==
    ASSUME PipelineInv, AP!AuthorityInv,
           \/ Restart
           \/ \E c \in Authority!Created, v \in {"ready", "failed"} :
                 CrashInIngest(c, v)
           \/ \E k \in Keys : CrashInRemoval(k)
    PROVE  PipelineInv'
<1> USE DEF PipelineInv
<1>1. SameButOutcome(store)
  BY DEF SameButOutcome, Known, PipelineTypeOK
<1>l. ledger \in Ledgers
  BY DEF PipelineTypeOK, Ledgers
<1>2. CASE Restart
  BY <1>1, <1>2, <1>l, StartStep DEF Restart
<1>3. ASSUME NEW c \in Authority!Created, NEW v \in {"ready", "failed"},
             CrashInIngest(c, v)
      PROVE  PipelineInv'
  <2> DEFINE k == CorrelationOf(c)
  <2>1. /\ \/ c \in DOMAIN pollers \cup manual /\ requests' = requests
           \/ requests' = requests + 1
        /\ JobsOf(k) # {} /\ ledger' = ledger
        /\ callbacks' = [callbacks EXCEPT ![Latest(k)] = @ + 1]
        /\ \/ Starts(store, 1, {})
           \/ Starts(WithOutcome(Latest(k), v), 0, {})
    BY <1>3 DEF CrashInIngest, Callback
  <2>2. k \in Keys
    BY JobFiles
  <2>3. PICK l \in Known : l = Latest(k)
    BY <2>1, <2>2, LastOfKey
  <2>4. CASE Starts(store, 1, {})
    <3>1. /\ callbacks' = [callbacks EXCEPT ![l] = @ + 1]
          /\ ledger' = ledger /\ requests' \in {requests, requests + 1}
      BY <2>1, <2>3
    <3>2. 1 \in {0, 1} /\ {} \in SUBSET Keys
      OBVIOUS
    <3> QED
      BY <1>1, <1>l, <2>4, <3>1, <3>2, StartStep
  <2>5. CASE Starts(WithOutcome(l, v), 0, {})
    <3> DEFINE jobs == WithOutcome(l, v)
    <3>1. SameButOutcome(jobs) /\ jobs[l].outcome # "open"
      <4>1. /\ DOMAIN jobs = Known
            /\ \A j \in Known :
                  /\ jobs[j] \in JobRecords
                  /\ jobs[j].key = store[j].key
                  /\ jobs[j].status = store[j].status
                  /\ jobs[j].download = store[j].download
                  /\ jobs[j].conversion = store[j].conversion
                  /\ j # l => jobs[j] = store[j]
            /\ jobs[l].outcome = v
        BY <2>1, OutcomeShape
      <4> HIDE DEF jobs
      <4> QED
        BY <2>1, <4>1 DEF SameButOutcome
    <3>2. \/ manual # {} \/ requests' = requests + 1
          \/ Awaited(l) /\ store[l].status = "dispatched"
      <4>1. CASE c \in DOMAIN pollers
        BY <2>1, <2>2, <2>3, <4>1, PolledJob DEF Awaited
      <4> QED
        BY <2>1, <4>1
    <3> HIDE DEF jobs
    <3>3. Starts(jobs, 0, {})
      BY <2>5 DEF jobs
    <3> QED
      BY <1>l, <2>1, <2>3, <3>1, <3>2, <3>3, StartStep
  <2> QED
    BY <2>1, <2>3, <2>4, <2>5
<1>4. ASSUME NEW k \in Keys, CrashInRemoval(k)
      PROVE  PipelineInv'
  <2>1. /\ ledger' = [ledger EXCEPT ![k] = "removed"]
        /\ Starts(store, 0, {k})
        /\ UNCHANGED <<callbacks, requests>>
    BY <1>4 DEF CrashInRemoval, Tombstone
  <2>2. /\ ledger' \in Ledgers
        /\ \A i \in Keys : i # k => ledger'[i] = ledger[i]
        /\ ledger'[k] = "removed"
    BY <1>l, <2>1 DEF Ledgers
  <2> QED
    BY <1>1, <2>1, <2>2, StartStep
<1> QED
  BY <1>2, <1>3, <1>4

-----------------------------------------------------------------------------
(***************************************************************************)
(* Every step.                                                             *)
(***************************************************************************)
LEMMA PipelineInitially == Init => PipelineInv /\ AP!AuthorityInv
<1> SUFFICES ASSUME Init PROVE PipelineInv /\ AP!AuthorityInv
  OBVIOUS
<1>1. AP!AuthorityInv
  <2>1. AP!AuthorityInit
    BY DEF Init, Authority!AuthorityInit, AP!AuthorityInit,
       Authority!ConversionIds, AP!ConversionIds
  <2> QED
    BY <2>1, AP!AuthorityInitially, AuthorityConstants
<1>2. /\ Known = {} /\ issued = 0 /\ DOMAIN intake = {} /\ DOMAIN pending = {}
      /\ DOMAIN queue = {} /\ queue \in Seq(Nat) /\ DOMAIN pollers = {}
      /\ call = NoCall /\ manual = {} /\ requests = 0 /\ faults = 0
      /\ crashes = [all |-> 0, unrecorded |-> 0, unswept |-> {}]
      /\ ledger = [k \in Keys |-> "none"] /\ callbacks = [j \in Jobs |-> 0]
      /\ Authority!Created = {} /\ outages.unlinked = 0 /\ lost = {}
  BY DEF Init, Known, Empty, Authority!AuthorityInit, Authority!Created
<1>3. NoCall = [job |-> 0, state |-> "idle", conversion |-> 0]
  BY DEF NoCall
<1>4. PipelineTypeOK
  <2>1. store \in [Known -> JobRecords] /\ pollers \in [DOMAIN pollers -> Nat]
    BY DEF Init, Known, Empty
  <2> QED
    BY <1>2, <1>3, <2>1, PipelineAssumption DEF PipelineTypeOK
<1>5. IntakeInv /\ QueueInv /\ KeyInv
  BY <1>2, <1>3 DEF IntakeInv, QueueInv, KeyInv, JobsOf
<1>6. ConversionInv /\ RequestInv
  BY <1>2, <1>3 DEF ConversionInv, RequestInv
<1>7. CallbackInv
  BY <1>2, FS_EmptySet DEF CallbackInv, CallbackBound
<1>8. DispatchedIsWatched /\ PlainRetryIsNotRefused
  BY <1>2 DEF DispatchedIsWatched, PlainRetryIsNotRefused
<1> QED
  BY <1>1, <1>4, <1>5, <1>6, <1>7, <1>8 DEF PipelineInv

LEMMA PipelineKept ==
    ASSUME PipelineInv, AP!AuthorityInv, [Next]_vars
    PROVE  PipelineInv'
<1>1. ASSUME NEW k \in Keys,
             \/ Accept(k) \/ Answered(k)
             \/ Detect(k) \/ ReconversionFails(k) \/ RemoveRecord(k)
      PROVE  PipelineInv'
  BY <1>1, AcceptStep, RemoveStep, QuietActions
<1>2. ASSUME NEW j \in DOMAIN intake,
             DownloadFails(j) \/ Downloaded(j) \/ Queue(j)
      PROVE  PipelineInv'
  BY <1>2, DownloadActions, EnqueueActions
<1>3. CASE Arrive \/ Dispatched \/ DispatchFails
  BY <1>3, ArriveStep, CallActions
<1>4. ASSUME NEW c \in DOMAIN pollers,
             PollInVain(c) \/ Poll(c) \/ PollTimeout(c)
      PROVE  PipelineInv'
  BY <1>4, QuietActions, IngestActions
<1>5. ASSUME NEW c \in Authority!Created, ManualIngest(c) \/ Report(c)
      PROVE  PipelineInv'
  BY <1>5, QuietActions, IngestActions
<1>6. ASSUME NEW c \in manual, ManualResult(c) \/ ManualInVain(c)
      PROVE  PipelineInv'
  BY <1>6, QuietActions, IngestActions
<1>7. CASE \E j \in Known : RetryDispatch(j)
  BY <1>7, EnqueueActions
<1>8. CASE \E n \in DOMAIN queue : Prioritize(n)
  BY <1>8, PrioritizeStep
<1>9. CASE \/ Restart
           \/ \E c \in Authority!Created, v \in {"ready", "failed"} :
                 CrashInIngest(c, v)
           \/ \E k \in Keys : CrashInRemoval(k)
  BY <1>9, StartActions
<1>10. CASE AuthorityStep \/ UNCHANGED vars
  BY <1>10, QuietActions
<1> QED
  BY <1>1, <1>2, <1>3, <1>4, <1>5, <1>6, <1>7, <1>8, <1>9, <1>10 DEF Next

LEMMA AuthorityKept ==
    ASSUME PipelineInv, AP!AuthorityInv, [Next]_vars
    PROVE  AP!AuthorityInv'
<1>1. SUFFICES [AP!AuthorityNext]_(AP!authorityVars)
  BY AP!AuthorityStep, AuthorityConstants
<1>2. CASE Arrive
  <2>1. /\ RequestKey(call.job) \in Keys \X {"event", "correlation"}
        /\ Fingerprint(call.job) \in {"original", "rebuilt"}
    BY <1>2, Asked DEF Arrive
  <2>2. \/ AP!CreateAttempt(RequestKey(call.job), Fingerprint(call.job))
        \/ AP!ReplayAttempt(RequestKey(call.job), Fingerprint(call.job))
        \/ AP!Refuse(RequestKey(call.job), Fingerprint(call.job))
    BY <1>2, SameCreate, SameReplay DEF Arrive
  <2> QED
    BY <2>1, <2>2 DEF AP!AuthorityNext
<1>3. CASE AuthorityStep
  BY <1>3, SameWork, SameOutage DEF AuthorityStep, AP!AuthorityNext
<1>4. CASE UNCHANGED authorityVars
  BY <1>4 DEF authorityVars, AP!authorityVars
<1>5. ASSUME NEW k \in Keys,
             \/ Accept(k) \/ Answered(k)
             \/ Detect(k) \/ ReconversionFails(k) \/ RemoveRecord(k)
      PROVE  UNCHANGED authorityVars
  BY <1>5 DEF Accept, Answered, Detect, ReconversionFails, RemoveRecord, vars
<1>6. ASSUME NEW j \in DOMAIN intake,
             DownloadFails(j) \/ Downloaded(j) \/ Queue(j)
      PROVE  UNCHANGED authorityVars
  BY <1>6 DEF DownloadFails, Downloaded, Queue
<1>7. CASE Dispatched \/ DispatchFails
  BY <1>4, <1>7 DEF Dispatched, DispatchFails
<1>8. ASSUME NEW c,
             \/ PollInVain(c) \/ Poll(c) \/ PollTimeout(c)
             \/ ManualIngest(c) \/ Report(c)
             \/ ManualResult(c) \/ ManualInVain(c)
      PROVE  UNCHANGED authorityVars
  BY <1>8 DEF PollInVain, Poll, PollTimeout, ManualIngest, Report,
     ManualResult, ManualInVain
<1>9. ASSUME NEW j, RetryDispatch(j) \/ Prioritize(j)
      PROVE  UNCHANGED authorityVars
  BY <1>9 DEF RetryDispatch, Prioritize
<1>10. ASSUME NEW jobs, NEW u, NEW w, Starts(jobs, u, w)
       PROVE  UNCHANGED authorityVars
  BY <1>10 DEF Starts
<1>11. CASE \/ Restart
            \/ \E c \in Authority!Created, v \in {"ready", "failed"} :
                  CrashInIngest(c, v)
            \/ \E k \in Keys : CrashInRemoval(k)
  BY <1>4, <1>10, <1>11 DEF Restart, CrashInIngest, CrashInRemoval
<1>12. CASE UNCHANGED vars
  BY <1>4, <1>12 DEF vars
<1> QED
  BY <1>2, <1>3, <1>4, <1>5, <1>6, <1>7, <1>8, <1>9, <1>11, <1>12 DEF Next

LEMMA PipelineInvariant == Spec => [](PipelineInv /\ AP!AuthorityInv)
<1>1. PipelineInv /\ AP!AuthorityInv /\ [Next]_vars =>
         (PipelineInv /\ AP!AuthorityInv)'
  BY PipelineKept, AuthorityKept
<1> QED
  BY <1>1, PipelineInitially, PTL DEF Spec

-----------------------------------------------------------------------------
(* Jobs, queue, call and pollers are well typed, whatever fails.           *)
THEOREM PipelineTypeCorrect == Spec => []PipelineTypeOK
  BY PipelineInvariant, PTL DEF PipelineInv

(* The jobs that wait or are under way are those the file has as queued,   *)
(* and none is there twice, through retries, removals and restarts         *)
(* (runWorker, requeue, loadFromDisk).                                     *)
THEOREM QueueIsTheFile == Spec => []QueuedIsCarried
<1>1. PipelineInv => QueuedIsCarried
  <2> SUFFICES ASSUME PipelineInv PROVE QueuedIsCarried
    OBVIOUS
  <2> DEFINE carried == ToSet(queue) \cup ({call.job} \ {0})
             T == ToSet(queue)
  <2>1. /\ queue \in Seq(Nat) /\ Len(queue) \in Nat
        /\ DOMAIN queue = 1 .. Len(queue)
    BY LenProperties DEF PipelineInv, QueueInv
  <2>2. carried = {j \in Known : store[j].status = "queued_for_conversion"}
    <3>1. T \subseteq Known /\ \A j \in Known : j # 0
      BY JobTypes DEF PipelineInv, QueueInv, ToSet
    <3>2. call.job # 0 => call.job \in Known
      BY DEF PipelineInv, QueueInv
    <3> QED
      BY <3>1, <3>2 DEF PipelineInv, QueueInv, ToSet
  <2>3. IsFiniteSet(T) /\ Cardinality(T) = Len(queue)
    <3>1. /\ IsFiniteSet(DOMAIN queue)
          /\ Cardinality(DOMAIN queue) = Len(queue)
      <4> DEFINE len == Len(queue)
      <4> HIDE DEF len
      <4>1. len \in Nat /\ 1 \in Int /\ len \in Int
        BY <2>1 DEF len
      <4>2. /\ IsFiniteSet(1 .. len)
            /\ Cardinality(1 .. len) = IF 1 > len THEN 0 ELSE len - 1 + 1
        BY <4>1, FS_Interval
      <4>3. Cardinality(1 .. len) = len
        BY <4>1, <4>2
      <4> QED
        BY <2>1, <4>2, <4>3 DEF len
    <3>2. queue \in Surjection(DOMAIN queue, T)
      BY <2>1 DEF Surjection, ToSet
    <3>3. queue \in Injection(DOMAIN queue, T)
      BY <3>2 DEF Surjection, Injection, IsInjective, PipelineInv, QueueInv
    <3> QED
      BY <3>1, <3>2, <3>3, FS_Surjection
  <2>4. call = NoCall <=> call.job = 0
    BY DEF PipelineInv, QueueInv
  <2>5. call.job \notin T
    BY DEF PipelineInv, QueueInv, ToSet
  <2>6. Cardinality(carried) = Len(queue) + (IF call = NoCall THEN 0 ELSE 1)
    <3>1. CASE call = NoCall
      <4>1. carried = T
        BY <2>4, <3>1
      <4> HIDE DEF carried, T
      <4> QED
        BY <2>1, <2>3, <3>1, <4>1
    <3>2. CASE call # NoCall
      <4>1. carried = T \cup {call.job}
        BY <2>4, <3>2
      <4> QED
        BY <2>3, <2>5, <3>2, <4>1, FS_AddElement
    <3> QED
      BY <3>1, <3>2
  <2> QED
    BY <2>2, <2>6 DEF QueuedIsCarried
<1> QED
  BY <1>1, PipelineInvariant, PTL

(* A dispatched job has a poller, in a new process too, as long as no      *)
(* request has ingested a result and every write succeeds                  *)
(* (resumePersistedDispatchedPollers).                                     *)
THEOREM EveryDispatchWatched == Spec => []DispatchedIsWatched
  BY PipelineInvariant, PTL DEF PipelineInv

(* A job is called back for once, and once more only for a crash between   *)
(* the callback and the outcome, a failing write or a request's ingest.    *)
THEOREM CallbacksPaid == Spec => []CallbacksBounded
<1>1. PipelineInv => CallbacksBounded
  BY DEF PipelineInv, CallbackInv, CallbackBound, CallbacksBounded
<1> QED
  BY <1>1, PipelineInvariant, PTL

(* A key has one job under way, and no job once it was removed, whatever   *)
(* was awaited then; where a crash has cut the removal between tombstone   *)
(* and jobs, that is so from the next DELETE on (accept, DELETE of a       *)
(* record).                                                                *)
THEOREM OneAtATime == Spec => []OneJobInFlight
<1>1. PipelineInv => OneJobInFlight
  <2> SUFFICES ASSUME PipelineInv, NEW k \in Keys
               PROVE  /\ Cardinality({j \in JobsOf(k) : InFlight(j)}) <= 1
                      /\ ledger[k] = "removed" /\ k \notin crashes.unswept =>
                            JobsOf(k) = {}
    BY DEF OneJobInFlight
  <2> DEFINE S == {j \in JobsOf(k) : InFlight(j)}
  <2>1. \A i, j \in S : i = j
    BY OneBeyond DEF PipelineInv, JobsOf, InFlight, GivenUp
  <2>2. S = {} \/ \E j : S = {j}
    BY <2>1
  <2>3. Cardinality(S) <= 1
    <3> HIDE DEF S
    <3>1. CASE S = {}
      BY <3>1, FS_EmptySet
    <3>2. ASSUME NEW j, S = {j} PROVE Cardinality(S) = 1
      BY <3>2, FS_Singleton
    <3> QED
      BY <2>2, <3>1, <3>2
  <2> QED
    BY <2>3 DEF PipelineInv, KeyInv
<1> QED
  BY <1>1, PipelineInvariant, PTL

(* A plain retry is not refused by the authority, be its context the       *)
(* original one or a rebuilt one (ifcReadyConversionPipeline.ts:289).      *)
THEOREM PlainRetryIsReplayed == Spec => []PlainRetryIsNotRefused
  BY PipelineInvariant, PTL DEF PipelineInv

(* A key without an event id has one conversion that has not failed,       *)
(* although answers are lost and the coordinator crashes.                  *)
THEOREM ConvertedUnderOneKey == Spec => []OneConversionPerKey
<1>1. PipelineInv /\ AP!AuthorityInv => OneConversionPerKey
  <2> SUFFICES ASSUME PipelineInv, AP!AuthorityInv, NEW k \in Keys \ WithEventId
               PROVE  Cardinality({c \in Authority!Created :
                          /\ CorrelationOf(c) = k
                          /\ conversions[c].status # "failed"}) <= 1
    BY DEF OneConversionPerKey
  <2> DEFINE S == {c \in Authority!Created :
                      /\ CorrelationOf(c) = k
                      /\ conversions[c].status # "failed"}
             key == <<k, "correlation">>
  <2>1. ASSUME NEW c \in S PROVE c \in AP!Live(key)
    <3>1. /\ conversions[c].key \in Keys \X {"event", "correlation"}
          /\ conversions[c].key[1] = k /\ conversions[c].key[2] = "correlation"
      BY JobFiles DEF PipelineInv, RequestInv, CorrelationOf
    <3>2. conversions[c].key = key
      BY <3>1
    <3>3. c \in AP!Created
      BY SameAttempts
    <3>4. conversions[c].superseded_by = 0
      BY <3>3 DEF AP!AuthorityInv, AP!SupersededHasFailed
    <3> QED
      BY <3>2, <3>3, <3>4 DEF AP!Live, AP!Attempts
  <2>2. \A c, d \in AP!Live(key) : c = d
    <3>1. key \in Keys \X {"event", "correlation"} /\ outages.unlinked = 0
      BY DEF PipelineInv, RequestInv
    <3> QED
      BY <3>1 DEF AP!AuthorityInv, AP!OneLive
  <2>3. S = {} \/ \E c : S = {c}
    BY <2>1, <2>2
  <2>4. Cardinality(S) <= 1
    <3> HIDE DEF S
    <3>1. CASE S = {}
      BY <3>1, FS_EmptySet
    <3>2. ASSUME NEW c, S = {c} PROVE Cardinality(S) = 1
      BY <3>2, FS_Singleton
    <3> QED
      BY <2>3, <3>1, <3>2
  <2> QED
    BY <2>4
<1> QED
  BY <1>1, PipelineInvariant, PTL

=============================================================================
