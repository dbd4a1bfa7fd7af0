--------------------------- MODULE CallbackOutbox ---------------------------
(***************************************************************************)
(* The outbox of callbacks to the cloud (services/callbackOutbox.ts).      *)
(*                                                                         *)
(* A conversion that ends enqueues an entry.  A delivery pass (one request *)
(* of the deliver route of app.ts) goes through the entries in the order   *)
(* of their insertion and posts each that is pending, awaiting the answer: *)
(* meanwhile entries are enqueued and other passes run, and the process    *)
(* may crash.  An entry whose attempts are exhausted becomes a dead        *)
(* letter.  Every change is written to the outbox file, which is replaced  *)
(* as a whole; a write may fail.  The cloud may accept a post whose answer *)
(* is lost.                                                                *)
(***************************************************************************)
EXTENDS Integers, FiniteSets, Functions

CONSTANTS
    Passes,         \* delivery passes that can be under way together
    WithTarget,     \* the entries that have a target_url
    MaxAttempts,    \* max_attempts
    MaxEntries,     \* bound: entries ever enqueued
    MaxFaults,      \* bound: writes of the outbox file that fail
    MaxCrashes      \* bound: crashes of the process

Ids == 1 .. MaxEntries

ASSUME OutboxAssumption ==
    /\ {MaxAttempts, MaxEntries, MaxFaults, MaxCrashes} \subseteq Nat
    /\ WithTarget \subseteq Ids

VARIABLES
    entries,        \* outbox_id -> [status, attempts], a Map
    issued,         \* outbox ids drawn so far, in the Map's order
    disk,           \* the entries in the outbox file
    pass,           \* pass -> [state, at]: its place in the iteration
    accepted,       \* the entries the cloud has accepted a post of
    acknowledged,   \* those whose acceptance the outbox was answered
    posts,          \* outbox_id -> posts sent
    overlapped,     \* history: a pass has begun while another was under way
    faults, crashes \* failures so far

cloud == <<accepted, acknowledged>>
counters == <<overlapped, faults, crashes>>
vars == <<entries, issued, disk, pass, cloud, posts, counters>>

-----------------------------------------------------------------------------
Statuses == {"pending", "delivered", "dead_letter"}
Entries == [status : Statuses, attempts : Nat]
PassStates == [state : {"idle", "between", "posting"}, at : 0 .. MaxEntries]

Idle == [state |-> "idle", at |-> 0]

Init ==
    /\ entries = [i \in {} |-> {}]
    /\ issued = 0
    /\ disk = [i \in {} |-> {}]
    /\ pass = [p \in Passes |-> Idle]
    /\ accepted = {} /\ acknowledged = {}
    /\ posts = [i \in Ids |-> 0]
    /\ overlapped = FALSE
    /\ faults = 0 /\ crashes = 0

(* persist: the file is replaced by what entries has become.               *)
Persist == disk' = entries' /\ UNCHANGED faults

(* It throws: the file stays as it is.                                     *)
PersistFails(n) ==
    /\ faults + n <= MaxFaults
    /\ faults' = faults + n
    /\ UNCHANGED disk

(* enqueue; where the write fails it throws, but the entry stays.          *)
Enqueue ==
    /\ issued < MaxEntries
    /\ issued' = issued + 1
    /\ entries' = [i \in DOMAIN entries \cup {issued + 1} |->
                      IF i = issued + 1
                      THEN [status |-> "pending", attempts |-> 0]
                      ELSE entries[i]]
    /\ Persist \/ PersistFails(1)
    /\ UNCHANGED <<pass, cloud, posts, overlapped, crashes>>

-----------------------------------------------------------------------------
(* A delivery pass.                                                        *)

At(p, state, i) == pass' = [pass EXCEPT ![p] = [state |-> state, at |-> i]]

(* The entries the iteration has still to attempt.                         *)
Ahead(p) ==
    {i \in DOMAIN entries : i > pass[p].at /\ entries[i].status = "pending"}

NextIs(p, i) ==
    /\ pass[p].state = "between"
    /\ i \in Ahead(p)
    /\ \A j \in Ahead(p) : i <= j

StartPass(p) ==
    /\ pass[p].state = "idle"
    /\ At(p, "between", 0)
    /\ overlapped' = (overlapped \/ \E q \in Passes : pass[q].state # "idle")
    /\ UNCHANGED <<entries, issued, disk, cloud, posts, faults, crashes>>

EndPass(p) ==
    /\ pass[p].state = "between"
    /\ Ahead(p) = {}
    /\ At(p, "idle", 0)
    /\ UNCHANGED <<entries, issued, disk, cloud, posts, counters>>

Attempted(e) == [e EXCEPT !.attempts = @ + 1]

(* The end of an attempt that has failed.                                  *)
Settled(e) ==
    IF e.attempts >= MaxAttempts THEN [e EXCEPT !.status = "dead_letter"]
                                 ELSE e

(* Mutant: the entry is marked before the cloud has answered.              *)
MutPost(p, i) ==
    /\ NextIs(p, i)
    /\ i \in WithTarget
    /\ entries' = [entries EXCEPT ![i] =
                      [Attempted(@) EXCEPT !.status = "delivered"]]
    /\ posts' = [posts EXCEPT ![i] = @ + 1]
    /\ At(p, "posting", i)
    /\ UNCHANGED <<issued, disk, cloud, counters>>

(* The attempt is counted in memory; the count is not written before the   *)
(* answer.                                                                 *)
Post(p, i) ==
    /\ NextIs(p, i)
    /\ i \in WithTarget
    /\ entries' = [entries EXCEPT ![i] = Attempted(@)]
    /\ posts' = [posts EXCEPT ![i] = @ + 1]
    /\ At(p, "posting", i)
    /\ UNCHANGED <<issued, disk, cloud, counters>>

FailWithoutTarget(p, i) ==
    /\ NextIs(p, i)
    /\ i \notin WithTarget
    /\ entries' = [entries EXCEPT ![i] = Settled(Attempted(@))]
    /\ \/ Persist /\ At(p, "between", i)
       \/ PersistFails(1) /\ At(p, "idle", 0)
    /\ UNCHANGED <<issued, cloud, posts, overlapped, crashes>>

(* Mutant: the delivery is not written to the file.                        *)
MutAccept(p) ==
    LET i == pass[p].at
    IN  /\ pass[p].state = "posting"
        /\ accepted' = accepted \cup {i}
        /\ acknowledged' = acknowledged \cup {i}
        /\ entries' = [entries EXCEPT ![i].status = "delivered"]
        /\ At(p, "between", i)
        /\ UNCHANGED <<issued, disk, posts, counters>>

(***************************************************************************)
(* The cloud has accepted.  The write is in the try block: if it fails,    *)
(* the attempt ends like a failed one, which writes the file once more and *)
(* ends the pass if that fails too.                                        *)
(***************************************************************************)
Accept(p) ==
    LET i == pass[p].at
        delivered == [entries[i] EXCEPT !.status = "delivered"]
    IN  /\ pass[p].state = "posting"
        /\ accepted' = accepted \cup {i}
        /\ acknowledged' = acknowledged \cup {i}
        /\ \/ /\ entries' = [entries EXCEPT ![i] = delivered]
              /\ Persist
              /\ At(p, "between", i)
           \/ /\ entries' = [entries EXCEPT ![i] = Settled(delivered)]
              /\ faults < MaxFaults
              /\ faults' = faults + 1
              /\ disk' = entries'
              /\ At(p, "between", i)
           \/ /\ entries' = [entries EXCEPT ![i] = Settled(delivered)]
              /\ PersistFails(2)
              /\ At(p, "idle", 0)
        /\ UNCHANGED <<issued, posts, overlapped, crashes>>

(* The cloud refuses, or no answer comes in time: it may have accepted.    *)
Fail(p) ==
    LET i == pass[p].at
    IN  /\ pass[p].state = "posting"
        /\ accepted' \in {accepted, accepted \cup {i}}
        /\ entries' = [entries EXCEPT ![i] = Settled(@)]
        /\ \/ Persist /\ At(p, "between", i)
           \/ PersistFails(1) /\ At(p, "idle", 0)
        /\ UNCHANGED <<issued, acknowledged, posts, overlapped, crashes>>

Posting == {p \in Passes : pass[p].state = "posting"}

(* Mutant: the attempts start anew in every process.                       *)
MutRestart ==
    /\ crashes < MaxCrashes
    /\ crashes' = crashes + 1
    /\ entries' = [i \in DOMAIN disk |-> [disk[i] EXCEPT !.attempts = 0]]
    /\ pass' = [p \in Passes |-> Idle]
    /\ UNCHANGED <<issued, disk, cloud, posts, overlapped, faults>>

(* A crash, and a new process that loads the file.                         *)
Restart ==
    /\ crashes < MaxCrashes
    /\ crashes' = crashes + 1
    /\ entries' = disk
    /\ pass' = [p \in Passes |-> Idle]
    /\ \E reached \in SUBSET Posting :
          accepted' = accepted \cup {pass[p].at : p \in reached}
    /\ UNCHANGED <<issued, disk, acknowledged, posts, overlapped, faults>>

Next ==
    \/ Enqueue
    \/ \E p \in Passes :
          \/ StartPass(p)
          \/ \E i \in Ahead(p) : Post(p, i) \/ FailWithoutTarget(p, i)
          \/ Accept(p)
          \/ Fail(p)
          \/ EndPass(p)
    \/ Restart

Spec == Init /\ [][Next]_vars

-----------------------------------------------------------------------------
(* Type correctness; a pass only posts entries that have a target.         *)
OutboxTypeOK ==
    /\ issued \in 0 .. MaxEntries
    /\ entries \in [DOMAIN entries -> Entries]
    /\ DOMAIN entries \subseteq 1 .. issued
    /\ disk \in [DOMAIN disk -> Entries]
    /\ DOMAIN disk \subseteq DOMAIN entries
    /\ pass \in [Passes -> PassStates]
    /\ \A p \in Passes : pass[p].state = "posting" =>
          pass[p].at \in DOMAIN entries \cap WithTarget
    /\ accepted \subseteq WithTarget /\ acknowledged \subseteq accepted
    /\ posts \in [Ids -> Nat] /\ overlapped \in BOOLEAN
    /\ faults \in 0 .. MaxFaults /\ crashes \in 0 .. MaxCrashes

(* An entry that is shown as delivered, in memory or in the file, has been *)
(* accepted by the cloud: whatever passes, failing writes and crashes come *)
(* together (attemptDelivery).                                             *)
DeliveredWasAccepted ==
    /\ \A i \in DOMAIN entries :
          entries[i].status = "delivered" => i \in accepted
    /\ \A i \in DOMAIN disk :
          disk[i].status = "delivered" => i \in accepted

(* callbackOutbox.ts:158: attempts that fail are counted and make, once    *)
(* exhausted, a dead letter.  So an entry the cloud has acknowledged is    *)
(* delivered and stays so: it is no dead letter and is not posted again.   *)
AcknowledgedStaysDelivered ==
    \A i \in acknowledged \cap DOMAIN entries :
        entries[i].status = "delivered"

(* That holds, crashes included, as long as no two passes overlap and no   *)
(* write of the file fails.                                                *)
AcknowledgedIsDelivered ==
    ~overlapped /\ faults = 0 => AcknowledgedStaysDelivered

(* While no write fails, the cloud sees a limited number of posts of an    *)
(* entry: the attempts that are allowed, one more for each further pass    *)
(* that found it pending, and those a crash has made the outbox forget.    *)
PostsBounded ==
    faults = 0 =>
        \A i \in Ids :
            posts[i] <= MaxAttempts + (Cardinality(Passes) - 1)
                          + crashes * Cardinality(Passes)

=============================================================================
