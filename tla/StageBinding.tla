---------------------------- MODULE StageBinding ----------------------------
(***************************************************************************)
(* The stage-binding transactions of the review coordinator                *)
(* (services/runtimeMutationAuthority/stageBindingState.ts).               *)
(*                                                                         *)
(* A viewer that wants the Kit runtime to load a stage first preauthorizes *)
(* the load (CreatePending).  The Kit runtime claims the authorization     *)
(* before it mutates anything (Consume) and reports what happened          *)
(* (Complete), or the load is given up before the mutation                 *)
(* (FailBeforeMutation).  The browser can cancel a preauthorization it     *)
(* timed out on (CancelPendingByIntent), even before the delayed request   *)
(* itself arrives: the cancellation leaves a tombstone that fences it.     *)
(*                                                                         *)
(* Every operation first sweeps: it expires what is overdue, forgets what  *)
(* has been retained long enough and evicts what exceeds the limits.  Each *)
(* handler is synchronous, hence one atomic action.                        *)
(*                                                                         *)
(* A lease id names one session, one principal and one source client for   *)
(* life (viewerLeaseStore.ts), so a lease stands for the four of them; the *)
(* authorization id and the binding revision id are drawn together and are *)
(* one number, in the order of creation, which is also the Map's order.    *)
(***************************************************************************)
EXTENDS StageParameters, Sequences, FiniteSets, Functions

CONSTANTS
    Sessions,               \* review sessions
    Leases,                 \* viewer leases
    SessionOf,              \* the session of every lease
    MaxTime                 \* bound: the clock stops here

ASSUME LeaseAssumption ==
    /\ SessionOf \in [Leases -> Sessions]
    /\ MaxTime \in Nat

VARIABLES
    now,              \* ports.now()
    transactions,     \* authorization id -> record, a Map
    nextTx,           \* the id idFactory gives next
    tombstones,       \* cancelledPreauthorizationIntents: intent -> time
    activeBySession,  \* session -> [active, lastGood, updatedAt], a Map
    appliedLog,       \* stageBindingApplied events appended per session
    cancelReply       \* the last answer a cancellation of an intent got

vars == <<now, transactions, nextTx, tombstones, activeBySession, appliedLog,
          cancelReply>>

-----------------------------------------------------------------------------
Intents == Leases \X (ClientRequests \ {NoRequest})

Attempts == [requestId : RequestIds, eventType : EventTypes]

NonTerminalPhases == {"pending", "executing"}
CompletedPhases == {"active", "failed", "superseded"}

FailureCodes == {"superseded_by_new_pending", "authorization_unavailable",
                 "runtime_stage_load_failed", "pending_expired",
                 "preauthorization_cancelled", "executing_expired"}

(***************************************************************************)
(* StageBindingRecord.  "attempt" holds at most the one attempt that       *)
(* claimed the authorization; completedAt and failureCode matter only in   *)
(* the completed phases and expiresAt is the deadline of the phase.        *)
(***************************************************************************)
Records == [phase : NonTerminalPhases \cup CompletedPhases,
            session : Sessions, lease : Leases,
            clientRequest : ClientRequests,
            composition : Compositions,
            attempt : SUBSET Attempts,
            expiresAt : Nat, completedAt : Nat,
            failureCode : FailureCodes \cup {"none"}]

Summaries == [active : TxIds, lastGood : TxIds \cup {NoBinding},
              updatedAt : Nat]

IntentOf(t) == <<t.lease, t.clientRequest>>
IsNonTerminal(t) == t.phase \in NonTerminalPhases
IsCompleted(t) == t.phase \in CompletedPhases

NonTerminal(f) == {i \in DOMAIN f : IsNonTerminal(f[i])}

(* Mutant: a pending record is not found, so nothing is superseded.        *)
MutExecutingOnly(f, s) ==
    {i \in NonTerminal(f) : f[i].session = s /\ f[i].phase = "executing"}

(* nonTerminalForSession: the first in the Map's order, if there is one.   *)
CurrentOf(f, s) ==
    LET open == {i \in NonTerminal(f) : f[i].session = s}
    IN  {i \in open : \A j \in open : i <= j}

Finish(t, phase, code) ==
    [t EXCEPT !.phase = phase, !.completedAt = now, !.failureCode = code]

-----------------------------------------------------------------------------
(* Eviction: completed records are sorted by completion time, newest first *)
(* (a stable sort, so the Map's order decides ties), and the first "limit" *)
(* of them stay.  A protected record stays whatever its rank.              *)

Newer(f, i, j) ==
    \/ f[i].completedAt > f[j].completedAt
    \/ f[i].completedAt = f[j].completedAt /\ i < j

Kept(f, candidates, limit, protected) ==
    {i \in candidates :
        \/ i \in protected
        \/ Cardinality({j \in candidates \ protected : Newer(f, j, i)})
             < limit - Cardinality(protected)}

(* What evictCompletedForSession leaves of "ids", for the sessions "ss".   *)
EvictCompletedForSession(f, ids, ss, protected) ==
    LET completed(s) == {i \in ids : IsCompleted(f[i]) /\ f[i].session = s}
    IN  (ids \ UNION {completed(s) : s \in ss})
          \cup UNION {Kept(f, completed(s), MaxCompletedPerSession, protected)
                        : s \in ss}

EvictCompletedGlobal(f, ids, protected) ==
    LET completed == {i \in ids : IsCompleted(f[i])}
    IN  (ids \ completed) \cup Kept(f, completed, MaxCompleted, protected)

(* Record i becomes t; the evictions that follow spare it.                 *)
Concluded(f, i, t) ==
    LET g == [f EXCEPT ![i] = t]
    IN  Restrict(g, EvictCompletedGlobal(g,
                      EvictCompletedForSession(g, DOMAIN g, {t.session}, {i}),
                      {i}))

-----------------------------------------------------------------------------
(* sweep(now)                                                              *)

Expire(t) ==
    IF IsNonTerminal(t) /\ now >= t.expiresAt
    THEN Finish(t, "failed", IF t.phase = "pending" THEN "pending_expired"
                                                    ELSE "executing_expired")
    ELSE t

DropRetained(f) ==
    {i \in DOMAIN f : IsCompleted(f[i]) =>
                          now - f[i].completedAt < CompletedRetention}

SweptTransactions ==
    LET f == [i \in DOMAIN transactions |-> Expire(transactions[i])]
    IN  Restrict(f, EvictCompletedGlobal(f,
                      EvictCompletedForSession(f, DropRetained(f), Sessions,
                                               {}), {}))

SweptTombstones ==
    Restrict(tombstones, {k \in DOMAIN tombstones :
                             now - tombstones[k] < CompletedRetention})

-----------------------------------------------------------------------------
Init ==
    /\ now = 0
    /\ transactions = [i \in {} |-> {}]
    /\ nextTx = 1
    /\ tombstones = [k \in {} |-> 0]
    /\ activeBySession = [s \in {} |-> {}]
    /\ appliedLog = [s \in Sessions |-> <<>>]
    /\ cancelReply = [k \in Intents |-> "none"]

Tick ==
    /\ now < MaxTime
    /\ now' = now + 1
    /\ UNCHANGED <<transactions, nextTx, tombstones, activeBySession,
                   appliedLog, cancelReply>>

(***************************************************************************)
(* A call that is refused, that replays an earlier answer, or that only    *)
(* reads (summary, activeBinding, confirmationContext) still sweeps; so    *)
(* does a completion whose event cannot be appended: beforeCommit throws   *)
(* before anything is committed.  sweep's own evictActiveSessions never    *)
(* finds a session to remove: complete evicts as it adds one.              *)
(***************************************************************************)
Sweep ==
    /\ transactions' = SweptTransactions
    /\ tombstones' = SweptTombstones
    /\ UNCHANGED <<now, nextTx, activeBySession, appliedLog, cancelReply>>

NewPending(l, c, comp) ==
    [phase |-> "pending", session |-> SessionOf[l], lease |-> l,
     clientRequest |-> c, composition |-> comp, attempt |-> {},
     expiresAt |-> now + PendingTtl, completedAt |-> 0,
     failureCode |-> "none"]

(* Mutant: a delayed request is not fenced by its cancellation.           *)
MutFenced(l, c) == FALSE

Fenced(l, c) == <<l, c>> \in DOMAIN SweptTombstones

HasRoom(f, replaced) ==
    Cardinality(NonTerminal(f)) + (IF replaced = {} THEN 1 ELSE 0)
      <= MaxNonTerminal

(***************************************************************************)
(* A pending record of the session is superseded; an executing one refuses *)
(* the call, and so do a tombstone and a full table.                       *)
(***************************************************************************)
CreatePending(l, c, comp) ==
    LET f == SweptTransactions
        current == CurrentOf(f, SessionOf[l])
        g == [i \in DOMAIN f \cup {nextTx} |->
                IF i = nextTx THEN NewPending(l, c, comp)
                ELSE IF i \in current
                     THEN Finish(f[i], "superseded",
                                 "superseded_by_new_pending")
                     ELSE f[i]]
    IN  /\ nextTx <= MaxTransactions
        /\ ~Fenced(l, c)
        /\ \A i \in current : f[i].phase = "pending"
        /\ HasRoom(f, current)
        /\ transactions' = Restrict(g,
               EvictCompletedForSession(g, DOMAIN g, {SessionOf[l]}, {}))
        /\ nextTx' = nextTx + 1
        /\ tombstones' = SweptTombstones
        /\ UNCHANGED <<now, activeBySession, appliedLog, cancelReply>>

(***************************************************************************)
(* The tombstone is refreshed and moves to the end of the Map; over the    *)
(* limit the oldest other one goes.  The Map's order decides between two   *)
(* of the same time, the model allows either.                              *)
(***************************************************************************)
Oldest(f, s) == {x \in s : \A y \in s : f[x] <= f[y]}

EvictableTombstones(g, k) ==
    IF Cardinality(DOMAIN g \cup {k}) > MaxTombstones
    THEN {{x} : x \in Oldest(g, DOMAIN g \ {k})}
    ELSE {{}}

WithTombstone(g, k, victims) ==
    [x \in (DOMAIN g \cup {k}) \ victims |-> IF x = k THEN now ELSE g[x]]

CancelPendingByIntent(k) ==
    LET f == SweptTransactions
        g == SweptTombstones
        matching == {i \in DOMAIN f : IntentOf(f[i]) = k}
        pending == {i \in matching : f[i].phase = "pending"}
        prior == {i \in matching :
                     f[i].failureCode = "preauthorization_cancelled"}
    IN  /\ \E victims \in EvictableTombstones(g, k) :
              tombstones' = WithTombstone(g, k, victims)
        /\ \/ \E i \in pending :
                 /\ \A j \in pending : i <= j
                 /\ transactions' =
                      Concluded(f, i, Finish(f[i], "failed",
                                             "preauthorization_cancelled"))
                 /\ cancelReply' = [cancelReply EXCEPT ![k] = "cancelled"]
           \/ /\ pending = {}
              /\ transactions' = f
              /\ cancelReply' = [cancelReply EXCEPT ![k] =
                     IF prior # {} \/ matching = {} THEN "cancelled"
                     ELSE "transaction_not_abortable"]
        /\ UNCHANGED <<now, nextTx, activeBySession, appliedLog>>

(* matchesBase: the caller names the record and repeats its composition.   *)
(* The sweep leaves these fields alone.                                    *)
MatchesBase(t, l, comp) == t.lease = l /\ t.composition = comp

Consume(i, l, comp, a) ==
    /\ MatchesBase(transactions[i], l, comp)
    /\ LET f == SweptTransactions
       IN  /\ i \in DOMAIN f
           /\ f[i].phase = "pending"
           /\ transactions' = [f EXCEPT ![i].phase = "executing",
                                        ![i].attempt = {a},
                                        ![i].expiresAt = now + ExecutingTtl]
    /\ tombstones' = SweptTombstones
    /\ UNCHANGED <<now, nextTx, activeBySession, appliedLog, cancelReply>>

Abortable(t, a) ==
    \/ t.phase = "pending"
    \/ t.phase = "executing" /\ t.attempt = {a}

(* The attempt is recorded also when nothing had claimed the record yet.   *)
FailBeforeMutation(i, l, comp, a) ==
    /\ MatchesBase(transactions[i], l, comp)
    /\ LET f == SweptTransactions
           g == [f EXCEPT ![i] = [Finish(f[i], "failed",
                                         "authorization_unavailable")
                                    EXCEPT !.attempt = {a}]]
       IN  /\ i \in DOMAIN f
           /\ Abortable(f[i], a)
           /\ transactions' = Restrict(g,
                  EvictCompletedForSession(g, DOMAIN g, {f[i].session}, {}))
    /\ tombstones' = SweptTombstones
    /\ UNCHANGED <<now, nextTx, activeBySession, appliedLog, cancelReply>>

-----------------------------------------------------------------------------
(* evictActiveSessions(protected): over the limit, the least recently      *)
(* updated other session goes (either of two updated at the same time).    *)

(* Mutant: the last good binding is not moved on.                          *)
MutLastGoodStays(s, i, victims) ==
    [x \in (DOMAIN activeBySession \cup {s}) \ victims |->
        IF x = s
        THEN [active |-> i,
              lastGood |-> IF s \in DOMAIN activeBySession
                           THEN IF activeBySession[s].lastGood = NoBinding
                                THEN activeBySession[s].active
                                ELSE activeBySession[s].lastGood
                           ELSE NoBinding,
              updatedAt |-> now]
        ELSE activeBySession[x]]

WithActive(s, i, victims) ==
    [x \in (DOMAIN activeBySession \cup {s}) \ victims |->
        IF x = s
        THEN [active |-> i,
              lastGood |-> IF s \in DOMAIN activeBySession
                           THEN activeBySession[s].active ELSE NoBinding,
              updatedAt |-> now]
        ELSE activeBySession[x]]

EvictableActiveSessions(s) ==
    LET others == DOMAIN activeBySession \ {s}
        updatedAt == [x \in others |-> activeBySession[x].updatedAt]
    IN  IF Cardinality(others \cup {s}) > MaxActiveSessions
        THEN {{x} : x \in Oldest(updatedAt, others)}
        ELSE {{}}

(***************************************************************************)
(* confirmStageBinding repeats the attempt of the record under the request *)
(* id the runtime reports, so only the request id can disagree.            *)
(***************************************************************************)
Completable(i, r) ==
    LET f == SweptTransactions
    IN  /\ i \in DOMAIN f
        /\ f[i].phase = "executing"
        /\ \E a \in f[i].attempt : a.requestId = r

CompleteSuccess(i, r) ==
    /\ Completable(i, r)
    /\ LET s == transactions[i].session
       IN  /\ appliedLog' = [appliedLog EXCEPT ![s] = Append(@, i)]
           /\ \E victims \in EvictableActiveSessions(s) :
                 activeBySession' = WithActive(s, i, victims)
    /\ LET f == SweptTransactions
       IN  transactions' = Concluded(f, i, Finish(f[i], "active", "none"))
    /\ tombstones' = SweptTombstones
    /\ UNCHANGED <<now, nextTx, cancelReply>>

CompleteFailed(i, r) ==
    /\ Completable(i, r)
    /\ LET f == SweptTransactions
       IN  transactions' =
             Concluded(f, i, Finish(f[i], "failed",
                                    "runtime_stage_load_failed"))
    /\ tombstones' = SweptTombstones
    /\ UNCHANGED <<now, nextTx, activeBySession, appliedLog, cancelReply>>

-----------------------------------------------------------------------------
Next ==
    \/ Tick
    \/ Sweep
    \/ \E l \in Leases, c \in ClientRequests, comp \in Compositions :
          CreatePending(l, c, comp)
    \/ \E k \in Intents : CancelPendingByIntent(k)
    \/ \E i \in DOMAIN transactions :
          \/ \E l \in Leases, comp \in Compositions, a \in Attempts :
                Consume(i, l, comp, a) \/ FailBeforeMutation(i, l, comp, a)
          \/ \E r \in RequestIds : CompleteSuccess(i, r) \/ CompleteFailed(i, r)

Spec == Init /\ [][Next]_vars

-----------------------------------------------------------------------------
(* Type invariant.                                                         *)
TypeOK ==
    /\ now \in Nat
    /\ nextTx \in 1 .. MaxTransactions + 1
    /\ DOMAIN transactions \subseteq 1 .. nextTx - 1
    /\ transactions \in [DOMAIN transactions -> Records]
    /\ DOMAIN tombstones \subseteq Intents
    /\ tombstones \in [DOMAIN tombstones -> Nat]
    /\ DOMAIN activeBySession \subseteq Sessions
    /\ activeBySession \in [DOMAIN activeBySession -> Summaries]
    /\ appliedLog \in [Sessions -> Seq(TxIds)]
    /\ cancelReply \in [Intents -> {"none", "cancelled",
                                    "transaction_not_abortable"}]

(***************************************************************************)
(* At most one stage load of a session is in preparation or in execution   *)
(* (createPending supersedes the pending one and refuses behind an         *)
(* executing one): Kit is never authorized for two loads of one stage.     *)
(***************************************************************************)
OneOpenTransactionPerSession ==
    \A i, j \in NonTerminal(transactions) :
        transactions[i].session = transactions[j].session => i = j

(***************************************************************************)
(* While the tombstone of an intent is kept, no preauthorization of that   *)
(* intent is pending: whichever of the cancellation and the delayed        *)
(* request arrives first, the Kit runtime cannot start the cancelled load. *)
(***************************************************************************)
TombstoneFencesPending ==
    \A i \in DOMAIN transactions :
        transactions[i].phase = "pending" =>
            IntentOf(transactions[i]) \notin DOMAIN tombstones

(***************************************************************************)
(* A browser that was answered "cancelled" is not left with its load       *)
(* running: while the tombstone is kept no transaction of the intent is    *)
(* pending or executing (cancelPendingByIntent says                        *)
(* transaction_not_abortable once Kit has consumed the authorization).     *)
(***************************************************************************)
CancelledMeansNotRunning ==
    \A k \in DOMAIN tombstones :
        cancelReply[k] = "cancelled" =>
            \A i \in DOMAIN transactions :
                IntentOf(transactions[i]) = k =>
                    ~IsNonTerminal(transactions[i])

(***************************************************************************)
(* What a session reports as its active binding is what its event log says *)
(* was applied last, and the last good binding is the one applied before   *)
(* it: complete appends the event before it commits and neither an expiry, *)
(* nor an eviction, nor a replay separates the two.                        *)
(***************************************************************************)
ActiveIsLastApplied ==
    \A s \in DOMAIN activeBySession :
        LET log == appliedLog[s]
            summary == activeBySession[s]
        IN  /\ Len(log) > 0
            /\ summary.active = log[Len(log)]
            /\ summary.lastGood # NoBinding =>
                  /\ Len(log) > 1
                  /\ summary.lastGood = log[Len(log) - 1]

(***************************************************************************)
(* No binding is applied twice, however often its completion is reported   *)
(* and even if its record has been evicted in between.                     *)
(***************************************************************************)
AppliedOnce ==
    \A s1, s2 \in Sessions :
        \A m \in 1 .. Len(appliedLog[s1]), n \in 1 .. Len(appliedLog[s2]) :
            appliedLog[s1][m] = appliedLog[s2][n] => s1 = s2 /\ m = n

(***************************************************************************)
(* A deadline that has passed is final: an authorization is claimed only   *)
(* before its pending deadline and committed only before its executing     *)
(* deadline, by the attempt that claimed it.                               *)
(***************************************************************************)
DeadlinesHold ==
    [][\A i \in DOMAIN transactions \cap DOMAIN transactions' :
         /\ transactions'[i].phase # transactions[i].phase
         /\ transactions'[i].phase \in {"executing", "active"}
         => /\ now < transactions[i].expiresAt
            /\ transactions[i].phase = "executing" =>
                  transactions'[i].attempt = transactions[i].attempt]_vars

(***************************************************************************)
(* A transaction only moves forward - pending, executing, completed - and  *)
(* an id that was forgotten never comes back: a completed record is not    *)
(* changed any more, only dropped.                                         *)
(***************************************************************************)
ForwardOnly ==
    [][/\ \A i \in DOMAIN transactions' :
             i \in DOMAIN transactions \/ i >= nextTx
       /\ \A i \in DOMAIN transactions \cap DOMAIN transactions' :
             /\ IsCompleted(transactions[i]) =>
                   transactions'[i] = transactions[i]
             /\ transactions[i].phase = "executing" =>
                   transactions'[i].phase # "pending"]_vars

=============================================================================
