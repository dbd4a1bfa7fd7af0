------------------------- MODULE StageBindingProofs -------------------------
(***************************************************************************)
(* Theorems about StageBinding, for every value of its constants.          *)
(***************************************************************************)
EXTENDS StageBinding, FiniteSetTheorems, TLAPS

(***************************************************************************)
(* Evictions choose among the ids they are given.                          *)
(***************************************************************************)
LEMMA EvictionsOnlyDrop ==
    ASSUME NEW f, NEW ids, NEW ss, NEW p
    PROVE  /\ EvictCompletedForSession(f, ids, ss, p) \subseteq ids
           /\ EvictCompletedGlobal(f, ids, p) \subseteq ids
BY DEF EvictCompletedForSession, EvictCompletedGlobal, Kept

(***************************************************************************)
(* A sweep keeps some of the records, each as it is or expired.            *)
(***************************************************************************)
LEMMA SweepOnlyExpiresAndDrops ==
    /\ DOMAIN SweptTransactions \subseteq DOMAIN transactions
    /\ \A i \in DOMAIN SweptTransactions :
          SweptTransactions[i] = Expire(transactions[i])
    /\ SweptTransactions = [i \in DOMAIN SweptTransactions |->
                               Expire(transactions[i])]
<1> DEFINE f == [i \in DOMAIN transactions |-> Expire(transactions[i])]
           kept == EvictCompletedForSession(f, DropRetained(f), Sessions, {})
           D == EvictCompletedGlobal(f, kept, {})
<1>1. DropRetained(f) \subseteq DOMAIN transactions
  BY DEF DropRetained
<1>2. kept \subseteq DropRetained(f)
  BY EvictionsOnlyDrop
<1>3. D \subseteq kept
  BY EvictionsOnlyDrop
<1>4. SweptTransactions = [i \in D |-> f[i]]
  BY DEF SweptTransactions, Restrict
<1>5. D \subseteq DOMAIN transactions
  BY <1>1, <1>2, <1>3
<1> QED
  BY <1>4, <1>5

(***************************************************************************)
(* Concluding a record changes it to t and otherwise only drops records.   *)
(***************************************************************************)
LEMMA ConcludedShape ==
    ASSUME NEW f, NEW i \in DOMAIN f, NEW t
    PROVE  /\ DOMAIN Concluded(f, i, t) \subseteq DOMAIN f
           /\ \A j \in DOMAIN Concluded(f, i, t) :
                 Concluded(f, i, t)[j] = IF j = i THEN t ELSE f[j]
           /\ Concluded(f, i, t) = [j \in DOMAIN Concluded(f, i, t) |->
                                      IF j = i THEN t ELSE f[j]]
<1> DEFINE g == [f EXCEPT ![i] = t]
           kept == EvictCompletedForSession(g, DOMAIN g, {t.session}, {i})
           D == EvictCompletedGlobal(g, kept, {i})
<1>1. kept \subseteq DOMAIN g /\ D \subseteq kept
  BY EvictionsOnlyDrop
<1>2. DOMAIN g = DOMAIN f
  OBVIOUS
<1>3. Concluded(f, i, t) = [j \in D |-> g[j]]
  BY DEF Concluded, Restrict
<1>4. \A j \in D : g[j] = IF j = i THEN t ELSE f[j]
  BY <1>1, <1>2
<1> QED
  BY <1>1, <1>2, <1>3, <1>4

-----------------------------------------------------------------------------
(***************************************************************************)
(* Type correctness of the records an operation writes.                    *)
(***************************************************************************)
LEMMA FinishType ==
    ASSUME TypeOK, NEW t \in Records, NEW phase \in CompletedPhases,
           NEW code \in FailureCodes \cup {"none"}
    PROVE  Finish(t, phase, code) \in Records
BY DEF TypeOK, Finish, Records

LEMMA ExpireType ==
    ASSUME TypeOK, NEW t \in Records
    PROVE  Expire(t) \in Records
BY FinishType DEF Expire, CompletedPhases, FailureCodes

LEMMA SweptType ==
    ASSUME TypeOK
    PROVE  /\ DOMAIN SweptTransactions \subseteq 1 .. nextTx - 1
           /\ SweptTransactions \in [DOMAIN SweptTransactions -> Records]
           /\ DOMAIN SweptTombstones \subseteq DOMAIN tombstones
           /\ SweptTombstones \in [DOMAIN SweptTombstones -> Nat]
           /\ \A k \in DOMAIN SweptTombstones :
                 SweptTombstones[k] = tombstones[k]
<1>1. DOMAIN SweptTransactions \subseteq 1 .. nextTx - 1
  BY SweepOnlyExpiresAndDrops DEF TypeOK
<1>2. \A i \in DOMAIN SweptTransactions :
          Expire(transactions[i]) \in Records
  BY SweepOnlyExpiresAndDrops, ExpireType DEF TypeOK
<1>3. SweptTransactions \in [DOMAIN SweptTransactions -> Records]
  BY <1>2, SweepOnlyExpiresAndDrops
<1>4. /\ DOMAIN SweptTombstones \subseteq DOMAIN tombstones
      /\ SweptTombstones \in [DOMAIN SweptTombstones -> Nat]
      /\ \A k \in DOMAIN SweptTombstones :
            SweptTombstones[k] = tombstones[k]
  BY DEF TypeOK, SweptTombstones, Restrict
<1> QED
  BY <1>1, <1>3, <1>4

LEMMA ConcludedType ==
    ASSUME TypeOK, NEW i \in DOMAIN SweptTransactions, NEW t \in Records
    PROVE  LET c == Concluded(SweptTransactions, i, t)
           IN  DOMAIN c \subseteq 1 .. nextTx - 1 /\ c \in [DOMAIN c -> Records]
BY SweptType, ConcludedShape

LEMMA CreatePendingType ==
    ASSUME TypeOK, NEW l \in Leases, NEW c \in ClientRequests,
           NEW comp \in Compositions, CreatePending(l, c, comp)
    PROVE  /\ DOMAIN transactions' \subseteq DOMAIN SweptTransactions \cup {nextTx}
           /\ transactions' \in [DOMAIN transactions' -> Records]
           /\ \A i \in DOMAIN transactions' :
                 transactions'[i] =
                   IF i = nextTx THEN NewPending(l, c, comp)
                   ELSE IF i \in CurrentOf(SweptTransactions, SessionOf[l])
                        THEN Finish(SweptTransactions[i], "superseded",
                                    "superseded_by_new_pending")
                        ELSE SweptTransactions[i]
<1> DEFINE f == SweptTransactions
           current == CurrentOf(f, SessionOf[l])
           g == [i \in DOMAIN f \cup {nextTx} |->
                   IF i = nextTx THEN NewPending(l, c, comp)
                   ELSE IF i \in current
                        THEN Finish(f[i], "superseded",
                                    "superseded_by_new_pending")
                        ELSE f[i]]
           D == EvictCompletedForSession(g, DOMAIN g, {SessionOf[l]}, {})
<1>1. transactions' = [i \in D |-> g[i]]
  BY DEF CreatePending, Restrict
<1>2. D \subseteq DOMAIN f \cup {nextTx}
  <2>1. D \subseteq DOMAIN g
    BY EvictionsOnlyDrop
  <2> QED
    BY <2>1
<1>3. NewPending(l, c, comp) \in Records
  BY LeaseAssumption, BoundsAssumption
     DEF NewPending, Records, TypeOK, NonTerminalPhases, Attempts
<1>4. \A i \in DOMAIN f :
          /\ f[i] \in Records
          /\ Finish(f[i], "superseded", "superseded_by_new_pending") \in Records
  BY SweptType, FinishType DEF CompletedPhases, FailureCodes
<1>5. \A i \in D : g[i] \in Records
  <2> SUFFICES ASSUME NEW i \in D PROVE g[i] \in Records
    OBVIOUS
  <2>1. g[i] = IF i = nextTx THEN NewPending(l, c, comp)
               ELSE IF i \in current
                    THEN Finish(f[i], "superseded",
                                "superseded_by_new_pending")
                    ELSE f[i]
    BY <1>2
  <2> HIDE DEF g, D
  <2> QED
    BY <1>2, <1>3, <1>4, <2>1
<1> QED
  BY <1>1, <1>2, <1>5

LEMMA SweepType ==
    ASSUME TypeOK, Sweep
    PROVE  TypeOK'
BY SweptType DEF Sweep, TypeOK

LEMMA InitType == Init => TypeOK
<1> SUFFICES ASSUME Init PROVE TypeOK
  OBVIOUS
<1>1. transactions \in [DOMAIN transactions -> Records]
  BY DEF Init
<1>2. DOMAIN transactions = {} /\ DOMAIN tombstones = {}
         /\ DOMAIN activeBySession = {}
  BY DEF Init
<1>3. activeBySession \in [DOMAIN activeBySession -> Summaries]
  BY DEF Init
<1>4. tombstones \in [DOMAIN tombstones -> Nat]
  BY DEF Init
<1> QED
  BY <1>1, <1>2, <1>3, <1>4, BoundsAssumption DEF Init, TypeOK

LEMMA NextType == TypeOK /\ [Next]_vars => TypeOK'
<1> SUFFICES ASSUME TypeOK, [Next]_vars PROVE TypeOK'
  OBVIOUS
<1>1. CASE Tick
  <2>1. now' \in Nat
    BY <1>1 DEF Tick, TypeOK
  <2>2. UNCHANGED <<transactions, nextTx, tombstones, activeBySession,
                    appliedLog, cancelReply>>
    BY <1>1 DEF Tick
  <2> QED
    BY <2>1, <2>2 DEF TypeOK
<1>2. CASE Sweep
  BY <1>2, SweepType
<1>3. ASSUME NEW l \in Leases, NEW c \in ClientRequests,
             NEW comp \in Compositions, CreatePending(l, c, comp)
      PROVE  TypeOK'
  <2>1. /\ DOMAIN transactions' \subseteq DOMAIN SweptTransactions \cup {nextTx}
        /\ transactions' \in [DOMAIN transactions' -> Records]
    BY <1>3, CreatePendingType
  <2>2. nextTx' = nextTx + 1 /\ nextTx' \in 1 .. MaxTransactions + 1
    BY <1>3, BoundsAssumption DEF CreatePending, TypeOK
  <2>3. DOMAIN transactions' \subseteq 1 .. nextTx' - 1
    BY <2>1, <2>2, SweptType DEF TypeOK
  <2>4. /\ tombstones' = SweptTombstones
        /\ UNCHANGED <<now, activeBySession, appliedLog, cancelReply>>
    BY <1>3 DEF CreatePending
  <2> QED
    BY <2>1, <2>2, <2>3, <2>4, SweptType DEF TypeOK
<1>4. ASSUME NEW k \in Intents, CancelPendingByIntent(k)
      PROVE  TypeOK'
  <2>1. /\ DOMAIN transactions' \subseteq 1 .. nextTx - 1
        /\ transactions' \in [DOMAIN transactions' -> Records]
    <3>1. CASE transactions' = SweptTransactions
      BY <3>1, SweptType
    <3>2. ASSUME NEW i \in DOMAIN SweptTransactions,
                 transactions' =
                   Concluded(SweptTransactions, i,
                             Finish(SweptTransactions[i], "failed",
                                    "preauthorization_cancelled"))
          PROVE  <2>1!1 /\ <2>1!2
      BY <3>2, SweptType, FinishType, ConcludedType
         DEF CompletedPhases, FailureCodes
    <3> QED
      BY <1>4, <3>1, <3>2 DEF CancelPendingByIntent
  <2>2. PICK victims : tombstones' = WithTombstone(SweptTombstones, k, victims)
    BY <1>4 DEF CancelPendingByIntent
  <2>3. /\ DOMAIN tombstones' \subseteq Intents
        /\ tombstones' \in [DOMAIN tombstones' -> Nat]
    BY <1>4, <2>2, SweptType DEF WithTombstone, TypeOK
  <2>4. /\ cancelReply' \in [Intents -> {"none", "cancelled",
                                          "transaction_not_abortable"}]
        /\ UNCHANGED <<now, nextTx, activeBySession, appliedLog>>
    BY <1>4 DEF CancelPendingByIntent, TypeOK
  <2> QED
    BY <2>1, <2>3, <2>4 DEF TypeOK
<1>5. ASSUME NEW i \in DOMAIN transactions, NEW l \in Leases,
             NEW comp \in Compositions, NEW a \in Attempts,
             Consume(i, l, comp, a)
      PROVE  TypeOK'
  <2> DEFINE t == SweptTransactions[i]
             u == [t EXCEPT !.phase = "executing", !.attempt = {a},
                            !.expiresAt = now + ExecutingTtl]
  <2>1. i \in DOMAIN SweptTransactions /\ t \in Records
    BY <1>5, SweptType DEF Consume
  <2>2. now + ExecutingTtl \in Nat
    BY BoundsAssumption DEF TypeOK
  <2>3. u \in Records
    BY <2>1, <2>2 DEF Records, NonTerminalPhases
  <2>4. transactions' = [SweptTransactions EXCEPT ![i] = u]
    BY <1>5 DEF Consume
  <2>5. /\ DOMAIN transactions' \subseteq 1 .. nextTx - 1
        /\ transactions' \in [DOMAIN transactions' -> Records]
    BY <2>1, <2>3, <2>4, SweptType
  <2> QED
    BY <1>5, <2>5, SweptType DEF Consume, TypeOK
<1>6. ASSUME NEW i \in DOMAIN transactions, NEW l \in Leases,
             NEW comp \in Compositions, NEW a \in Attempts,
             FailBeforeMutation(i, l, comp, a)
      PROVE  TypeOK'
  <2> DEFINE t == Finish(SweptTransactions[i], "failed",
                         "authorization_unavailable")
             u == [t EXCEPT !.attempt = {a}]
             g == [SweptTransactions EXCEPT ![i] = u]
             D == EvictCompletedForSession(g, DOMAIN g,
                                           {SweptTransactions[i].session}, {})
  <2>1. i \in DOMAIN SweptTransactions /\ t \in Records
    BY <1>6, SweptType, FinishType
       DEF FailBeforeMutation, CompletedPhases, FailureCodes
  <2>2. u \in Records
    BY <2>1 DEF Records
  <2>3. transactions' = [j \in D |-> g[j]]
    BY <1>6 DEF FailBeforeMutation, Restrict
  <2>4. D \subseteq DOMAIN g
    BY EvictionsOnlyDrop
  <2>5. g \in [DOMAIN SweptTransactions -> Records]
    BY <2>1, <2>2, SweptType
  <2>6. /\ DOMAIN transactions' \subseteq 1 .. nextTx - 1
        /\ transactions' \in [DOMAIN transactions' -> Records]
    <3> HIDE DEF g, D
    <3> QED
      BY <2>3, <2>4, <2>5, SweptType
  <2> QED
    BY <1>6, <2>6, SweptType DEF FailBeforeMutation, TypeOK
<1>7. ASSUME NEW i \in DOMAIN transactions, NEW r \in RequestIds,
             CompleteSuccess(i, r)
      PROVE  TypeOK'
  <2>1. i \in DOMAIN SweptTransactions
    BY <1>7 DEF CompleteSuccess, Completable
  <2>2. i \in TxIds /\ transactions[i].session \in Sessions
    <3>1. i \in 1 .. nextTx - 1 /\ nextTx \in 1 .. MaxTransactions + 1
      BY DEF TypeOK
    <3>2. transactions[i] \in Records
      BY DEF TypeOK
    <3> QED
      BY <3>1, <3>2, BoundsAssumption DEF TxIds, Records
  <2>3. /\ DOMAIN transactions' \subseteq 1 .. nextTx - 1
        /\ transactions' \in [DOMAIN transactions' -> Records]
    BY <1>7, <2>1, SweptType, FinishType, ConcludedType
       DEF CompleteSuccess, CompletedPhases
  <2>4. appliedLog' \in [Sessions -> Seq(TxIds)]
    BY <1>7, <2>2 DEF CompleteSuccess, TypeOK
  <2>5. PICK victims :
           activeBySession' = WithActive(transactions[i].session, i, victims)
    BY <1>7 DEF CompleteSuccess
  <2>6. /\ DOMAIN activeBySession' \subseteq Sessions
        /\ activeBySession' \in [DOMAIN activeBySession' -> Summaries]
    BY <2>2, <2>5 DEF WithActive, TypeOK, Summaries
  <2> QED
    BY <1>7, <2>3, <2>4, <2>6, SweptType DEF CompleteSuccess, TypeOK
<1>8. ASSUME NEW i \in DOMAIN transactions, NEW r \in RequestIds,
             CompleteFailed(i, r)
      PROVE  TypeOK'
  <2>1. i \in DOMAIN SweptTransactions
    BY <1>8 DEF CompleteFailed, Completable
  <2>2. /\ DOMAIN transactions' \subseteq 1 .. nextTx - 1
        /\ transactions' \in [DOMAIN transactions' -> Records]
    BY <1>8, <2>1, SweptType, FinishType, ConcludedType
       DEF CompleteFailed, CompletedPhases, FailureCodes
  <2> QED
    BY <1>8, <2>2, SweptType DEF CompleteFailed, TypeOK
<1>9. CASE UNCHANGED vars
  BY <1>9 DEF vars, TypeOK
<1> QED
  BY <1>1, <1>2, <1>3, <1>4, <1>5, <1>6, <1>7, <1>8, <1>9 DEF Next

(***************************************************************************)
(* Type correctness: the maps of the store only ever hold well-formed      *)
(* records, under ids that were issued.                                    *)
(***************************************************************************)
THEOREM TypeCorrect == Spec => []TypeOK
BY InitType, NextType, PTL DEF Spec

-----------------------------------------------------------------------------
(***************************************************************************)
(* What a step does to a record it keeps: nothing, or one move of the      *)
(* phase, for which the deadline of the old phase has not passed unless    *)
(* the record ends failed or superseded.                                   *)
(***************************************************************************)
SameIdentity(t, u) ==
    /\ u.session = t.session
    /\ u.lease = t.lease
    /\ u.clientRequest = t.clientRequest

Aborted(t, u) == IsNonTerminal(t) /\ u.phase \in {"failed", "superseded"}

Claimed(t, u) ==
    /\ t.phase = "pending"
    /\ u.phase = "executing"
    /\ now < t.expiresAt

Committed(t, u) ==
    /\ t.phase = "executing"
    /\ u.phase = "active"
    /\ now < t.expiresAt
    /\ u.attempt = t.attempt

RecordStep(t, u) ==
    /\ SameIdentity(t, u)
    /\ u = t \/ Aborted(t, u) \/ Claimed(t, u) \/ Committed(t, u)

(* What a step does to the set of records.                                 *)
TableStep ==
    /\ \A i \in DOMAIN transactions \cap DOMAIN transactions' :
          RecordStep(transactions[i], transactions'[i])
    /\ \A i \in DOMAIN transactions' \ DOMAIN transactions :
          /\ i = nextTx
          /\ nextTx' = nextTx + 1
          /\ transactions'[i].phase = "pending"
    /\ nextTx' >= nextTx

LEMMA FinishShape ==
    ASSUME NEW t \in Records, NEW phase, NEW code
    PROVE  /\ SameIdentity(t, Finish(t, phase, code))
           /\ Finish(t, phase, code).phase = phase
           /\ Finish(t, phase, code).attempt = t.attempt
BY DEF Finish, Records, SameIdentity

(* An open record the sweep keeps open is not overdue.                     *)
LEMMA ExpireShape ==
    ASSUME TypeOK, NEW t \in Records
    PROVE  /\ RecordStep(t, Expire(t))
           /\ Expire(t) = t \/ Aborted(t, Expire(t))
           /\ IsNonTerminal(Expire(t)) => Expire(t) = t /\ now < t.expiresAt
<1>1. CASE IsNonTerminal(t) /\ now >= t.expiresAt
  <2>1. PICK code : Expire(t) = Finish(t, "failed", code)
    BY <1>1 DEF Expire
  <2>2. SameIdentity(t, Expire(t)) /\ Expire(t).phase = "failed"
    BY <2>1, FinishShape
  <2> QED
    BY <1>1, <2>2 DEF RecordStep, Aborted, IsNonTerminal, NonTerminalPhases
<1>2. CASE ~(IsNonTerminal(t) /\ now >= t.expiresAt)
  <2>1. Expire(t) = t
    BY <1>2 DEF Expire
  <2>2. IsNonTerminal(t) => now < t.expiresAt
    BY <1>2 DEF TypeOK, Records
  <2> QED
    BY <2>1, <2>2 DEF RecordStep, SameIdentity
<1> QED
  BY <1>1, <1>2

LEMMA SweptShape ==
    ASSUME TypeOK, NEW i \in DOMAIN SweptTransactions
    PROVE  /\ i \in DOMAIN transactions
           /\ transactions[i] \in Records
           /\ SweptTransactions[i] \in Records
           /\ RecordStep(transactions[i], SweptTransactions[i])
           /\ IsNonTerminal(SweptTransactions[i]) =>
                 /\ SweptTransactions[i] = transactions[i]
                 /\ now < transactions[i].expiresAt
<1>1. i \in DOMAIN transactions /\ transactions[i] \in Records
  BY SweepOnlyExpiresAndDrops DEF TypeOK
<1>2. SweptTransactions[i] = Expire(transactions[i])
  BY SweepOnlyExpiresAndDrops
<1> QED
  BY <1>1, <1>2, ExpireShape, ExpireType

(* Ending an open record of the swept table.                               *)
LEMMA FinishStep ==
    ASSUME TypeOK, NEW i \in DOMAIN SweptTransactions,
           IsNonTerminal(SweptTransactions[i]),
           NEW phase \in {"failed", "superseded"}, NEW code
    PROVE  RecordStep(transactions[i],
                      Finish(SweptTransactions[i], phase, code))
BY SweptShape, FinishShape DEF RecordStep, Aborted

(* Concluding record i, where its own step is known.                       *)
LEMMA ConcludedStep ==
    ASSUME TypeOK, NEW i \in DOMAIN SweptTransactions, NEW u,
           RecordStep(transactions[i], u),
           transactions' = Concluded(SweptTransactions, i, u),
           nextTx' = nextTx
    PROVE  TableStep
<1>1. /\ DOMAIN transactions' \subseteq DOMAIN SweptTransactions
      /\ \A j \in DOMAIN transactions' :
            transactions'[j] = IF j = i THEN u ELSE SweptTransactions[j]
  BY ConcludedShape
<1>2. \A j \in DOMAIN transactions' :
          /\ j \in DOMAIN transactions
          /\ RecordStep(transactions[j], transactions'[j])
  BY <1>1, SweptShape
<1> QED
  BY <1>2 DEF TableStep, TypeOK

LEMMA NextTableStep ==
    ASSUME TypeOK, [Next]_vars
    PROVE  TableStep
<1>1. CASE UNCHANGED <<transactions, nextTx>>
  BY <1>1 DEF TableStep, RecordStep, SameIdentity, TypeOK
<1>2. CASE Sweep
  <2>1. \A j \in DOMAIN transactions' :
            /\ j \in DOMAIN transactions
            /\ RecordStep(transactions[j], transactions'[j])
    BY <1>2, SweptShape DEF Sweep
  <2> QED
    BY <1>2, <2>1 DEF TableStep, TypeOK, Sweep
<1>3. ASSUME NEW l \in Leases, NEW c \in ClientRequests,
             NEW comp \in Compositions, CreatePending(l, c, comp)
      PROVE  TableStep
  <2> DEFINE f == SweptTransactions
             current == CurrentOf(f, SessionOf[l])
  <2>1. nextTx' = nextTx + 1 /\ nextTx' >= nextTx
    BY <1>3 DEF CreatePending, TypeOK
  <2>2. \A i \in current : i \in DOMAIN f /\ IsNonTerminal(f[i])
    BY DEF CurrentOf, NonTerminal
  <2>3. nextTx \notin DOMAIN transactions
    BY DEF TypeOK
  <2>4. \A i \in DOMAIN transactions' \ {nextTx} :
            /\ i \in DOMAIN transactions
            /\ RecordStep(transactions[i], transactions'[i])
    <3> SUFFICES ASSUME NEW i \in DOMAIN transactions' \ {nextTx}
                 PROVE  /\ i \in DOMAIN transactions
                        /\ RecordStep(transactions[i], transactions'[i])
      OBVIOUS
    <3>1. i \in DOMAIN f
      BY <1>3, CreatePendingType
    <3>2. CASE i \in current
      BY <1>3, <2>2, <3>1, <3>2, CreatePendingType, SweptShape, FinishStep
    <3>3. CASE i \notin current
      BY <1>3, <3>1, <3>3, CreatePendingType, SweptShape
    <3> QED
      BY <3>2, <3>3
  <2>5. nextTx \in DOMAIN transactions' =>
           transactions'[nextTx].phase = "pending"
    BY <1>3, CreatePendingType DEF NewPending
  <2> QED
    BY <2>1, <2>3, <2>4, <2>5 DEF TableStep
<1>4. ASSUME NEW k \in Intents, CancelPendingByIntent(k)
      PROVE  TableStep
  <2>1. CASE transactions' = SweptTransactions
    <3>1. \A j \in DOMAIN transactions' :
              /\ j \in DOMAIN transactions
              /\ RecordStep(transactions[j], transactions'[j])
      BY <2>1, SweptShape
    <3> QED
      BY <1>4, <3>1 DEF TableStep, TypeOK, CancelPendingByIntent
  <2>2. ASSUME NEW i \in DOMAIN SweptTransactions,
               SweptTransactions[i].phase = "pending",
               transactions' =
                 Concluded(SweptTransactions, i,
                           Finish(SweptTransactions[i], "failed",
                                  "preauthorization_cancelled"))
        PROVE  TableStep
    <3>1. RecordStep(transactions[i],
                     Finish(SweptTransactions[i], "failed",
                            "preauthorization_cancelled"))
      BY <2>2, FinishStep DEF IsNonTerminal, NonTerminalPhases
    <3> QED
      BY <1>4, <2>2, <3>1, ConcludedStep DEF CancelPendingByIntent
  <2> QED
    BY <1>4, <2>1, <2>2 DEF CancelPendingByIntent
<1>5. ASSUME NEW i \in DOMAIN transactions, NEW l \in Leases,
             NEW comp \in Compositions, NEW a \in Attempts,
             Consume(i, l, comp, a)
      PROVE  TableStep
  <2> DEFINE u == [SweptTransactions[i] EXCEPT
                     !.phase = "executing", !.attempt = {a},
                     !.expiresAt = now + ExecutingTtl]
  <2>1. /\ i \in DOMAIN SweptTransactions
        /\ SweptTransactions[i].phase = "pending"
        /\ transactions' = [SweptTransactions EXCEPT ![i] = u]
        /\ nextTx' = nextTx
    BY <1>5 DEF Consume
  <2>2. SweptTransactions[i] = transactions[i] /\ now < transactions[i].expiresAt
    BY <2>1, SweptShape DEF IsNonTerminal, NonTerminalPhases
  <2>3. RecordStep(transactions[i], u)
    BY <2>1, <2>2, SweptShape DEF RecordStep, SameIdentity, Claimed, Records
  <2>4. \A j \in DOMAIN transactions' :
            /\ j \in DOMAIN transactions
            /\ RecordStep(transactions[j], transactions'[j])
    BY <2>1, <2>3, SweptShape
  <2> QED
    BY <2>1, <2>4 DEF TableStep, TypeOK
<1>6. ASSUME NEW i \in DOMAIN transactions, NEW l \in Leases,
             NEW comp \in Compositions, NEW a \in Attempts,
             FailBeforeMutation(i, l, comp, a)
      PROVE  TableStep
  <2> DEFINE t == Finish(SweptTransactions[i], "failed",
                         "authorization_unavailable")
             u == [t EXCEPT !.attempt = {a}]
             g == [SweptTransactions EXCEPT ![i] = u]
             D == EvictCompletedForSession(g, DOMAIN g,
                                           {SweptTransactions[i].session}, {})
  <2>1. /\ i \in DOMAIN SweptTransactions
        /\ IsNonTerminal(SweptTransactions[i])
        /\ nextTx' = nextTx
    BY <1>6 DEF FailBeforeMutation, Abortable, IsNonTerminal,
                NonTerminalPhases
  <2>2. RecordStep(transactions[i], u)
    <3>1. SweptTransactions[i] = transactions[i] /\ transactions[i] \in Records
      BY <2>1, SweptShape
    <3>2. SameIdentity(transactions[i], u) /\ u.phase = "failed"
      BY <3>1 DEF Finish, Records, SameIdentity
    <3> QED
      BY <2>1, <3>1, <3>2 DEF RecordStep, Aborted
  <2>3. transactions' = [j \in D |-> g[j]] /\ D \subseteq DOMAIN g
    BY <1>6, EvictionsOnlyDrop DEF FailBeforeMutation, Restrict
  <2>4. \A j \in DOMAIN SweptTransactions :
            /\ j \in DOMAIN transactions
            /\ RecordStep(transactions[j], g[j])
    BY <2>1, <2>2, SweptShape
  <2>5. \A j \in DOMAIN transactions' :
            /\ j \in DOMAIN transactions
            /\ RecordStep(transactions[j], transactions'[j])
    <3>1. DOMAIN g = DOMAIN SweptTransactions
      OBVIOUS
    <3> HIDE DEF g, D
    <3> QED
      BY <2>3, <2>4, <3>1
  <2> QED
    BY <2>1, <2>5 DEF TableStep, TypeOK
<1>7. ASSUME NEW i \in DOMAIN transactions, NEW r \in RequestIds,
             CompleteSuccess(i, r)
      PROVE  TableStep
  <2> DEFINE u == Finish(SweptTransactions[i], "active", "none")
  <2>1. /\ i \in DOMAIN SweptTransactions
        /\ SweptTransactions[i].phase = "executing"
        /\ transactions' = Concluded(SweptTransactions, i, u)
        /\ nextTx' = nextTx
    BY <1>7 DEF CompleteSuccess, Completable
  <2>2. /\ SweptTransactions[i] = transactions[i]
        /\ now < transactions[i].expiresAt
        /\ transactions[i] \in Records
    BY <2>1, SweptShape DEF IsNonTerminal, NonTerminalPhases
  <2>3. RecordStep(transactions[i], u)
    BY <2>1, <2>2, FinishShape DEF RecordStep, Committed
  <2> QED
    BY <2>1, <2>3, ConcludedStep
<1>8. ASSUME NEW i \in DOMAIN transactions, NEW r \in RequestIds,
             CompleteFailed(i, r)
      PROVE  TableStep
  <2>1. /\ i \in DOMAIN SweptTransactions
        /\ IsNonTerminal(SweptTransactions[i])
        /\ nextTx' = nextTx
    BY <1>8 DEF CompleteFailed, Completable, IsNonTerminal,
                NonTerminalPhases
  <2> QED
    BY <1>8, <2>1, FinishStep, ConcludedStep DEF CompleteFailed
<1>9. CASE Tick \/ UNCHANGED vars
  BY <1>1, <1>9 DEF Tick, vars
<1> QED
  BY <1>2, <1>3, <1>4, <1>5, <1>6, <1>7, <1>8, <1>9 DEF Next

(***************************************************************************)
(* Deadlines: an authorization is claimed only before its pending deadline *)
(* and committed only before its executing deadline.                       *)
(***************************************************************************)
THEOREM DeadlinesAlwaysHold == Spec => DeadlinesHold
<1>1. ASSUME TypeOK, [Next]_vars
      PROVE  [\A i \in DOMAIN transactions \cap DOMAIN transactions' :
                /\ transactions'[i].phase # transactions[i].phase
                /\ transactions'[i].phase \in {"executing", "active"}
                => /\ now < transactions[i].expiresAt
                   /\ transactions[i].phase = "executing" =>
                         transactions'[i].attempt = transactions[i].attempt]_vars
  BY <1>1, NextTableStep
     DEF TableStep, RecordStep, Aborted, Claimed, Committed
<1> QED
  BY <1>1, TypeCorrect, PTL DEF Spec, DeadlinesHold

(***************************************************************************)
(* A record only moves forward, is final once it is completed, and its id  *)
(* is never used again.                                                    *)
(***************************************************************************)
THEOREM AlwaysForward == Spec => ForwardOnly
<1>1. ASSUME TypeOK, [Next]_vars
      PROVE  [/\ \A i \in DOMAIN transactions' :
                    i \in DOMAIN transactions \/ i >= nextTx
              /\ \A i \in DOMAIN transactions \cap DOMAIN transactions' :
                    /\ IsCompleted(transactions[i]) =>
                          transactions'[i] = transactions[i]
                    /\ transactions[i].phase = "executing" =>
                          transactions'[i].phase # "pending"]_vars
  BY <1>1, NextTableStep
     DEF TableStep, RecordStep, Aborted, Claimed, Committed, IsCompleted,
         IsNonTerminal, CompletedPhases, NonTerminalPhases, TypeOK
<1> QED
  BY <1>1, TypeCorrect, PTL DEF Spec, ForwardOnly

-----------------------------------------------------------------------------
(***************************************************************************)
(* The inductive invariant.  Both fences rest on the record's session      *)
(* being the lease's: only then is the one open record of a session the    *)
(* one open record of an intent.                                           *)
(***************************************************************************)
SessionIsOfLease ==
    \A i \in DOMAIN transactions :
        transactions[i].session = SessionOf[transactions[i].lease]

OpenInv ==
    /\ TypeOK
    /\ SessionIsOfLease
    /\ OneOpenTransactionPerSession
    /\ TombstoneFencesPending

(* Ids are given to preauthorizations only.                                *)
LEMMA IdsOfPreauthorizations ==
    ASSUME [Next]_vars, nextTx' # nextTx
    PROVE  \E l \in Leases, c \in ClientRequests, comp \in Compositions :
              CreatePending(l, c, comp)
<1>1. ~(Tick \/ Sweep \/ UNCHANGED vars)
  BY DEF Tick, Sweep, vars
<1>2. \A k : ~CancelPendingByIntent(k)
  BY DEF CancelPendingByIntent
<1>3. \A i, l, comp, a : ~Consume(i, l, comp, a)
  BY DEF Consume
<1>4. \A i, l, comp, a : ~FailBeforeMutation(i, l, comp, a)
  BY DEF FailBeforeMutation
<1>5. \A i, r : ~CompleteSuccess(i, r)
  BY DEF CompleteSuccess
<1>6. \A i, r : ~CompleteFailed(i, r)
  BY DEF CompleteFailed
<1> QED
  BY <1>1, <1>2, <1>3, <1>4, <1>5, <1>6 DEF Next

(* Every other step sweeps the tombstones or leaves them alone.            *)
LEMMA TombstoneStep ==
    ASSUME [Next]_vars, ~ \E k \in Intents : CancelPendingByIntent(k)
    PROVE  /\ tombstones' = SweptTombstones \/ tombstones' = tombstones
           /\ cancelReply' = cancelReply
           /\ now' = now \/ now' = now + 1
<1> DEFINE G == /\ tombstones' = SweptTombstones \/ tombstones' = tombstones
                /\ cancelReply' = cancelReply
                /\ now' = now \/ now' = now + 1
<1>1. Tick \/ Sweep \/ UNCHANGED vars => G
  BY DEF Tick, Sweep, vars
<1>2. \A l, c, comp : CreatePending(l, c, comp) => G
  BY DEF CreatePending
<1>3. \A i, l, comp, a : Consume(i, l, comp, a) => G
  BY DEF Consume
<1>4. \A i, l, comp, a : FailBeforeMutation(i, l, comp, a) => G
  BY DEF FailBeforeMutation
<1>5. \A i, r : CompleteSuccess(i, r) => G
  BY DEF CompleteSuccess
<1>6. \A i, r : CompleteFailed(i, r) => G
  BY DEF CompleteFailed
<1> HIDE DEF G
<1>7. G
  BY <1>1, <1>2, <1>3, <1>4, <1>5, <1>6 DEF Next
<1> QED
  BY <1>7 DEF G

(* A new record belongs to the session of the lease that asked for it, and *)
(* its intent has no tombstone.                                            *)
LEMMA NewRecordShape ==
    ASSUME TypeOK, [Next]_vars,
           NEW i \in DOMAIN transactions' \ DOMAIN transactions
    PROVE  \E l \in Leases, c \in ClientRequests, comp \in Compositions :
              /\ CreatePending(l, c, comp)
              /\ i = nextTx
              /\ transactions'[i] = NewPending(l, c, comp)
<1>1. i = nextTx /\ nextTx' = nextTx + 1
  BY NextTableStep DEF TableStep
<1>2. nextTx' # nextTx
  BY <1>1 DEF TypeOK
<1>3. PICK l \in Leases, c \in ClientRequests, comp \in Compositions :
         CreatePending(l, c, comp)
  BY <1>2, IdsOfPreauthorizations
<1>4. transactions'[i] = NewPending(l, c, comp)
  BY <1>1, <1>3, CreatePendingType
<1> QED
  BY <1>1, <1>3, <1>4

LEMMA NextSessionIsOfLease ==
    ASSUME TypeOK, SessionIsOfLease, [Next]_vars
    PROVE  SessionIsOfLease'
<1> SUFFICES ASSUME NEW i \in DOMAIN transactions'
             PROVE  transactions'[i].session = SessionOf[transactions'[i].lease]
  BY DEF SessionIsOfLease
<1>1. CASE i \in DOMAIN transactions
  BY <1>1, NextTableStep
     DEF TableStep, RecordStep, SameIdentity, SessionIsOfLease
<1>2. CASE i \notin DOMAIN transactions
  BY <1>2, NewRecordShape DEF NewPending
<1> QED
  BY <1>1, <1>2

(* A record that is open after a step was open before it, or is new.       *)
LEMMA StaysOpen ==
    ASSUME TypeOK, [Next]_vars,
           NEW i \in DOMAIN transactions \cap DOMAIN transactions',
           IsNonTerminal(transactions'[i])
    PROVE  IsNonTerminal(transactions[i])
BY NextTableStep
   DEF TableStep, RecordStep, Aborted, Claimed, Committed, IsNonTerminal,
       NonTerminalPhases

(* The preauthorization of a session closes the one that was open.         *)
LEMMA NewRecordSupersedes ==
    ASSUME OpenInv, NEW l \in Leases, NEW c \in ClientRequests,
           NEW comp \in Compositions, CreatePending(l, c, comp),
           NEW j \in DOMAIN transactions', j # nextTx,
           transactions'[j].session = SessionOf[l]
    PROVE  ~IsNonTerminal(transactions'[j])
<1> DEFINE f == SweptTransactions
           current == CurrentOf(f, SessionOf[l])
<1>1. /\ j \in DOMAIN f
      /\ transactions'[j] =
            IF j \in current
            THEN Finish(f[j], "superseded", "superseded_by_new_pending")
            ELSE f[j]
  BY CreatePendingType DEF OpenInv
<1>2. CASE j \in current
  BY <1>1, <1>2, SweptShape, FinishShape
     DEF OpenInv, IsNonTerminal, NonTerminalPhases
<1>3. CASE j \notin current /\ IsNonTerminal(f[j])
  <2>1. f[j].session = SessionOf[l]
    BY <1>1, <1>3
  <2>2. \A i \in NonTerminal(f) : f[i].session = SessionOf[l] => i = j
    <3> SUFFICES ASSUME NEW i \in NonTerminal(f), f[i].session = SessionOf[l]
                 PROVE  i = j
      OBVIOUS
    <3>1. i \in NonTerminal(transactions) /\ f[i] = transactions[i]
      BY SweptShape DEF OpenInv, NonTerminal
    <3>2. j \in NonTerminal(transactions) /\ f[j] = transactions[j]
      BY <1>1, <1>3, SweptShape DEF OpenInv, NonTerminal
    <3> QED
      BY <2>1, <3>1, <3>2 DEF OpenInv, OneOpenTransactionPerSession
  <2>3. j \in Nat
    BY <1>1, SweptType DEF OpenInv, TypeOK
  <2>4. j \in current
    BY <1>1, <1>3, <2>1, <2>2, <2>3 DEF CurrentOf, NonTerminal
  <2> QED
    BY <1>3, <2>4
<1> QED
  BY <1>1, <1>2, <1>3

LEMMA NextOneOpen ==
    ASSUME OpenInv, [Next]_vars
    PROVE  OneOpenTransactionPerSession'
<1> SUFFICES ASSUME NEW i \in NonTerminal(transactions'),
                    NEW j \in NonTerminal(transactions'),
                    transactions'[i].session = transactions'[j].session
             PROVE  i = j
  BY DEF OneOpenTransactionPerSession, NonTerminal
<1>1. /\ i \in DOMAIN transactions' /\ IsNonTerminal(transactions'[i])
      /\ j \in DOMAIN transactions' /\ IsNonTerminal(transactions'[j])
  BY DEF NonTerminal
<1>2. ASSUME NEW n \in DOMAIN transactions' \ DOMAIN transactions,
             NEW m \in DOMAIN transactions', m # n,
             transactions'[m].session = transactions'[n].session
      PROVE  ~IsNonTerminal(transactions'[m])
  <2>1. PICK l \in Leases, c \in ClientRequests, comp \in Compositions :
           /\ CreatePending(l, c, comp)
           /\ n = nextTx
           /\ transactions'[n] = NewPending(l, c, comp)
    BY <1>2, NewRecordShape DEF OpenInv
  <2> QED
    BY <1>2, <2>1, NewRecordSupersedes DEF NewPending
<1>3. CASE i \in DOMAIN transactions /\ j \in DOMAIN transactions
  <2>1. /\ i \in NonTerminal(transactions)
        /\ j \in NonTerminal(transactions)
    BY <1>1, <1>3, StaysOpen DEF OpenInv, NonTerminal
  <2>2. transactions[i].session = transactions[j].session
    BY <1>1, <1>3, NextTableStep
       DEF OpenInv, TableStep, RecordStep, SameIdentity
  <2> QED
    BY <2>1, <2>2 DEF OpenInv, OneOpenTransactionPerSession
<1>4. CASE i \notin DOMAIN transactions
  BY <1>1, <1>2, <1>4
<1>5. CASE j \notin DOMAIN transactions
  BY <1>1, <1>2, <1>5
<1> QED
  BY <1>3, <1>4, <1>5

(* What a step adds to the tombstones is fenced by the step itself.        *)
LEMMA CancelFences ==
    ASSUME OpenInv, NEW k \in Intents, CancelPendingByIntent(k),
           NEW i \in DOMAIN transactions', transactions'[i].phase = "pending"
    PROVE  IntentOf(transactions'[i]) # k
<1> DEFINE f == SweptTransactions
<1> SUFFICES ASSUME IntentOf(transactions'[i]) = k PROVE FALSE
  OBVIOUS
<1>1. ASSUME NEW n \in DOMAIN f, NEW m \in DOMAIN f,
             f[n].phase = "pending", f[m].phase = "pending",
             IntentOf(f[n]) = k, IntentOf(f[m]) = k
      PROVE  n = m
  <2>1. /\ n \in NonTerminal(transactions) /\ f[n] = transactions[n]
        /\ m \in NonTerminal(transactions) /\ f[m] = transactions[m]
    BY <1>1, SweptShape
       DEF OpenInv, NonTerminal, IsNonTerminal, NonTerminalPhases
  <2>2. transactions[n].lease = transactions[m].lease
    BY <1>1, <2>1 DEF IntentOf
  <2>3. transactions[n].session = transactions[m].session
    BY <2>1, <2>2 DEF OpenInv, SessionIsOfLease, NonTerminal
  <2> QED
    BY <2>1, <2>3 DEF OpenInv, OneOpenTransactionPerSession
<1>2. CASE transactions' = f /\
           {n \in {m \in DOMAIN f : IntentOf(f[m]) = k} :
              f[n].phase = "pending"} = {}
  BY <1>2
<1>3. ASSUME NEW n \in DOMAIN f, IntentOf(f[n]) = k, f[n].phase = "pending",
             transactions' = Concluded(f, n,
                Finish(f[n], "failed", "preauthorization_cancelled"))
      PROVE  FALSE
  <2>1. /\ i \in DOMAIN f
        /\ transactions'[i] =
              IF i = n THEN Finish(f[n], "failed",
                                   "preauthorization_cancelled")
              ELSE f[i]
    BY <1>3, ConcludedShape
  <2>2. CASE i = n
    BY <2>1, <2>2, <1>3, SweptShape, FinishShape DEF OpenInv
  <2>3. CASE i # n
    BY <1>1, <1>3, <2>1, <2>3
  <2> QED
    BY <2>2, <2>3
<1> QED
  BY <1>2, <1>3 DEF CancelPendingByIntent

LEMMA NextTombstoneFences ==
    ASSUME OpenInv, [Next]_vars
    PROVE  TombstoneFencesPending'
<1> SUFFICES ASSUME NEW i \in DOMAIN transactions',
                    transactions'[i].phase = "pending",
                    IntentOf(transactions'[i]) \in DOMAIN tombstones'
             PROVE  FALSE
  BY DEF TombstoneFencesPending
<1> USE DEF OpenInv
<1>1. DOMAIN tombstones' \subseteq DOMAIN tombstones \/
      \E k \in Intents : /\ CancelPendingByIntent(k)
                         /\ DOMAIN tombstones' \subseteq DOMAIN tombstones \cup {k}
  <2>1. ASSUME NEW k \in Intents, CancelPendingByIntent(k)
        PROVE  DOMAIN tombstones' \subseteq DOMAIN tombstones \cup {k}
    BY <2>1, SweptType DEF CancelPendingByIntent, WithTombstone
  <2>2. CASE tombstones' = SweptTombstones \/ tombstones' = tombstones
    BY <2>2, SweptType
  <2> QED
    BY <2>1, <2>2, TombstoneStep
<1>2. CASE i \in DOMAIN transactions
  <2>1. /\ transactions[i].phase = "pending"
        /\ IntentOf(transactions[i]) = IntentOf(transactions'[i])
    BY <1>2, NextTableStep
       DEF TableStep, RecordStep, SameIdentity, Aborted, Claimed, Committed,
           IntentOf
  <2>2. IntentOf(transactions'[i]) \notin DOMAIN tombstones
    BY <1>2, <2>1 DEF TombstoneFencesPending
  <2> QED
    BY <1>1, <2>2, CancelFences
<1>3. CASE i \notin DOMAIN transactions
  <2>1. PICK l \in Leases, c \in ClientRequests, comp \in Compositions :
           /\ CreatePending(l, c, comp)
           /\ transactions'[i] = NewPending(l, c, comp)
    BY <1>3, NewRecordShape
  <2>2. IntentOf(transactions'[i]) = <<l, c>>
    BY <2>1 DEF NewPending, IntentOf
  <2> QED
    BY <2>1, <2>2 DEF CreatePending, Fenced
<1> QED
  BY <1>2, <1>3

LEMMA OpenInvInductive ==
    /\ Init => OpenInv
    /\ OpenInv /\ [Next]_vars => OpenInv'
<1>1. Init => OpenInv
  BY InitType DEF OpenInv, Init, SessionIsOfLease, TombstoneFencesPending,
                  OneOpenTransactionPerSession, NonTerminal
<1>2. OpenInv /\ [Next]_vars => OpenInv'
  BY NextType, NextSessionIsOfLease, NextOneOpen, NextTombstoneFences
     DEF OpenInv
<1> QED
  BY <1>1, <1>2

(***************************************************************************)
(* At most one stage load of a session is ever in preparation or in        *)
(* execution, whatever the limits and the number of viewers.               *)
(***************************************************************************)
THEOREM OneOpen == Spec => []OneOpenTransactionPerSession
<1>1. OpenInv => OneOpenTransactionPerSession
  BY DEF OpenInv
<1> QED
  BY <1>1, OpenInvInductive, PTL DEF Spec

(***************************************************************************)
(* A cancellation that is remembered fences its preauthorization, in       *)
(* whichever order the two arrive.                                         *)
(***************************************************************************)
THEOREM TombstonesFence == Spec => []TombstoneFencesPending
<1>1. OpenInv => TombstoneFencesPending
  BY DEF OpenInv
<1> QED
  BY <1>1, OpenInvInductive, PTL DEF Spec

-----------------------------------------------------------------------------
(***************************************************************************)
(* A binding in an event log was issued, and if its record is still there  *)
(* the record is active: a committed binding cannot be committed again,    *)
(* since only an executing record can, nor after its record was evicted,   *)
(* since the id is not issued again.                                       *)
(***************************************************************************)
LoggedAreCommitted ==
    \A s \in Sessions : \A n \in 1 .. Len(appliedLog[s]) :
        /\ appliedLog[s][n] < nextTx
        /\ appliedLog[s][n] \in DOMAIN transactions =>
              transactions[appliedLog[s][n]].phase = "active"

LogInv ==
    /\ TypeOK
    /\ LoggedAreCommitted
    /\ AppliedOnce
    /\ ActiveIsLastApplied

(* The step that commits record i.                                         *)
Commits(i, s) ==
    /\ i \in DOMAIN transactions
    /\ transactions[i].phase = "executing"
    /\ transactions[i].session = s
    /\ i \in DOMAIN transactions' => transactions'[i].phase = "active"
    /\ nextTx' = nextTx
    /\ appliedLog' = [appliedLog EXCEPT ![s] = Append(@, i)]
    /\ \E victims : activeBySession' = WithActive(s, i, victims)

LEMMA LogStep ==
    ASSUME TypeOK, [Next]_vars
    PROVE  \/ UNCHANGED <<appliedLog, activeBySession>>
           \/ \E i \in DOMAIN transactions, s \in Sessions : Commits(i, s)
<1>1. ASSUME NEW i \in DOMAIN transactions, NEW r \in RequestIds,
             CompleteSuccess(i, r)
      PROVE  Commits(i, transactions[i].session)
  <2>1. /\ i \in DOMAIN SweptTransactions
        /\ SweptTransactions[i].phase = "executing"
    BY <1>1 DEF CompleteSuccess, Completable
  <2>2. transactions[i].phase = "executing"
    BY <2>1, SweptShape DEF IsNonTerminal, NonTerminalPhases
  <2>3. i \in DOMAIN transactions' => transactions'[i].phase = "active"
    <3>1. transactions[i] \in Records /\ SweptTransactions[i] \in Records
      BY <2>1, SweptShape
    <3> QED
      BY <1>1, <2>1, <3>1, ConcludedShape, FinishShape DEF CompleteSuccess
  <2> QED
    BY <1>1, <2>2, <2>3 DEF CompleteSuccess, Commits
<1>2. \A i \in DOMAIN transactions : transactions[i].session \in Sessions
  BY DEF TypeOK, Records
<1> DEFINE Same == UNCHANGED <<appliedLog, activeBySession>>
<1>3. CASE Tick \/ Sweep \/ UNCHANGED vars
  BY <1>3 DEF Tick, Sweep, vars
<1>4. ASSUME NEW l \in Leases, NEW c \in ClientRequests,
             NEW comp \in Compositions, CreatePending(l, c, comp)
      PROVE  Same
  BY <1>4 DEF CreatePending
<1>5. ASSUME NEW k \in Intents, CancelPendingByIntent(k)
      PROVE  Same
  BY <1>5 DEF CancelPendingByIntent
<1>6. ASSUME NEW i \in DOMAIN transactions, NEW l \in Leases,
             NEW comp \in Compositions, NEW a \in Attempts,
             Consume(i, l, comp, a) \/ FailBeforeMutation(i, l, comp, a)
      PROVE  Same
  BY <1>6 DEF Consume, FailBeforeMutation
<1>7. ASSUME NEW i \in DOMAIN transactions, NEW r \in RequestIds,
             CompleteFailed(i, r)
      PROVE  Same
  BY <1>7 DEF CompleteFailed
<1> QED
  BY <1>1, <1>2, <1>3, <1>4, <1>5, <1>6, <1>7 DEF Next

(* The log after a commit: the old one and, at its end, i.                 *)
LEMMA CommittedLog ==
    ASSUME TypeOK, NEW i \in DOMAIN transactions, NEW s \in Sessions,
           Commits(i, s)
    PROVE  /\ \A x \in Sessions \ {s} : appliedLog'[x] = appliedLog[x]
           /\ Len(appliedLog'[s]) = Len(appliedLog[s]) + 1
           /\ \A n \in 1 .. Len(appliedLog[s]) :
                 appliedLog'[s][n] = appliedLog[s][n]
           /\ appliedLog'[s][Len(appliedLog[s]) + 1] = i
           /\ Len(appliedLog[s]) \in Nat
<1>1. appliedLog[s] \in Seq(TxIds) /\ i \in TxIds
  BY BoundsAssumption DEF TypeOK, TxIds
<1>2. appliedLog'[s] = Append(appliedLog[s], i)
  BY DEF Commits, TypeOK
<1>3. \A x \in Sessions \ {s} : appliedLog'[x] = appliedLog[x]
  BY DEF Commits, TypeOK
<1> QED
  BY <1>1, <1>2, <1>3

LEMMA NextLoggedAreCommitted ==
    ASSUME LogInv, [Next]_vars
    PROVE  LoggedAreCommitted'
<1> USE DEF LogInv
<1>1. ASSUME NEW x \in Sessions, NEW n \in 1 .. Len(appliedLog[x])
      PROVE  /\ appliedLog[x][n] < nextTx'
             /\ appliedLog[x][n] \in DOMAIN transactions' =>
                   transactions'[appliedLog[x][n]].phase = "active"
  <2> DEFINE b == appliedLog[x][n]
  <2>1. /\ b < nextTx
        /\ b \in DOMAIN transactions => transactions[b].phase = "active"
    BY <1>1 DEF LoggedAreCommitted
  <2>2. b \in TxIds
    BY <1>1 DEF TypeOK
  <2>3. b < nextTx'
    <3>1. TypeOK /\ TypeOK'
      BY NextType
    <3>2. nextTx \in Nat /\ nextTx' \in Nat
      BY <3>1 DEF TypeOK
    <3>3. nextTx' >= nextTx
      BY NextTableStep DEF TableStep
    <3> QED
      BY <2>1, <2>2, <3>2, <3>3 DEF TxIds
  <2>4. ASSUME b \in DOMAIN transactions'
        PROVE  transactions'[b].phase = "active"
    <3>1. b # nextTx
      BY <2>1, <2>2 DEF TypeOK, TxIds
    <3>2. b \in DOMAIN transactions
      BY <2>4, <3>1, NextTableStep DEF TableStep
    <3> QED
      BY <2>1, <2>4, <3>2, NextTableStep
         DEF TableStep, RecordStep, Aborted, Claimed, Committed,
             IsNonTerminal, NonTerminalPhases
  <2> QED
    BY <2>3, <2>4
<1>2. CASE appliedLog' = appliedLog
  BY <1>1, <1>2 DEF LoggedAreCommitted
<1>3. ASSUME NEW i \in DOMAIN transactions, NEW s \in Sessions, Commits(i, s)
      PROVE  LoggedAreCommitted'
  <2>1. i < nextTx' /\ (i \in DOMAIN transactions' =>
                          transactions'[i].phase = "active")
    BY <1>3 DEF Commits, TypeOK
  <2> SUFFICES ASSUME NEW x \in Sessions, NEW n \in 1 .. Len(appliedLog'[x])
               PROVE  /\ appliedLog'[x][n] < nextTx'
                      /\ appliedLog'[x][n] \in DOMAIN transactions' =>
                            transactions'[appliedLog'[x][n]].phase = "active"
    BY DEF LoggedAreCommitted
  <2>2. CASE x # s
    BY <1>1, <1>3, <2>2, CommittedLog
  <2>3. CASE x = s /\ n \in 1 .. Len(appliedLog[s])
    BY <1>1, <1>3, <2>3, CommittedLog
  <2>4. CASE x = s /\ n = Len(appliedLog[s]) + 1
    BY <1>3, <2>1, <2>4, CommittedLog
  <2> QED
    BY <1>3, <2>2, <2>3, <2>4, CommittedLog
<1> QED
  BY <1>2, <1>3, LogStep

LEMMA NextAppliedOnce ==
    ASSUME LogInv, [Next]_vars
    PROVE  AppliedOnce'
<1> USE DEF LogInv
<1>1. CASE appliedLog' = appliedLog
  BY <1>1 DEF AppliedOnce
<1>2. ASSUME NEW i \in DOMAIN transactions, NEW s \in Sessions, Commits(i, s)
      PROVE  AppliedOnce'
  <2>1. ASSUME NEW x \in Sessions, NEW n \in 1 .. Len(appliedLog[x])
        PROVE  appliedLog[x][n] # i
    BY <1>2, <2>1 DEF Commits, LoggedAreCommitted
  <2> DEFINE top == Len(appliedLog[s]) + 1
  <2>2. ASSUME NEW x \in Sessions, NEW n \in 1 .. Len(appliedLog'[x])
        PROVE  \/ /\ n \in 1 .. Len(appliedLog[x])
                  /\ appliedLog'[x][n] = appliedLog[x][n]
               \/ x = s /\ n = top /\ appliedLog'[x][n] = i
    BY <1>2, <2>2, CommittedLog
  <2> SUFFICES ASSUME NEW x \in Sessions, NEW y \in Sessions,
                      NEW m \in 1 .. Len(appliedLog'[x]),
                      NEW n \in 1 .. Len(appliedLog'[y]),
                      appliedLog'[x][m] = appliedLog'[y][n]
               PROVE  x = y /\ m = n
    BY DEF AppliedOnce
  <2> HIDE DEF top
  <2> QED
    BY <2>1, <2>2 DEF AppliedOnce
<1> QED
  BY <1>1, <1>2, LogStep

LEMMA NextActiveIsLastApplied ==
    ASSUME LogInv, [Next]_vars
    PROVE  ActiveIsLastApplied'
<1> USE DEF LogInv
<1>1. CASE UNCHANGED <<appliedLog, activeBySession>>
  BY <1>1 DEF ActiveIsLastApplied
<1>2. ASSUME NEW i \in DOMAIN transactions, NEW s \in Sessions, Commits(i, s)
      PROVE  ActiveIsLastApplied'
  <2>1. PICK victims : activeBySession' = WithActive(s, i, victims)
    BY <1>2 DEF Commits
  <2> SUFFICES ASSUME NEW x \in DOMAIN activeBySession'
               PROVE  LET log == appliedLog'[x]
                          summary == activeBySession'[x]
                      IN  /\ Len(log) > 0
                          /\ summary.active = log[Len(log)]
                          /\ summary.lastGood # NoBinding =>
                                /\ Len(log) > 1
                                /\ summary.lastGood = log[Len(log) - 1]
    BY DEF ActiveIsLastApplied
  <2>2. CASE x # s
    <3>1. x \in DOMAIN activeBySession /\ activeBySession'[x] = activeBySession[x]
      BY <2>1, <2>2 DEF WithActive
    <3>2. x \in Sessions \ {s}
      BY <2>2, <3>1 DEF TypeOK
    <3>3. appliedLog'[x] = appliedLog[x]
      BY <1>2, <3>2, CommittedLog
    <3> QED
      BY <3>1, <3>3 DEF ActiveIsLastApplied
  <2>3. CASE x = s
    <3> DEFINE log == appliedLog[s]
               lastGood == IF s \in DOMAIN activeBySession
                           THEN activeBySession[s].active ELSE NoBinding
    <3>1. /\ Len(appliedLog'[s]) = Len(log) + 1
          /\ appliedLog'[s][Len(log) + 1] = i
          /\ Len(log) \in Nat
          /\ \A n \in 1 .. Len(log) : appliedLog'[s][n] = log[n]
      BY <1>2, CommittedLog
    <3>2. activeBySession'[x] = [active |-> i, lastGood |-> lastGood,
                                 updatedAt |-> now]
      BY <2>1, <2>3 DEF WithActive
    <3>3. lastGood # NoBinding => Len(log) > 0 /\ lastGood = log[Len(log)]
      BY DEF ActiveIsLastApplied
    <3> HIDE DEF lastGood, log
    <3> QED
      BY <2>3, <3>1, <3>2, <3>3
  <2> QED
    BY <2>2, <2>3
<1> QED
  BY <1>1, <1>2, LogStep

LEMMA LogInvInductive ==
    /\ Init => LogInv
    /\ LogInv /\ [Next]_vars => LogInv'
<1>1. Init => LogInv
  <2> SUFFICES ASSUME Init PROVE LogInv
    OBVIOUS
  <2>1. \A s \in Sessions : appliedLog[s] = <<>> /\ Len(appliedLog[s]) = 0
    BY DEF Init
  <2> QED
    BY <2>1, InitType
       DEF Init, LogInv, LoggedAreCommitted, AppliedOnce, ActiveIsLastApplied
<1>2. LogInv /\ [Next]_vars => LogInv'
  BY NextType, NextLoggedAreCommitted, NextAppliedOnce,
     NextActiveIsLastApplied DEF LogInv
<1> QED
  BY <1>1, <1>2

(***************************************************************************)
(* No binding is applied twice, also when its record was evicted.          *)
(***************************************************************************)
THEOREM AppliedAtMostOnce == Spec => []AppliedOnce
<1>1. LogInv => AppliedOnce
  BY DEF LogInv
<1> QED
  BY <1>1, LogInvInductive, PTL DEF Spec

(***************************************************************************)
(* The binding a session reports as active is the last its log applied.    *)
(***************************************************************************)
THEOREM ActiveAlwaysLastApplied == Spec => []ActiveIsLastApplied
<1>1. LogInv => ActiveIsLastApplied
  BY DEF LogInv
<1> QED
  BY <1>1, LogInvInductive, PTL DEF Spec

-----------------------------------------------------------------------------
(***************************************************************************)
(* Only a claim starts a load: after any other operation a record that is  *)
(* executing is one that was, as it was.                                   *)
(***************************************************************************)
LoadsOnlyEnd ==
    \A j \in DOMAIN transactions' :
        transactions'[j].phase = "executing" =>
            j \in DOMAIN transactions /\ transactions'[j] = transactions[j]

LEMMA SweptLoads ==
    ASSUME TypeOK, NEW j \in DOMAIN SweptTransactions,
           SweptTransactions[j].phase = "executing"
    PROVE  j \in DOMAIN transactions /\ SweptTransactions[j] = transactions[j]
BY SweptShape DEF IsNonTerminal, NonTerminalPhases

LEMMA ConcludedLoads ==
    ASSUME TypeOK, NEW i \in DOMAIN SweptTransactions,
           NEW phase \in CompletedPhases, NEW code,
           transactions' = Concluded(SweptTransactions, i,
                                     Finish(SweptTransactions[i], phase, code))
    PROVE  /\ LoadsOnlyEnd
           /\ i \in DOMAIN transactions' => transactions'[i].phase = phase
<1>1. Finish(SweptTransactions[i], phase, code).phase = phase
  BY SweptShape, FinishShape
<1> QED
  BY <1>1, ConcludedShape, SweptLoads DEF LoadsOnlyEnd, CompletedPhases

LEMMA OthersOnlyEndLoads ==
    ASSUME TypeOK
    PROVE  /\ Sweep => LoadsOnlyEnd
           /\ \A l \in Leases, c \in ClientRequests, comp \in Compositions :
                 CreatePending(l, c, comp) => LoadsOnlyEnd
           /\ \A k \in Intents : CancelPendingByIntent(k) => LoadsOnlyEnd
           /\ \A i, l, comp, a : FailBeforeMutation(i, l, comp, a) => LoadsOnlyEnd
           /\ \A i, r : CompleteFailed(i, r) => LoadsOnlyEnd
<1>1. ASSUME Sweep PROVE LoadsOnlyEnd
  BY <1>1, SweptLoads DEF Sweep, LoadsOnlyEnd
<1>2. ASSUME NEW l \in Leases, NEW c \in ClientRequests,
             NEW comp \in Compositions, CreatePending(l, c, comp)
      PROVE  LoadsOnlyEnd
  <2> SUFFICES ASSUME NEW j \in DOMAIN transactions',
                      transactions'[j].phase = "executing"
               PROVE  j \in DOMAIN transactions
                      /\ transactions'[j] = transactions[j]
    BY DEF LoadsOnlyEnd
  <2>1. j # nextTx
    BY <1>2, CreatePendingType DEF NewPending
  <2>2. j \in DOMAIN SweptTransactions
    BY <1>2, <2>1, CreatePendingType
  <2>3. Finish(SweptTransactions[j], "superseded",
               "superseded_by_new_pending").phase = "superseded"
    BY <2>2, SweptShape, FinishShape
  <2>4. transactions'[j] = SweptTransactions[j]
    BY <1>2, <2>1, <2>3, CreatePendingType
  <2> QED
    BY <2>2, <2>4, SweptLoads
<1>3. ASSUME NEW k \in Intents, CancelPendingByIntent(k)
      PROVE  LoadsOnlyEnd
  <2>1. CASE transactions' = SweptTransactions
    BY <2>1, SweptLoads DEF LoadsOnlyEnd
  <2>2. ASSUME NEW i \in DOMAIN SweptTransactions,
               transactions' =
                 Concluded(SweptTransactions, i,
                           Finish(SweptTransactions[i], "failed",
                                  "preauthorization_cancelled"))
        PROVE  LoadsOnlyEnd
    BY <2>2, ConcludedLoads DEF CompletedPhases
  <2> QED
    BY <1>3, <2>1, <2>2 DEF CancelPendingByIntent
<1>4. ASSUME NEW i, NEW l, NEW comp, NEW a, FailBeforeMutation(i, l, comp, a)
      PROVE  LoadsOnlyEnd
  <2> DEFINE u == [Finish(SweptTransactions[i], "failed",
                          "authorization_unavailable") EXCEPT !.attempt = {a}]
             g == [SweptTransactions EXCEPT ![i] = u]
             D == EvictCompletedForSession(g, DOMAIN g,
                                           {SweptTransactions[i].session}, {})
  <2>1. i \in DOMAIN SweptTransactions
    BY <1>4 DEF FailBeforeMutation
  <2>2. u.phase = "failed"
    BY <2>1, SweptShape DEF Finish, Records
  <2>3. /\ transactions' = [j \in D |-> g[j]]
        /\ D \subseteq DOMAIN SweptTransactions
    BY <1>4, EvictionsOnlyDrop DEF FailBeforeMutation, Restrict
  <2>4. \A j \in DOMAIN SweptTransactions :
           g[j] = IF j = i THEN u ELSE SweptTransactions[j]
    BY <2>1
  <2> HIDE DEF u, g, D
  <2>5. \A j \in DOMAIN transactions' :
           /\ j \in DOMAIN SweptTransactions
           /\ transactions'[j] = IF j = i THEN u ELSE SweptTransactions[j]
    BY <2>3, <2>4
  <2> QED
    BY <2>2, <2>5, SweptLoads DEF LoadsOnlyEnd
<1>5. ASSUME NEW i, NEW r, CompleteFailed(i, r)
      PROVE  LoadsOnlyEnd
  BY <1>5, ConcludedLoads DEF CompleteFailed, Completable, CompletedPhases
<1> QED
  BY <1>1, <1>2, <1>3, <1>4, <1>5

(* A claim starts the load of its own record only, for the lease that      *)
(* presents the authorization.                                             *)
LEMMA ConsumeStartsOne ==
    ASSUME TypeOK, NEW i, NEW l, NEW comp, NEW a, Consume(i, l, comp, a)
    PROVE  /\ i \in DOMAIN transactions /\ i \in DOMAIN transactions'
           /\ transactions[i].phase = "pending"
           /\ transactions[i].lease = l
           /\ transactions'[i].phase = "executing"
           /\ transactions'[i].lease = transactions[i].lease
           /\ transactions'[i].session = transactions[i].session
           /\ \A j \in DOMAIN transactions' \ {i} :
                 transactions'[j].phase = "executing" =>
                     /\ j \in DOMAIN transactions
                     /\ transactions'[j] = transactions[j]
<1> DEFINE u == [SweptTransactions[i] EXCEPT
                   !.phase = "executing", !.attempt = {a},
                   !.expiresAt = now + ExecutingTtl]
<1>1. /\ i \in DOMAIN SweptTransactions
      /\ SweptTransactions[i].phase = "pending"
      /\ transactions' = [SweptTransactions EXCEPT ![i] = u]
  BY DEF Consume
<1>2. /\ SweptTransactions[i] = transactions[i]
      /\ i \in DOMAIN transactions
      /\ transactions[i] \in Records
  BY <1>1, SweptShape DEF IsNonTerminal, NonTerminalPhases
<1>3. /\ u.phase = "executing" /\ u.lease = transactions[i].lease
      /\ u.session = transactions[i].session
  BY <1>2 DEF Records
<1>4. transactions[i].lease = l
  BY DEF Consume, MatchesBase
<1> HIDE DEF u
<1> QED
  BY <1>1, <1>2, <1>3, <1>4, SweptLoads

(* A committed load was executing and is not any more.                     *)
LEMMA SuccessEndsOne ==
    ASSUME TypeOK, NEW i, NEW r, CompleteSuccess(i, r)
    PROVE  /\ LoadsOnlyEnd
           /\ i \in DOMAIN transactions
           /\ transactions[i].phase = "executing"
           /\ i \in DOMAIN transactions' => transactions'[i].phase = "active"
<1>1. /\ i \in DOMAIN SweptTransactions
      /\ SweptTransactions[i].phase = "executing"
      /\ transactions' = Concluded(SweptTransactions, i,
                            Finish(SweptTransactions[i], "active", "none"))
  BY DEF CompleteSuccess, Completable
<1> QED
  BY <1>1, ConcludedLoads, SweptLoads DEF CompletedPhases


-----------------------------------------------------------------------------
(***************************************************************************)
(* A cancelled load does not run.  A cancellation that finds no pending    *)
(* record answers "cancelled" when it finds an earlier cancelled one: the  *)
(* answer is right because that record's tombstone has kept the intent     *)
(* closed since.  This rests on the tombstone being there as long as the   *)
(* record, so on no tombstone being evicted before its retention is over.  *)
(***************************************************************************)
KeepsTombstones ==
    \A k \in DOMAIN tombstones :
        now - tombstones[k] < CompletedRetention => k \in DOMAIN tombstones'

IsCancelled(t) == t.failureCode = "preauthorization_cancelled"

CancelledRecordsAreFenced ==
    \A i \in DOMAIN transactions :
        LET t == transactions[i]
            k == IntentOf(t)
        IN  /\ IsCancelled(t) => IsCompleted(t)
            /\ IsCancelled(t) /\ now - t.completedAt < CompletedRetention =>
                  /\ k \in DOMAIN tombstones
                  /\ t.completedAt <= tombstones[k]
                  /\ cancelReply[k] = "cancelled"

CancelInv ==
    /\ OpenInv
    /\ \A k \in DOMAIN tombstones : tombstones[k] <= now
    /\ CancelledRecordsAreFenced
    /\ CancelledMeansNotRunning

(* What the sweep leaves of the completed records is not old.              *)
LEMMA SweptRetained ==
    ASSUME NEW i \in DOMAIN SweptTransactions,
           IsCompleted(SweptTransactions[i])
    PROVE  now - SweptTransactions[i].completedAt < CompletedRetention
<1> DEFINE f == [j \in DOMAIN transactions |-> Expire(transactions[j])]
           kept == EvictCompletedForSession(f, DropRetained(f), Sessions, {})
           D == EvictCompletedGlobal(f, kept, {})
<1>1. kept \subseteq DropRetained(f) /\ D \subseteq kept
  BY EvictionsOnlyDrop
<1>2. SweptTransactions = [j \in D |-> f[j]]
  BY DEF SweptTransactions, Restrict
<1> HIDE DEF f, kept, D
<1>3. i \in DropRetained(f) /\ SweptTransactions[i] = f[i]
  BY <1>1, <1>2
<1> QED
  BY <1>3 DEF DropRetained

(* The sweep cancels nothing.                                              *)
LEMMA SweptCancelled ==
    ASSUME TypeOK, NEW i \in DOMAIN SweptTransactions,
           IsCancelled(SweptTransactions[i])
    PROVE  i \in DOMAIN transactions /\ SweptTransactions[i] = transactions[i]
<1> DEFINE t == transactions[i]
<1>1. i \in DOMAIN transactions /\ t \in Records /\ SweptTransactions[i] = Expire(t)
  BY SweepOnlyExpiresAndDrops DEF TypeOK
<1>2. ASSUME NEW code \in {"pending_expired", "executing_expired"}
      PROVE  ~IsCancelled(Finish(t, "failed", code))
  BY <1>1 DEF Finish, Records, IsCancelled
<1> QED
  BY <1>1, <1>2 DEF Expire

(* Only the cancellation of its intent cancels a record.                   *)
LEMMA FinishCode ==
    ASSUME NEW t \in Records, NEW phase, NEW code
    PROVE  /\ Finish(t, phase, code).failureCode = code
           /\ Finish(t, phase, code).completedAt = now
           /\ IntentOf(Finish(t, phase, code)) = IntentOf(t)
BY DEF Finish, Records, IntentOf

LEMMA CancellationShape ==
    ASSUME TypeOK, NEW k \in Intents, CancelPendingByIntent(k)
    PROVE  LET f == SweptTransactions
               matching == {i \in DOMAIN f : IntentOf(f[i]) = k}
           IN  \/ \E n \in matching :
                     /\ f[n].phase = "pending"
                     /\ cancelReply' = [cancelReply EXCEPT ![k] = "cancelled"]
                     /\ DOMAIN transactions' \subseteq DOMAIN f
                     /\ \A j \in DOMAIN transactions' :
                           transactions'[j] =
                              IF j = n THEN Finish(f[n], "failed",
                                               "preauthorization_cancelled")
                              ELSE f[j]
               \/ /\ transactions' = f
                  /\ \A i \in matching : f[i].phase # "pending"
                  /\ cancelReply' = [cancelReply EXCEPT ![k] =
                        IF (\E i \in matching : IsCancelled(f[i]))
                           \/ matching = {}
                        THEN "cancelled" ELSE "transaction_not_abortable"]
<1> DEFINE f == SweptTransactions
           matching == {i \in DOMAIN f : IntentOf(f[i]) = k}
           pending == {i \in matching : f[i].phase = "pending"}
           prior == {i \in matching :
                        f[i].failureCode = "preauthorization_cancelled"}
<1>1. CASE pending = {}
  <2>1. /\ transactions' = f
        /\ cancelReply' = [cancelReply EXCEPT ![k] =
               IF prior # {} \/ matching = {} THEN "cancelled"
               ELSE "transaction_not_abortable"]
    BY <1>1 DEF CancelPendingByIntent
  <2>2. prior # {} <=> \E i \in matching : IsCancelled(f[i])
    BY DEF IsCancelled
  <2>3. \A i \in matching : f[i].phase # "pending"
    BY <1>1
  <2> HIDE DEF matching, prior
  <2> QED
    BY <2>1, <2>2, <2>3 DEF matching
<1>2. CASE pending # {}
  <2>1. PICK n \in pending :
           /\ transactions' = Concluded(f, n, Finish(f[n], "failed",
                                             "preauthorization_cancelled"))
           /\ cancelReply' = [cancelReply EXCEPT ![k] = "cancelled"]
    BY <1>2 DEF CancelPendingByIntent
  <2>2. n \in matching /\ n \in DOMAIN f /\ f[n].phase = "pending"
    BY <2>1
  <2>3. /\ DOMAIN transactions' \subseteq DOMAIN f
        /\ \A j \in DOMAIN transactions' :
              transactions'[j] =
                 IF j = n THEN Finish(f[n], "failed",
                                      "preauthorization_cancelled")
                 ELSE f[j]
    BY <2>1, <2>2, ConcludedShape
  <2> HIDE DEF f
  <2> QED
    BY <2>1, <2>2, <2>3 DEF f
<1> QED
  BY <1>1, <1>2

(* The tombstone of a cancellation stands at its time.                     *)
LEMMA CancellationTombstone ==
    ASSUME TypeOK, NEW k \in Intents, CancelPendingByIntent(k)
    PROVE  /\ k \in DOMAIN tombstones' /\ tombstones'[k] = now
           /\ \A x \in DOMAIN tombstones' \ {k} :
                 x \in DOMAIN tombstones /\ tombstones'[x] = tombstones[x]
<1>1. PICK victims \in EvictableTombstones(SweptTombstones, k) :
         tombstones' = WithTombstone(SweptTombstones, k, victims)
  BY DEF CancelPendingByIntent
<1>2. k \notin victims
  BY <1>1 DEF EvictableTombstones, Oldest
<1> QED
  BY <1>1, <1>2, SweptType DEF WithTombstone

(* Without a cancellation tombstones and answers stay as they are.         *)
LEMMA WithoutCancellation ==
    ASSUME TypeOK, [Next]_vars, ~ \E k \in Intents : CancelPendingByIntent(k)
    PROVE  /\ cancelReply' = cancelReply
           /\ now <= now'
           /\ \A x \in DOMAIN tombstones' :
                 x \in DOMAIN tombstones /\ tombstones'[x] = tombstones[x]
<1>1. /\ tombstones' = SweptTombstones \/ tombstones' = tombstones
      /\ cancelReply' = cancelReply
      /\ now' = now \/ now' = now + 1
  BY TombstoneStep
<1>2. now \in Nat
  BY DEF TypeOK
<1> QED
  BY <1>1, <1>2, SweptType

(* Without a cancellation no record becomes a cancelled one.               *)
LEMMA CancelledBefore ==
    ASSUME CancelInv, [Next]_vars, ~ \E k \in Intents : CancelPendingByIntent(k),
           NEW i \in DOMAIN transactions', IsCancelled(transactions'[i])
    PROVE  i \in DOMAIN transactions /\ transactions'[i] = transactions[i]
<1> DEFINE f == SweptTransactions
<1>0. TypeOK
  BY DEF CancelInv, OpenInv
<1>1. CASE transactions' = transactions
  BY <1>1
<1>2. CASE Sweep
  BY <1>0, <1>2, SweptCancelled DEF Sweep
<1>3. ASSUME NEW l \in Leases, NEW c \in ClientRequests,
             NEW comp \in Compositions, CreatePending(l, c, comp)
      PROVE  i \in DOMAIN transactions /\ transactions'[i] = transactions[i]
  <2>1. i # nextTx
    BY <1>0, <1>3, CreatePendingType DEF NewPending, IsCancelled
  <2>2. i \in DOMAIN f /\ f[i] \in Records
    BY <1>0, <1>3, <2>1, CreatePendingType, SweptType
  <2>3. ~IsCancelled(Finish(f[i], "superseded", "superseded_by_new_pending"))
    BY <2>2, FinishCode DEF IsCancelled
  <2>4. transactions'[i] = f[i]
    BY <1>0, <1>3, <2>1, <2>3, CreatePendingType
  <2> QED
    BY <1>0, <2>2, <2>4, SweptCancelled
<1>4. ASSUME NEW n \in DOMAIN transactions, NEW l \in Leases,
             NEW comp \in Compositions, NEW a \in Attempts, Consume(n, l, comp, a)
      PROVE  i \in DOMAIN transactions /\ transactions'[i] = transactions[i]
  <2> DEFINE u == [f[n] EXCEPT !.phase = "executing", !.attempt = {a},
                               !.expiresAt = now + ExecutingTtl]
  <2>1. /\ n \in DOMAIN f /\ f[n].phase = "pending"
        /\ transactions' = [f EXCEPT ![n] = u]
    BY <1>4 DEF Consume
  <2>2. f[n] \in Records
    BY <1>0, <2>1, SweptType
  <2>3. u.failureCode = f[n].failureCode
    BY <2>2 DEF Records
  <2>4. ~IsCancelled(f[n])
    BY <1>0, <2>1, SweptCancelled
       DEF CancelInv, CancelledRecordsAreFenced, IsCompleted, CompletedPhases
  <2>5. i # n
    BY <2>1, <2>3, <2>4 DEF IsCancelled
  <2>6. i \in DOMAIN f /\ transactions'[i] = f[i]
    BY <2>1, <2>5
  <2> QED
    BY <1>0, <2>6, SweptCancelled
<1>5. ASSUME NEW n \in DOMAIN transactions, NEW l \in Leases,
             NEW comp \in Compositions, NEW a \in Attempts,
             FailBeforeMutation(n, l, comp, a)
      PROVE  i \in DOMAIN transactions /\ transactions'[i] = transactions[i]
  <2> DEFINE u == [Finish(f[n], "failed", "authorization_unavailable")
                     EXCEPT !.attempt = {a}]
             g == [f EXCEPT ![n] = u]
             D == EvictCompletedForSession(g, DOMAIN g, {f[n].session}, {})
  <2>1. n \in DOMAIN f /\ f[n] \in Records
    BY <1>0, <1>5, SweptType DEF FailBeforeMutation
  <2>2. ~IsCancelled(u)
    BY <2>1 DEF Finish, Records, IsCancelled
  <2>3. transactions' = [j \in D |-> g[j]] /\ D \subseteq DOMAIN f
    BY <1>5, EvictionsOnlyDrop DEF FailBeforeMutation, Restrict
  <2>4. \A j \in DOMAIN f : g[j] = IF j = n THEN u ELSE f[j]
    BY <2>1
  <2> HIDE DEF g, D, u
  <2>5. i \in DOMAIN f /\ transactions'[i] = f[i]
    BY <2>2, <2>3, <2>4
  <2> QED
    BY <1>0, <2>5, SweptCancelled
<1>6. ASSUME NEW n \in DOMAIN f, NEW phase, NEW code,
             code \in {"none", "runtime_stage_load_failed"},
             transactions' = Concluded(f, n, Finish(f[n], phase, code))
      PROVE  i \in DOMAIN transactions /\ transactions'[i] = transactions[i]
  <2>1. ~IsCancelled(Finish(f[n], phase, code))
    BY <1>0, <1>6, SweptType, FinishCode DEF IsCancelled
  <2>2. i \in DOMAIN f /\ transactions'[i] = f[i]
    BY <1>6, <2>1, ConcludedShape
  <2> QED
    BY <1>0, <2>2, SweptCancelled
<1>7. ASSUME NEW n \in DOMAIN transactions, NEW r \in RequestIds,
             CompleteSuccess(n, r) \/ CompleteFailed(n, r)
      PROVE  i \in DOMAIN transactions /\ transactions'[i] = transactions[i]
  <2>1. n \in DOMAIN f /\ \E phase, code :
           /\ code \in {"none", "runtime_stage_load_failed"}
           /\ transactions' = Concluded(f, n, Finish(f[n], phase, code))
    BY <1>7 DEF CompleteSuccess, CompleteFailed, Completable
  <2> QED
    BY <1>6, <2>1
<1>8. CASE Tick \/ UNCHANGED vars
  BY <1>1, <1>8 DEF Tick, vars
<1> QED
  BY <1>2, <1>3, <1>4, <1>5, <1>7, <1>8 DEF Next

LEMMA NextCancelledFenced ==
    ASSUME CancelInv, [Next]_vars, KeepsTombstones
    PROVE  /\ \A k \in DOMAIN tombstones' : tombstones'[k] <= now'
           /\ CancelledRecordsAreFenced'
<1>0. TypeOK /\ TypeOK'
  BY NextType DEF CancelInv, OpenInv
<1>1. CASE ~ \E k \in Intents : CancelPendingByIntent(k)
  <2>1. /\ cancelReply' = cancelReply
        /\ now <= now'
        /\ \A x \in DOMAIN tombstones' :
              x \in DOMAIN tombstones /\ tombstones'[x] = tombstones[x]
    BY <1>0, <1>1, WithoutCancellation
  <2>2. /\ now \in Nat /\ now' \in Nat
        /\ \A x \in DOMAIN tombstones : tombstones[x] \in Nat
        /\ CompletedRetention \in Nat
    BY <1>0, BoundsAssumption DEF TypeOK
  <2>3. \A k \in DOMAIN tombstones' : tombstones'[k] <= now'
    BY <2>1, <2>2 DEF CancelInv
  <2>4. ASSUME NEW i \in DOMAIN transactions', IsCancelled(transactions'[i])
        PROVE  LET t == transactions'[i]
                   k == IntentOf(t)
               IN  /\ IsCompleted(t)
                   /\ now' - t.completedAt < CompletedRetention =>
                         /\ k \in DOMAIN tombstones'
                         /\ t.completedAt <= tombstones'[k]
                         /\ cancelReply'[k] = "cancelled"
    <3> DEFINE t == transactions'[i]
               k == IntentOf(t)
    <3>1. i \in DOMAIN transactions /\ t = transactions[i]
      BY <1>1, <2>4, CancelledBefore
    <3>2. /\ IsCompleted(t)
          /\ now - t.completedAt < CompletedRetention =>
                /\ k \in DOMAIN tombstones
                /\ t.completedAt <= tombstones[k]
                /\ cancelReply[k] = "cancelled"
      BY <2>4, <3>1 DEF CancelInv, CancelledRecordsAreFenced
    <3>3. t.completedAt \in Nat
      BY <1>0, <3>1 DEF TypeOK, Records
    <3> HIDE DEF t, k
    <3>4. ASSUME now' - t.completedAt < CompletedRetention
          PROVE  /\ k \in DOMAIN tombstones'
                 /\ t.completedAt <= tombstones'[k]
                 /\ cancelReply'[k] = "cancelled"
      <4>1. now - t.completedAt < CompletedRetention
        BY <2>1, <2>2, <3>3, <3>4
      <4>2. /\ k \in DOMAIN tombstones
            /\ t.completedAt <= tombstones[k]
            /\ cancelReply[k] = "cancelled"
        BY <3>2, <4>1
      <4>3. now - tombstones[k] < CompletedRetention
        BY <2>2, <3>3, <4>1, <4>2
      <4>4. k \in DOMAIN tombstones'
        BY <4>2, <4>3 DEF KeepsTombstones
      <4> QED
        BY <2>1, <4>2, <4>4
    <3> QED
      BY <3>2, <3>4 DEF t, k
  <2> QED
    BY <2>3, <2>4 DEF CancelledRecordsAreFenced
<1>2. ASSUME NEW k \in Intents, CancelPendingByIntent(k)
      PROVE  /\ \A x \in DOMAIN tombstones' : tombstones'[x] <= now'
             /\ CancelledRecordsAreFenced'
  <2> DEFINE f == SweptTransactions
  <2>1. /\ k \in DOMAIN tombstones' /\ tombstones'[k] = now /\ now' = now
        /\ \A x \in DOMAIN tombstones' \ {k} :
              x \in DOMAIN tombstones /\ tombstones'[x] = tombstones[x]
    BY <1>0, <1>2, CancellationTombstone DEF CancelPendingByIntent
  <2>2. /\ now \in Nat
        /\ \A x \in DOMAIN tombstones : tombstones[x] \in Nat /\ tombstones[x] <= now
        /\ CompletedRetention \in Nat
    BY <1>0, BoundsAssumption DEF TypeOK, CancelInv
  <2>3. \A x \in DOMAIN tombstones' : tombstones'[x] <= now'
    BY <2>1, <2>2
  <2>4. ASSUME NEW i \in DOMAIN transactions', IsCancelled(transactions'[i])
        PROVE  LET t == transactions'[i]
                   x == IntentOf(t)
               IN  /\ IsCompleted(t)
                   /\ now' - t.completedAt < CompletedRetention =>
                         /\ x \in DOMAIN tombstones'
                         /\ t.completedAt <= tombstones'[x]
                         /\ cancelReply'[x] = "cancelled"
    <3> DEFINE t == transactions'[i]
               x == IntentOf(t)
    <3>1. t.completedAt \in Nat
      BY <1>0 DEF TypeOK, Records
    <3>2. \/ /\ x = k /\ t.completedAt = now /\ IsCompleted(t)
             /\ cancelReply'[k] = "cancelled"
          \/ /\ i \in DOMAIN f /\ t = f[i]
             /\ x = k => cancelReply'[k] = "cancelled"
             /\ x # k => cancelReply'[x] = cancelReply[x]
      <4>0. cancelReply \in [Intents -> {"none", "cancelled",
                                         "transaction_not_abortable"}]
        BY <1>0 DEF TypeOK
      <4>1. ASSUME NEW n \in {m \in DOMAIN f : IntentOf(f[m]) = k},
                   cancelReply' = [cancelReply EXCEPT ![k] = "cancelled"],
                   DOMAIN transactions' \subseteq DOMAIN f,
                   t = IF i = n THEN Finish(f[n], "failed",
                                            "preauthorization_cancelled")
                       ELSE f[i]
            PROVE  <3>2
        <5>1. f[n] \in Records /\ IntentOf(f[n]) = k
          BY <1>0, SweptType
        <5>2. CASE i = n
          <6>1. t = Finish(f[n], "failed", "preauthorization_cancelled")
            BY <4>1, <5>2
          <6>2. x = k /\ t.completedAt = now /\ t.phase = "failed"
            BY <5>1, <6>1, FinishCode, FinishShape
          <6> QED
            BY <4>0, <4>1, <6>2 DEF IsCompleted, CompletedPhases
        <5>3. CASE i # n
          BY <4>0, <4>1, <5>3
        <5> QED
          BY <5>2, <5>3
      <4>2. ASSUME transactions' = f,
                   cancelReply' = [cancelReply EXCEPT ![k] =
                      IF (\E m \in {m \in DOMAIN f : IntentOf(f[m]) = k} :
                             IsCancelled(f[m]))
                         \/ {m \in DOMAIN f : IntentOf(f[m]) = k} = {}
                      THEN "cancelled" ELSE "transaction_not_abortable"]
            PROVE  <3>2
        <5>1. i \in DOMAIN f /\ t = f[i]
          BY <4>2
        <5>2. x = k => cancelReply'[k] = "cancelled"
          BY <2>4, <4>0, <4>2, <5>1
        <5>3. x # k => cancelReply'[x] = cancelReply[x]
          BY <4>2, <4>0
        <5> QED
          BY <5>1, <5>2, <5>3
      <4> QED
        BY <1>0, <1>2, <4>1, <4>2, CancellationShape
    <3>3. CASE x = k /\ t.completedAt = now /\ IsCompleted(t)
               /\ cancelReply'[k] = "cancelled"
      BY <2>1, <2>2, <3>3
    <3>4. CASE /\ i \in DOMAIN f /\ t = f[i]
               /\ x = k => cancelReply'[k] = "cancelled"
               /\ x # k => cancelReply'[x] = cancelReply[x]
      <4>1. i \in DOMAIN transactions /\ t = transactions[i]
        BY <1>0, <2>4, <3>4, SweptCancelled
      <4>2. /\ IsCompleted(t)
            /\ now - t.completedAt < CompletedRetention =>
                  /\ x \in DOMAIN tombstones
                  /\ t.completedAt <= tombstones[x]
                  /\ cancelReply[x] = "cancelled"
        BY <2>4, <4>1 DEF CancelInv, CancelledRecordsAreFenced
      <4> HIDE DEF t, x
      <4>3. ASSUME now - t.completedAt < CompletedRetention
            PROVE  /\ x \in DOMAIN tombstones'
                   /\ t.completedAt <= tombstones'[x]
                   /\ cancelReply'[x] = "cancelled"
        <5>1. /\ x \in DOMAIN tombstones
              /\ t.completedAt <= tombstones[x]
              /\ cancelReply[x] = "cancelled"
          BY <4>2, <4>3
        <5>2. now - tombstones[x] < CompletedRetention
          BY <2>2, <3>1, <4>3, <5>1
        <5>3. x \in DOMAIN tombstones'
          BY <5>1, <5>2 DEF KeepsTombstones
        <5>4. t.completedAt <= tombstones'[x]
          BY <2>1, <2>2, <3>1, <5>1, <5>3
        <5> QED
          BY <3>4, <5>1, <5>3, <5>4
      <4> QED
        BY <2>1, <4>2, <4>3 DEF t, x
    <3> QED
      BY <3>2, <3>3, <3>4
  <2> QED
    BY <2>3, <2>4 DEF CancelledRecordsAreFenced
<1> QED
  BY <1>1, <1>2

(* Two open records of one intent are one.                                 *)
LEMMA OneOpenOfIntent ==
    ASSUME OpenInv, NEW i \in DOMAIN SweptTransactions,
           NEW j \in DOMAIN SweptTransactions,
           IsNonTerminal(SweptTransactions[i]), IsNonTerminal(SweptTransactions[j]),
           IntentOf(SweptTransactions[i]) = IntentOf(SweptTransactions[j])
    PROVE  i = j
<1>1. /\ i \in NonTerminal(transactions) /\ SweptTransactions[i] = transactions[i]
      /\ j \in NonTerminal(transactions) /\ SweptTransactions[j] = transactions[j]
  BY SweptShape DEF OpenInv, NonTerminal
<1>2. transactions[i].lease = transactions[j].lease
  BY <1>1 DEF IntentOf
<1>3. transactions[i].session = transactions[j].session
  BY <1>1, <1>2 DEF OpenInv, SessionIsOfLease, NonTerminal
<1> QED
  BY <1>1, <1>3 DEF OpenInv, OneOpenTransactionPerSession

LEMMA NextCancelledNotRunning ==
    ASSUME CancelInv, [Next]_vars
    PROVE  CancelledMeansNotRunning'
<1> SUFFICES ASSUME NEW k \in DOMAIN tombstones', cancelReply'[k] = "cancelled",
                    NEW j \in DOMAIN transactions',
                    IntentOf(transactions'[j]) = k,
                    IsNonTerminal(transactions'[j])
             PROVE  FALSE
  BY DEF CancelledMeansNotRunning
<1>0. TypeOK /\ TypeOK' /\ OpenInv
  BY NextType DEF CancelInv, OpenInv
<1>1. CASE j \notin DOMAIN transactions
  <2>1. PICK l \in Leases, c \in ClientRequests, comp \in Compositions :
           /\ CreatePending(l, c, comp)
           /\ transactions'[j] = NewPending(l, c, comp)
    BY <1>0, <1>1, NewRecordShape
  <2>2. IntentOf(transactions'[j]) = <<l, c>>
    BY <2>1 DEF NewPending, IntentOf
  <2> QED
    BY <2>1, <2>2 DEF CreatePending, Fenced
<1>2. CASE j \in DOMAIN transactions
  <2>1. IsNonTerminal(transactions[j]) /\ IntentOf(transactions[j]) = k
    BY <1>0, <1>2, StaysOpen, NextTableStep
       DEF TableStep, RecordStep, SameIdentity, IntentOf
  <2>2. ~ (k \in DOMAIN tombstones /\ cancelReply[k] = "cancelled")
    BY <1>2, <2>1 DEF CancelInv, CancelledMeansNotRunning
  <2>3. CASE ~ \E x \in Intents : CancelPendingByIntent(x)
    BY <1>0, <2>2, <2>3, WithoutCancellation
  <2>4. ASSUME NEW x \in Intents, CancelPendingByIntent(x)
        PROVE  FALSE
    <3> DEFINE f == SweptTransactions
               matching == {i \in DOMAIN f : IntentOf(f[i]) = x}
    <3>0. k \in Intents /\ cancelReply \in [Intents -> {"none", "cancelled",
                                              "transaction_not_abortable"}]
      BY <1>0 DEF TypeOK
    <3>1. \A y \in DOMAIN tombstones' \ {x} : y \in DOMAIN tombstones
      BY <1>0, <2>4, CancellationTombstone
    <3>2. \A y \in Intents \ {x} : cancelReply'[y] = cancelReply[y]
      BY <2>4, <3>0, <1>0 DEF CancelPendingByIntent
    <3>3. x = k
      BY <2>2, <3>0, <3>1, <3>2
    <3>4. ASSUME NEW n \in matching, f[n].phase = "pending",
                 DOMAIN transactions' \subseteq DOMAIN f,
                 \A i \in DOMAIN transactions' :
                    transactions'[i] =
                       IF i = n THEN Finish(f[n], "failed",
                                            "preauthorization_cancelled")
                       ELSE f[i]
          PROVE  FALSE
      <4>1. f[n] \in Records /\ n \in DOMAIN f /\ IntentOf(f[n]) = k
            /\ IsNonTerminal(f[n])
        BY <1>0, <3>3, <3>4, SweptType DEF IsNonTerminal, NonTerminalPhases
      <4>2. j # n
        BY <3>4, <4>1, FinishShape DEF IsNonTerminal, NonTerminalPhases
      <4>3. j \in DOMAIN f /\ transactions'[j] = f[j]
        BY <3>4, <4>2
      <4> QED
        BY <1>0, <4>1, <4>2, <4>3, OneOpenOfIntent
    <3>5. ASSUME transactions' = f,
                 cancelReply' = [cancelReply EXCEPT ![x] =
                    IF (\E i \in matching : IsCancelled(f[i])) \/ matching = {}
                    THEN "cancelled" ELSE "transaction_not_abortable"]
          PROVE  FALSE
      <4>1. j \in matching
        BY <3>3, <3>5
      <4>2. PICK m \in matching : IsCancelled(f[m])
        <5>1. cancelReply'[x] = IF (\E i \in matching : IsCancelled(f[i])) \/ matching = {}
                                THEN "cancelled" ELSE "transaction_not_abortable"
          BY <3>0, <3>3, <3>5
        <5> HIDE DEF matching
        <5> QED
          BY <3>3, <4>1, <5>1
      <4>3. m \in DOMAIN f /\ IntentOf(f[m]) = k
        BY <3>3, <4>2
      <4>4. m \in DOMAIN transactions /\ f[m] = transactions[m]
        BY <1>0, <4>2, <4>3, SweptCancelled
      <4>5. IsCompleted(f[m])
        BY <4>2, <4>4 DEF CancelInv, CancelledRecordsAreFenced
      <4>6. now - f[m].completedAt < CompletedRetention
        BY <4>3, <4>5, SweptRetained
      <4>7. k \in DOMAIN tombstones /\ cancelReply[k] = "cancelled"
        BY <4>2, <4>3, <4>4, <4>6 DEF CancelInv, CancelledRecordsAreFenced
      <4> QED
        BY <2>2, <4>7
    <3> HIDE DEF f, matching
    <3> QED
      BY <1>0, <2>4, <3>4, <3>5, CancellationShape DEF f, matching
  <2> QED
    BY <2>3, <2>4
<1> QED
  BY <1>1, <1>2

LEMMA CancelInvInductive ==
    /\ Init => CancelInv
    /\ CancelInv /\ [Next]_vars /\ [KeepsTombstones]_vars => CancelInv'
<1>1. Init => CancelInv
  BY OpenInvInductive
     DEF Init, CancelInv, CancelledRecordsAreFenced, CancelledMeansNotRunning
<1>2. CancelInv /\ UNCHANGED vars => CancelInv'
  <2> SUFFICES ASSUME CancelInv, UNCHANGED vars PROVE CancelInv'
    OBVIOUS
  <2>1. OpenInv'
    BY OpenInvInductive DEF CancelInv
  <2>2. UNCHANGED <<now, transactions, tombstones, cancelReply>>
    BY DEF vars
  <2> QED
    BY <2>1, <2>2 DEF CancelInv, CancelledRecordsAreFenced,
                      CancelledMeansNotRunning
<1>3. CancelInv /\ [Next]_vars /\ KeepsTombstones => CancelInv'
  BY OpenInvInductive, NextCancelledFenced, NextCancelledNotRunning
     DEF CancelInv
<1> QED
  BY <1>1, <1>2, <1>3

(***************************************************************************)
(* A browser that was answered "cancelled" is not left with its load       *)
(* running, as long as no tombstone is evicted before its retention is     *)
(* over (cancelPendingByIntent trusts an earlier cancelled record).        *)
(***************************************************************************)
THEOREM CancelledIsCancelled ==
    Spec /\ [][KeepsTombstones]_vars => []CancelledMeansNotRunning
<1>1. CancelInv => CancelledMeansNotRunning
  BY DEF CancelInv
<1> QED
  BY <1>1, CancelInvInductive, PTL DEF Spec

(***************************************************************************)
(* No tombstone is evicted early where the limit holds every intent that   *)
(* browsers use.                                                           *)
(***************************************************************************)
LEMMA RoomForTombstones ==
    ASSUME IsFiniteSet(Intents), Cardinality(Intents) <= MaxTombstones,
           TypeOK, [Next]_vars
    PROVE  [KeepsTombstones]_vars
<1>1. ASSUME NEW x \in DOMAIN tombstones, now - tombstones[x] < CompletedRetention
      PROVE  x \in DOMAIN SweptTombstones
  BY <1>1 DEF SweptTombstones, Restrict
<1>2. CASE tombstones' = SweptTombstones \/ tombstones' = tombstones
  BY <1>1, <1>2 DEF KeepsTombstones
<1>3. ASSUME NEW k \in Intents, CancelPendingByIntent(k)
      PROVE  KeepsTombstones
  <2> DEFINE g == SweptTombstones
  <2>1. DOMAIN g \cup {k} \subseteq Intents
    BY <1>3, SweptType DEF TypeOK
  <2>2. Cardinality(DOMAIN g \cup {k}) <= Cardinality(Intents)
        /\ Cardinality(DOMAIN g \cup {k}) \in Nat /\ Cardinality(Intents) \in Nat
    <3> HIDE DEF g
    <3> QED
      BY <2>1, FS_Subset, FS_CardinalityType
  <2>3. ~ (Cardinality(DOMAIN g \cup {k}) > MaxTombstones)
    BY <2>2, BoundsAssumption
  <2>4. tombstones' = WithTombstone(g, k, {})
    BY <1>3, <2>3 DEF CancelPendingByIntent, EvictableTombstones
  <2>5. DOMAIN tombstones' = DOMAIN g \cup {k}
    BY <2>4 DEF WithTombstone
  <2> QED
    BY <1>1, <2>5 DEF KeepsTombstones
<1> QED
  BY <1>2, <1>3, TombstoneStep

(***************************************************************************)
(* So a cancelled load never runs where the limit of the tombstones        *)
(* (maxCancelledPreauthorizationIntents) is at least the number of intents.*)
(***************************************************************************)
THEOREM CancelledWithRoom ==
    ASSUME IsFiniteSet(Intents), Cardinality(Intents) <= MaxTombstones
    PROVE  Spec => []CancelledMeansNotRunning
<1>1. TypeOK /\ [Next]_vars => [KeepsTombstones]_vars
  BY RoomForTombstones
<1> QED
  BY <1>1, TypeCorrect, CancelledIsCancelled, PTL DEF Spec

=============================================================================
