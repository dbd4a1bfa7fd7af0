--------------------------- MODULE StageParameters ---------------------------
(* What the stage-binding transactions are parameterised by, for the       *)
(* module of their state and for the module that composes it.              *)
EXTENDS Integers

CONSTANTS
    ClientRequests,         \* clientRequestId values browsers send
    NoRequest,              \* the preauthorization has no clientRequestId
    Compositions,           \* stage compositions
    RequestIds,             \* requestId values of runtime commands
    EventTypes,             \* the stage-load event types
    NoBinding,              \* no last good binding
    PendingTtl,             \* pendingTtlMs
    ExecutingTtl,           \* executingTtlMs
    CompletedRetention,     \* completedRetentionMs
    MaxNonTerminal,         \* maxNonTerminal
    MaxCompleted,           \* maxCompleted
    MaxCompletedPerSession, \* maxCompletedPerSession
    MaxActiveSessions,      \* maxActiveSessions
    MaxTombstones,          \* maxCancelledPreauthorizationIntents
    MaxTransactions         \* bound: authorizations ever issued

TxIds == 1 .. MaxTransactions

(***************************************************************************)
(* positiveBound replaces every option that is not a positive number.      *)
(***************************************************************************)
ASSUME BoundsAssumption ==
    /\ {PendingTtl, ExecutingTtl, CompletedRetention, MaxNonTerminal,
        MaxCompleted, MaxCompletedPerSession, MaxActiveSessions,
        MaxTombstones} \subseteq Nat \ {0}
    /\ MaxTransactions \in Nat

ASSUME NoneAssumption == NoBinding \notin Nat

=============================================================================
