--------------------------- MODULE ExclusiveStage ---------------------------
(***************************************************************************)
(* What the coordinator promises to whoever shares one Kit stage: the      *)
(* primary role passes from lease to lease and is never given back to an   *)
(* earlier one; a load is started by the primary, one at a time; and it is *)
(* committed only while the lease that started it is still the primary.    *)
(* Sessions are independent of each other and may take steps together.     *)
(***************************************************************************)
EXTENDS Integers, Sequences

CONSTANTS
    Sessions,       \* review sessions
    Nobody          \* no lease

VARIABLES
    primary,        \* session -> the lease that may mutate, or Nobody
    issued,         \* leases are numbered; so many have been issued
    loader,         \* session -> the lease whose load Kit executes, or Nobody
    applied         \* session -> the leases whose loads were committed

vars == <<primary, issued, loader, applied>>

Init ==
    /\ primary = [s \in Sessions |-> Nobody]
    /\ issued = 0
    /\ loader = [s \in Sessions |-> Nobody]
    /\ applied = [s \in Sessions |-> <<>>]

-----------------------------------------------------------------------------
(* Only a lease that is new can become the primary.                        *)
Grant(s) ==
    /\ primary[s] = Nobody
    /\ primary'[s] \in issued + 1 .. issued'
    /\ loader'[s] = loader[s]
    /\ applied'[s] = applied[s]

Revoke(s) ==
    /\ primary'[s] = Nobody
    /\ loader'[s] = loader[s]
    /\ applied'[s] = applied[s]

Start(s) ==
    /\ primary[s] # Nobody
    /\ loader[s] = Nobody
    /\ loader'[s] = primary[s]
    /\ applied'[s] = applied[s]
    /\ primary'[s] = primary[s]

Abort(s) ==
    /\ loader'[s] = Nobody
    /\ applied'[s] = applied[s]
    /\ primary'[s] = primary[s]

Commit(s) ==
    /\ loader[s] # Nobody
    /\ loader[s] = primary[s]
    /\ loader'[s] = Nobody
    /\ applied'[s] = Append(applied[s], loader[s])
    /\ primary'[s] = primary[s]

Stay(s) ==
    /\ loader'[s] = loader[s]
    /\ applied'[s] = applied[s]
    /\ primary'[s] = primary[s]

SessionStep(s) ==
    Grant(s) \/ Revoke(s) \/ Start(s) \/ Abort(s) \/ Commit(s) \/ Stay(s)

Next ==
    /\ \A s \in Sessions : SessionStep(s)
    /\ issued' \in Nat /\ issued' >= issued
    /\ primary' = [s \in Sessions |-> primary'[s]]
    /\ loader' = [s \in Sessions |-> loader'[s]]
    /\ applied' = [s \in Sessions |-> applied'[s]]

Spec == Init /\ [][Next]_vars

-----------------------------------------------------------------------------
(***************************************************************************)
(* Loads are committed in the order in which the leases became primary:    *)
(* once a later lease has loaded a stage, no earlier one replaces it.      *)
(***************************************************************************)
AppliedInGrantOrder ==
    \A s \in Sessions : \A m, n \in 1 .. Len(applied[s]) :
        m <= n => applied[s][m] <= applied[s][n]

=============================================================================
