----------------------------- MODULE ViewerLease -----------------------------
(***************************************************************************)
(* The viewer leases of the review coordinator                             *)
(* (services/viewerLeaseStore.ts).                                         *)
(*                                                                         *)
(* A viewer claims a lease on a session, as its primary (the one that may  *)
(* mutate the Kit runtime) or as a spectator, and keeps it alive by        *)
(* heartbeats.  A lease ends when it is released or when a call finds it   *)
(* overdue; time alone changes nothing in the store.                       *)
(*                                                                         *)
(* Leases are numbered in the order of their claims, which is the Map's    *)
(* order; a lease and its secret token are drawn together, so presenting   *)
(* the token is naming the lease.  SessionOf says which session a claim    *)
(* will be for: it is arbitrary, so nothing is assumed about the claims.   *)
(* A viewer stands for viewer_id and user_id.  The Kit instance a lease is *)
(* bound to and what heartbeats observe of the stage are left out.         *)
(***************************************************************************)
EXTENDS LeaseParameters

VARIABLES
    now,            \* Date.now()
    leases,         \* lease -> record, a Map
    nextLease       \* the lease the next claim gets

vars == <<now, leases, nextLease>>

-----------------------------------------------------------------------------
Roles == {"primary", "spectator"}
RequestedRoles == Roles \cup {"auto"}
Statuses == {"active", "released", "expired"}

LeaseRecords == [viewer : Viewers, nonce : Nonces \cup {NoNonce},
                 role : Roles, status : Statuses, expiresAt : Nat]

(* expire(now), with which every operation but the releases begins.        *)
Expired ==
    [l \in DOMAIN leases |->
        IF leases[l].status = "active" /\ leases[l].expiresAt <= now
        THEN [leases[l] EXCEPT !.status = "expired"]
        ELSE leases[l]]

ActivePrimaries(f, s) ==
    {l \in DOMAIN f : /\ SessionOf[l] = s
                      /\ f[l].role = "primary"
                      /\ f[l].status = "active"}

(* resolveRequestedRole                                                    *)
ResolveRole(f, s, requested) ==
    IF requested \in Roles THEN requested
    ELSE IF ActivePrimaries(f, s) = {} THEN "primary" ELSE "spectator"

(* Mutant: only a claim that leaves the role open can be a replay.         *)
MutReplays(f, s, v, nonce, requested) ==
    {l \in DOMAIN f : /\ nonce # NoNonce
                      /\ SessionOf[l] = s
                      /\ f[l].viewer = v
                      /\ f[l].nonce = nonce
                      /\ f[l].status = "active"
                      /\ requested = "auto"}

(* findReplay: the active leases an earlier identical claim obtained.      *)
Replays(f, s, v, nonce, requested) ==
    {l \in DOMAIN f : /\ nonce # NoNonce
                      /\ SessionOf[l] = s
                      /\ f[l].viewer = v
                      /\ f[l].nonce = nonce
                      /\ f[l].status = "active"
                      /\ requested = "auto" \/ f[l].role = requested}

(* authorizePrimary, and inspectRuntimeAuthority when it authorizes.       *)
IsPrimary(f, l) == l \in DOMAIN f /\ l \in ActivePrimaries(f, SessionOf[l])

-----------------------------------------------------------------------------
Init ==
    /\ now = 0
    /\ leases = [l \in {} |-> {}]
    /\ nextLease = 1

Tick ==
    /\ now < MaxTime
    /\ now' = now + 1
    /\ UNCHANGED <<leases, nextLease>>

(* Every read and every refused call: authorizePrimary, authorizeActive,   *)
(* inspectRuntimeAuthority, get, list, primary, and a replayed claim.      *)
Expire ==
    /\ leases' = Expired
    /\ UNCHANGED <<now, nextLease>>

(* Mutant: a primary may be claimed beside another viewer's.               *)
MutClaimable(f, s, v, nonce, requested) ==
    /\ Replays(f, s, v, nonce, requested) = {}
    /\ \A l \in ActivePrimaries(f, s) : f[l].viewer # v

Claimable(f, s, v, nonce, requested) ==
    /\ Replays(f, s, v, nonce, requested) = {}
    /\ ResolveRole(f, s, requested) = "primary" => ActivePrimaries(f, s) = {}

Claim(v, nonce, requested) ==
    LET f == Expired
        s == SessionOf[nextLease]
    IN  /\ nextLease <= MaxLeases
        /\ Claimable(f, s, v, nonce, requested)
        /\ leases' = [l \in DOMAIN f \cup {nextLease} |->
                        IF l = nextLease
                        THEN [viewer |-> v, nonce |-> nonce,
                              role |-> ResolveRole(f, s, requested),
                              status |-> "active",
                              expiresAt |-> now + LeaseTtl]
                        ELSE f[l]]
        /\ nextLease' = nextLease + 1
        /\ UNCHANGED now

(* Mutant: the lease is renewed before the overdue leases are expired.     *)
MutHeartbeat(l) ==
    /\ leases[l].status = "active"
    /\ leases' = [leases EXCEPT ![l].expiresAt = now + LeaseTtl]
    /\ UNCHANGED <<now, nextLease>>

Heartbeat(l) ==
    LET f == Expired
    IN  /\ f[l].status = "active"
        /\ leases' = [f EXCEPT ![l].expiresAt = now + LeaseTtl]
        /\ UNCHANGED <<now, nextLease>>

(* release and releaseSession: an overdue lease is released, not expired.  *)
Released(ls) ==
    [l \in DOMAIN leases |->
        IF l \in ls /\ leases[l].status = "active"
        THEN [leases[l] EXCEPT !.status = "released", !.expiresAt = now]
        ELSE leases[l]]

Release(l) ==
    /\ leases' = Released({l})
    /\ UNCHANGED <<now, nextLease>>

LeasesOf(s) == {l \in DOMAIN leases : SessionOf[l] = s}

ReleaseSession(s) ==
    /\ leases' = Released(LeasesOf(s))
    /\ UNCHANGED <<now, nextLease>>

PurgeSession(s) ==
    /\ leases' = [l \in DOMAIN leases \ LeasesOf(s) |-> leases[l]]
    /\ UNCHANGED <<now, nextLease>>

Next ==
    \/ Tick
    \/ Expire
    \/ \E v \in Viewers, nonce \in Nonces \cup {NoNonce},
          requested \in RequestedRoles : Claim(v, nonce, requested)
    \/ \E l \in DOMAIN leases : Heartbeat(l) \/ Release(l)
    \/ \E s \in Sessions : ReleaseSession(s) \/ PurgeSession(s)

Spec == Init /\ [][Next]_vars

-----------------------------------------------------------------------------
(* Type invariant.                                                         *)
LeaseTypeOK ==
    /\ now \in Nat
    /\ nextLease \in 1 .. MaxLeases + 1
    /\ DOMAIN leases \subseteq 1 .. nextLease - 1
    /\ leases \in [DOMAIN leases -> LeaseRecords]

(***************************************************************************)
(* A session has at most one active primary, whatever roles were asked for *)
(* and however claims, expiries and releases interleave.                   *)
(***************************************************************************)
OneActivePrimary ==
    \A s \in Sessions : \A l, m \in ActivePrimaries(leases, s) : l = m

(***************************************************************************)
(* A claim that is retried with its nonce never costs the viewer a second  *)
(* active lease of the same role (findReplay): its answer may have been    *)
(* lost after the primary role was granted.                                *)
(***************************************************************************)
RetriedClaimIsOneLease ==
    \A l, m \in DOMAIN leases :
        /\ SessionOf[l] = SessionOf[m]
        /\ leases[l].nonce # NoNonce
        /\ leases[l].nonce = leases[m].nonce
        /\ leases[l].viewer = leases[m].viewer
        /\ leases[l].role = leases[m].role
        /\ leases[l].status = "active" /\ leases[m].status = "active"
        => l = m

(***************************************************************************)
(* A lease that has ended, or whose time has passed, is never alive again, *)
(* not by a late heartbeat and not by a retried claim: another viewer may  *)
(* have become the primary meanwhile.                                      *)
(***************************************************************************)
EndedStaysEnded ==
    [][\A l \in DOMAIN leases \cap DOMAIN leases' :
          leases[l].status # "active" \/ leases[l].expiresAt <= now
          => leases'[l].status # "active"
             \/ leases'[l].expiresAt = leases[l].expiresAt]_vars

=============================================================================
