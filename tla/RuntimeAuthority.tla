-------------------------- MODULE RuntimeAuthority --------------------------
(***************************************************************************)
(* The runtime mutation authority (runtimeMutationAuthority.ts), as app.ts *)
(* wires it: the calls of viewers and of the Kit runtime that pass the     *)
(* session's status, the viewer leases and the stage-binding transactions. *)
(* Each HTTP handler runs to its end without an await, so each is one      *)
(* action; its steps on the two stores are actions of their modules.       *)
(*                                                                         *)
(* A credential is the secret token of a lease; presenting it is naming    *)
(* the lease.  The principal is the user of the lease.                     *)
(***************************************************************************)
EXTENDS LeaseParameters, StageParameters, Sequences, FiniteSets

VARIABLES
    now, leases, nextLease,
    transactions, nextTx, tombstones, activeBySession, appliedLog,
    cancelReply,
    status,         \* session -> status of the review session
    appliedBy       \* session -> source_client_id of its applied events

leaseVars == <<leases, nextLease>>
stageVars == <<transactions, nextTx, tombstones, activeBySession, appliedLog,
               cancelReply>>
vars == <<now, leaseVars, stageVars, status, appliedBy>>

VL == INSTANCE ViewerLease
SB == INSTANCE StageBinding

-----------------------------------------------------------------------------
(* "open" stands for created and active, between which nothing here        *)
(* distinguishes; a purged session is gone from the store.                 *)
Open(s) == status[s] = "open"
Exists(s) == status[s] # "purged"

Init ==
    /\ VL!Init
    /\ SB!Init
    /\ status = [s \in Sessions |-> "open"]
    /\ appliedBy = [s \in Sessions |-> <<>>]

Tick ==
    /\ now < MaxTime
    /\ now' = now + 1
    /\ UNCHANGED <<leaseVars, stageVars, status, appliedBy>>

-----------------------------------------------------------------------------
(* The routes of the viewer leases.                                        *)

(* Mutant: leases of a session are handed out whatever its status.         *)
MutClaim(v, nonce, requested) ==
    /\ VL!Claim(v, nonce, requested)
    /\ UNCHANGED <<stageVars, status, appliedBy>>

Claim(v, nonce, requested) ==
    /\ VL!Claim(v, nonce, requested)
    /\ Open(SessionOf[nextLease])
    /\ UNCHANGED <<stageVars, status, appliedBy>>

Heartbeat(l) ==
    /\ Open(SessionOf[l])
    /\ VL!Heartbeat(l)
    /\ UNCHANGED <<stageVars, status, appliedBy>>

Release(l) ==
    /\ Exists(SessionOf[l])
    /\ VL!Release(l)
    /\ UNCHANGED <<stageVars, status, appliedBy>>

(* A refused call that reached the lease store only.                       *)
Refused ==
    /\ VL!Expire
    /\ UNCHANGED <<stageVars, status, appliedBy>>

(* The lease status route, and every call of the authority that is refused *)
(* or replayed by the stage-binding state.                                 *)
Query ==
    /\ leases' = VL!Expired
    /\ SB!Sweep
    /\ UNCHANGED <<nextLease, status, appliedBy>>

-----------------------------------------------------------------------------
(* The calls of the authority.                                             *)

(* inspectPrimaryLease, inspectRuntimeLease: after the overdue leases have *)
(* been expired, l is its session's primary.                               *)
Authorizes(l) == VL!IsPrimary(VL!Expired, l)

Preauthorize(l, c, comp) ==
    /\ Open(SessionOf[l])
    /\ Authorizes(l)
    /\ leases' = VL!Expired
    /\ SB!CreatePending(l, c, comp)
    /\ UNCHANGED <<nextLease, status, appliedBy>>

CancelPreauthorization(l, c) ==
    /\ Open(SessionOf[l])
    /\ Authorizes(l)
    /\ leases' = VL!Expired
    /\ SB!CancelPendingByIntent(<<l, c>>)
    /\ UNCHANGED <<nextLease, status, appliedBy>>

AuthorizeStageLoad(l, i, comp, a) ==
    /\ Open(SessionOf[l])
    /\ Authorizes(l)
    /\ leases' = VL!Expired
    /\ SB!Consume(i, l, comp, a)
    /\ UNCHANGED <<nextLease, status, appliedBy>>

(* The one call that does not ask for the session's status.                *)
FailStageBindingBeforeMutation(l, i, comp, a) ==
    /\ Exists(SessionOf[l])
    /\ Authorizes(l)
    /\ leases' = VL!Expired
    /\ SB!FailBeforeMutation(i, l, comp, a)
    /\ UNCHANGED <<nextLease, status, appliedBy>>

(* Mutant: the lease is checked when the load is authorized, not again     *)
(* when it is confirmed.                                                   *)
MutConfirmStageBinding(i, r) ==
    LET l == transactions[i].lease
        s == transactions[i].session
    IN  /\ Open(s)
        /\ leases' = VL!Expired
        /\ \/ /\ SB!CompleteSuccess(i, r)
              /\ appliedBy' = [appliedBy EXCEPT ![s] = Append(@, l)]
           \/ SB!CompleteFailed(i, r) /\ UNCHANGED appliedBy
        /\ UNCHANGED <<nextLease, status>>

ConfirmStageBinding(i, r) ==
    LET l == transactions[i].lease
        s == transactions[i].session
    IN  /\ Open(s)
        /\ Authorizes(l)
        /\ leases' = VL!Expired
        /\ \/ /\ SB!CompleteSuccess(i, r)
              /\ appliedBy' = [appliedBy EXCEPT ![s] = Append(@, l)]
           \/ SB!CompleteFailed(i, r) /\ UNCHANGED appliedBy
        /\ UNCHANGED <<nextLease, status>>

-----------------------------------------------------------------------------
(* The end of a session.                                                   *)

(* closeReviewSessionInternal makes the status "closing", releases the     *)
(* leases, and makes the status "closed" unless that write fails.          *)
CloseSession(s) ==
    /\ status[s] \in {"open", "closing"}
    /\ \E st \in {"closing", "closed"} : status' = [status EXCEPT ![s] = st]
    /\ VL!ReleaseSession(s)
    /\ UNCHANGED <<stageVars, appliedBy>>

(* The purge route drops the leases and then deletes the session's files;  *)
(* a deletion that fails leaves the session closed, to be purged again.    *)
(* Its event file is the second to go: appliedBy counts for the id.        *)
PurgeSession(s) ==
    /\ status[s] = "closed"
    /\ VL!PurgeSession(s)
    /\ \E st \in {"closed", "purged"} : status' = [status EXCEPT ![s] = st]
    /\ UNCHANGED <<stageVars, appliedBy>>

-----------------------------------------------------------------------------
Next ==
    \/ Tick
    \/ Refused
    \/ Query
    \/ \E v \in Viewers, nonce \in Nonces \cup {NoNonce},
          requested \in VL!RequestedRoles : Claim(v, nonce, requested)
    \/ \E l \in DOMAIN leases :
          \/ Heartbeat(l)
          \/ Release(l)
          \/ \E c \in ClientRequests :
                \/ \E comp \in Compositions : Preauthorize(l, c, comp)
                \/ c # NoRequest /\ CancelPreauthorization(l, c)
          \/ \E i \in DOMAIN transactions, comp \in Compositions,
                a \in SB!Attempts :
                \/ AuthorizeStageLoad(l, i, comp, a)
                \/ FailStageBindingBeforeMutation(l, i, comp, a)
    \/ \E i \in DOMAIN transactions, r \in RequestIds :
          ConfirmStageBinding(i, r)
    \/ \E s \in Sessions : CloseSession(s) \/ PurgeSession(s)

Spec == Init /\ [][Next]_vars

-----------------------------------------------------------------------------
(***************************************************************************)
(* A session that is being closed, closed or purged has no live lease: no  *)
(* claim slips in between, and no heartbeat revives what close released.   *)
(***************************************************************************)
ClosedHasNoActiveLease ==
    \A l \in DOMAIN leases :
        leases[l].status = "active" => Open(SessionOf[l])

(***************************************************************************)
(* What ViewerLease promises holds of the leases as the authority hands    *)
(* them out and a close or a purge ends them: a session has one active     *)
(* primary at most.                                                        *)
(***************************************************************************)
OneActivePrimary == VL!OneActivePrimary

(* A claim and its repetition with the nonce are one lease.                *)
RetriedClaimIsOneLease == VL!RetriedClaimIsOneLease

(* A lease that has ended is never alive again.                            *)
EndedStaysEnded == VL!EndedStaysEnded

(***************************************************************************)
(* The authority implements ExclusiveStage: a primary is a lease of that   *)
(* role that is alive, a loader the lease of an executing transaction.     *)
(***************************************************************************)
Nobody == NoBinding

TheOneOf(S) == IF S = {} THEN Nobody ELSE CHOOSE x \in S : TRUE

LivePrimaries(s) == {l \in VL!ActivePrimaries(leases, s) :
                        leases[l].expiresAt > now}

Executing(s) == {i \in DOMAIN transactions :
                    /\ transactions[i].session = s
                    /\ transactions[i].phase = "executing"}

primary == [s \in Sessions |-> TheOneOf(LivePrimaries(s))]
issued == nextLease - 1
loader == [s \in Sessions |->
             TheOneOf({transactions[i].lease : i \in Executing(s)})]

Stage == INSTANCE ExclusiveStage WITH applied <- appliedBy

ImplementsExclusiveStage == Stage!Spec

=============================================================================
