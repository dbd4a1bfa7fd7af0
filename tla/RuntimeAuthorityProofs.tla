----------------------- MODULE RuntimeAuthorityProofs -----------------------
(***************************************************************************)
(* Theorems about RuntimeAuthority, for every value of its constants.  A   *)
(* step of the authority is a step of the lease store and a step of the    *)
(* stage-binding state, so what is proved of each holds of both together.  *)
(***************************************************************************)
EXTENDS RuntimeAuthority, TLAPS

SBP == INSTANCE StageBindingProofs

stateOfStages == <<now, transactions, nextTx, tombstones, activeBySession,
                   appliedLog, cancelReply>>

-----------------------------------------------------------------------------

(***************************************************************************)
(* The two sweeps of the store leave every lease as it is or end it.       *)
(***************************************************************************)
LEMMA ExpiredShape ==
    ASSUME VL!LeaseTypeOK
    PROVE  /\ DOMAIN VL!Expired = DOMAIN leases
           /\ VL!Expired \in [DOMAIN leases -> VL!LeaseRecords]
           /\ \A l \in DOMAIN leases :
                 /\ VL!Expired[l].viewer = leases[l].viewer
                 /\ VL!Expired[l].nonce = leases[l].nonce
                 /\ VL!Expired[l].role = leases[l].role
                 /\ VL!Expired[l].expiresAt = leases[l].expiresAt
                 /\ VL!Expired[l].status = "active" =>
                       leases[l].status = "active" /\ now < leases[l].expiresAt
<1> SUFFICES ASSUME NEW l \in DOMAIN leases
             PROVE  LET f == IF leases[l].status = "active" /\ leases[l].expiresAt <= now
                             THEN [leases[l] EXCEPT !.status = "expired"]
                             ELSE leases[l]
                    IN  /\ f \in VL!LeaseRecords
                        /\ f.viewer = leases[l].viewer
                        /\ f.nonce = leases[l].nonce
                        /\ f.role = leases[l].role
                        /\ f.expiresAt = leases[l].expiresAt
                        /\ f.status = "active" =>
                              leases[l].status = "active" /\ now < leases[l].expiresAt
  BY DEF VL!Expired
<1>1. leases[l] \in VL!LeaseRecords
  BY DEF VL!LeaseTypeOK
<1> QED
  BY <1>1 DEF VL!LeaseRecords, VL!Statuses, VL!LeaseTypeOK

LEMMA ReleasedShape ==
    ASSUME VL!LeaseTypeOK, NEW ls
    PROVE  /\ DOMAIN VL!Released(ls) = DOMAIN leases
           /\ VL!Released(ls) \in [DOMAIN leases -> VL!LeaseRecords]
           /\ \A l \in DOMAIN leases :
                 /\ VL!Released(ls)[l].viewer = leases[l].viewer
                 /\ VL!Released(ls)[l].nonce = leases[l].nonce
                 /\ VL!Released(ls)[l].role = leases[l].role
                 /\ VL!Released(ls)[l].status = "active" =>
                       VL!Released(ls)[l] = leases[l]
<1> SUFFICES ASSUME NEW l \in DOMAIN leases
             PROVE  LET f == IF l \in ls /\ leases[l].status = "active"
                             THEN [leases[l] EXCEPT !.status = "released",
                                                    !.expiresAt = now]
                             ELSE leases[l]
                    IN  /\ f \in VL!LeaseRecords
                        /\ f.viewer = leases[l].viewer
                        /\ f.nonce = leases[l].nonce
                        /\ f.role = leases[l].role
                        /\ f.status = "active" => f = leases[l]
  BY DEF VL!Released
<1>1. leases[l] \in VL!LeaseRecords
  BY DEF VL!LeaseTypeOK
<1> QED
  BY <1>1 DEF VL!LeaseRecords, VL!Statuses, VL!LeaseTypeOK

-----------------------------------------------------------------------------
(***************************************************************************)
(* What a step does to a lease it keeps (all but a purged one): who it was *)
(* given to stays, and only a lease that was alive is alive after it.      *)
(***************************************************************************)
LeaseStep(t, u) ==
    /\ u.viewer = t.viewer /\ u.nonce = t.nonce /\ u.role = t.role
    /\ u.status = "active" =>
          /\ t.status = "active"
          /\ u.expiresAt = t.expiresAt \/ now < t.expiresAt

StoreStep ==
    /\ nextLease' = nextLease
    /\ DOMAIN leases' \subseteq DOMAIN leases
    /\ leases' \in [DOMAIN leases' -> VL!LeaseRecords]
    /\ \A l \in DOMAIN leases' : LeaseStep(leases[l], leases'[l])
    /\ now' \in Nat

LEMMA KeepsOrClaims ==
    ASSUME VL!LeaseTypeOK, [VL!Next]_VL!vars
    PROVE  \/ StoreStep
           \/ \E v \in Viewers, nonce \in Nonces \cup {NoNonce},
                 requested \in VL!RequestedRoles : VL!Claim(v, nonce, requested)
<1>1. CASE VL!Tick \/ UNCHANGED VL!vars
  BY <1>1 DEF VL!Tick, VL!vars, VL!LeaseTypeOK, StoreStep, LeaseStep
<1>2. CASE VL!Expire
  BY <1>2, ExpiredShape DEF VL!Expire, VL!LeaseTypeOK, StoreStep, LeaseStep
<1>3. ASSUME NEW l \in DOMAIN leases, VL!Heartbeat(l)
      PROVE  StoreStep
  <2> DEFINE u == [VL!Expired[l] EXCEPT !.expiresAt = now + LeaseTtl]
  <2>1. /\ leases' = [VL!Expired EXCEPT ![l] = u]
        /\ VL!Expired[l].status = "active"
        /\ UNCHANGED <<now, nextLease>>
    BY <1>3 DEF VL!Heartbeat
  <2>2. VL!Expired[l] \in VL!LeaseRecords
    BY ExpiredShape
  <2>3. now + LeaseTtl \in Nat
    BY LeaseBoundsAssumption DEF VL!LeaseTypeOK
  <2>4. u \in VL!LeaseRecords /\ LeaseStep(leases[l], u)
    BY <2>1, <2>2, <2>3, ExpiredShape DEF VL!LeaseRecords, LeaseStep
  <2>5. \A m \in DOMAIN leases : LeaseStep(leases[m], VL!Expired[m])
    BY ExpiredShape DEF LeaseStep
  <2> HIDE DEF u
  <2> QED
    BY <2>1, <2>4, <2>5, ExpiredShape DEF StoreStep, VL!LeaseTypeOK
<1>4. ASSUME NEW ls, leases' = VL!Released(ls), UNCHANGED <<now, nextLease>>
      PROVE  StoreStep
  BY <1>4, ReleasedShape DEF StoreStep, LeaseStep, VL!LeaseTypeOK
<1>5. ASSUME NEW s \in Sessions, VL!PurgeSession(s)
      PROVE  StoreStep
  BY <1>5 DEF VL!PurgeSession, StoreStep, LeaseStep, VL!LeaseTypeOK
<1> QED
  BY <1>1, <1>2, <1>3, <1>4, <1>5 DEF VL!Next, VL!Release, VL!ReleaseSession

(* The leases after a claim: the new one and the swept others.             *)
LEMMA ClaimShape ==
    ASSUME VL!LeaseTypeOK, NEW v \in Viewers, NEW nonce \in Nonces \cup {NoNonce},
           NEW requested \in VL!RequestedRoles, VL!Claim(v, nonce, requested)
    PROVE  /\ nextLease \in Leases /\ nextLease' = nextLease + 1
           /\ nextLease \notin DOMAIN leases
           /\ DOMAIN leases' = DOMAIN leases \cup {nextLease}
           /\ leases'[nextLease] =
                 [viewer |-> v, nonce |-> nonce,
                  role |-> VL!ResolveRole(VL!Expired, SessionOf[nextLease], requested),
                  status |-> "active", expiresAt |-> now + LeaseTtl]
           /\ leases'[nextLease] \in VL!LeaseRecords
           /\ \A l \in DOMAIN leases : leases'[l] = VL!Expired[l]
           /\ VL!Claimable(VL!Expired, SessionOf[nextLease], v, nonce, requested)
           /\ now' = now
<1>1. nextLease \in Leases /\ nextLease \notin DOMAIN leases
  BY LeaseBoundsAssumption DEF VL!Claim, VL!LeaseTypeOK, Leases
<1>2. VL!ResolveRole(VL!Expired, SessionOf[nextLease], requested) \in VL!Roles
  BY DEF VL!ResolveRole, VL!RequestedRoles, VL!Roles
<1>3. now + LeaseTtl \in Nat
  BY LeaseBoundsAssumption DEF VL!LeaseTypeOK
<1> QED
  BY <1>1, <1>2, <1>3, ExpiredShape DEF VL!Claim, VL!LeaseRecords, VL!Statuses

LEMMA NextLeaseType == VL!LeaseTypeOK /\ [VL!Next]_VL!vars => VL!LeaseTypeOK'
<1> SUFFICES ASSUME VL!LeaseTypeOK, [VL!Next]_VL!vars PROVE VL!LeaseTypeOK'
  OBVIOUS
<1>1. CASE StoreStep
  BY <1>1 DEF StoreStep, VL!LeaseTypeOK
<1>2. ASSUME NEW v \in Viewers, NEW nonce \in Nonces \cup {NoNonce},
             NEW requested \in VL!RequestedRoles, VL!Claim(v, nonce, requested)
      PROVE  VL!LeaseTypeOK'
  <2>0. /\ nextLease \in 1 .. MaxLeases /\ nextLease' = nextLease + 1
        /\ DOMAIN leases' = DOMAIN leases \cup {nextLease}
        /\ now' = now
    BY <1>2, ClaimShape DEF Leases
  <2>1. nextLease' \in 1 .. MaxLeases + 1 /\ now' \in Nat
    BY <2>0, LeaseBoundsAssumption DEF VL!LeaseTypeOK
  <2>2. DOMAIN leases' \subseteq 1 .. nextLease' - 1
    <3>1. DOMAIN leases \subseteq 1 .. nextLease - 1
      BY DEF VL!LeaseTypeOK
    <3> QED
      BY <2>0, <3>1
  <2>3. \A l \in DOMAIN leases' : leases'[l] \in VL!LeaseRecords
    BY <1>2, ClaimShape, ExpiredShape
  <2>4. leases' = [l \in DOMAIN leases' |-> leases'[l]]
    BY <1>2 DEF VL!Claim
  <2> QED
    BY <2>1, <2>2, <2>3, <2>4 DEF VL!LeaseTypeOK
<1> QED
  BY <1>1, <1>2, KeepsOrClaims

LEMMA InitLeaseType == VL!Init => VL!LeaseTypeOK
BY LeaseBoundsAssumption DEF VL!Init, VL!LeaseTypeOK

(***************************************************************************)
(* Whatever the sessions, viewers and time to live, a session never has    *)
(* two active primaries.                                                   *)
(***************************************************************************)
LEMMA NextOnePrimary ==
    ASSUME VL!LeaseTypeOK, VL!OneActivePrimary, [VL!Next]_VL!vars
    PROVE  VL!OneActivePrimary'
<1> SUFFICES ASSUME NEW s \in Sessions, NEW l \in VL!ActivePrimaries(leases', s),
                    NEW m \in VL!ActivePrimaries(leases', s)
             PROVE  l = m
  BY DEF VL!OneActivePrimary, VL!ActivePrimaries
<1>1. ASSUME NEW n \in DOMAIN leases, n \in VL!ActivePrimaries(leases', s)
      PROVE  n \in VL!ActivePrimaries(leases, s)
  BY <1>1, KeepsOrClaims, ClaimShape, ExpiredShape
     DEF StoreStep, LeaseStep, VL!ActivePrimaries
<1>2. CASE StoreStep
  BY <1>1, <1>2 DEF StoreStep, VL!ActivePrimaries, VL!OneActivePrimary
<1>3. ASSUME NEW v \in Viewers, NEW nonce \in Nonces \cup {NoNonce},
             NEW requested \in VL!RequestedRoles, VL!Claim(v, nonce, requested)
      PROVE  l = m
  <2>1. ASSUME NEW n \in DOMAIN leases, n \in VL!ActivePrimaries(leases', s),
               nextLease \in VL!ActivePrimaries(leases', s)
        PROVE  FALSE
    <3>1. n \in VL!ActivePrimaries(VL!Expired, s)
      BY <1>3, <2>1, ClaimShape, ExpiredShape DEF VL!ActivePrimaries
    <3>2. /\ SessionOf[nextLease] = s
          /\ VL!ResolveRole(VL!Expired, s, requested) = "primary"
      BY <1>3, <2>1, ClaimShape DEF VL!ActivePrimaries
    <3> QED
      BY <1>3, <3>1, <3>2, ClaimShape DEF VL!Claimable
  <2>2. /\ l \in DOMAIN leases \cup {nextLease}
        /\ m \in DOMAIN leases \cup {nextLease}
    BY <1>3, ClaimShape DEF VL!ActivePrimaries
  <2> QED
    BY <1>1, <2>1, <2>2 DEF VL!OneActivePrimary
<1> QED
  BY <1>2, <1>3, KeepsOrClaims

(***************************************************************************)
(* A claim that is repeated with its nonce, after whatever else happened,  *)
(* never makes a second active lease of the same role.                     *)
(***************************************************************************)
Twins(t, u) ==
    /\ t.nonce # NoNonce /\ t.nonce = u.nonce
    /\ t.viewer = u.viewer /\ t.role = u.role
    /\ t.status = "active" /\ u.status = "active"

LEMMA NextRetriedClaim ==
    ASSUME VL!LeaseTypeOK, VL!RetriedClaimIsOneLease, [VL!Next]_VL!vars
    PROVE  VL!RetriedClaimIsOneLease'
<1> SUFFICES ASSUME NEW l \in DOMAIN leases', NEW m \in DOMAIN leases',
                    SessionOf[l] = SessionOf[m], Twins(leases'[l], leases'[m])
             PROVE  l = m
  BY DEF VL!RetriedClaimIsOneLease, Twins
<1>1. CASE StoreStep
  BY <1>1 DEF StoreStep, LeaseStep, Twins, VL!RetriedClaimIsOneLease
<1>2. ASSUME NEW v \in Viewers, NEW nonce \in Nonces \cup {NoNonce},
             NEW requested \in VL!RequestedRoles, VL!Claim(v, nonce, requested)
      PROVE  l = m
  <2>1. ASSUME NEW n \in DOMAIN leases, SessionOf[n] = SessionOf[nextLease],
               Twins(leases'[nextLease], leases'[n])
        PROVE  FALSE
    <3> DEFINE role == VL!ResolveRole(VL!Expired, SessionOf[nextLease], requested)
    <3>a. /\ leases'[n] = VL!Expired[n]
          /\ leases'[nextLease] =
               [viewer |-> v, nonce |-> nonce, role |-> role,
                status |-> "active", expiresAt |-> now + LeaseTtl]
      BY <1>2, ClaimShape
    <3>b. n \in DOMAIN VL!Expired
      BY ExpiredShape
    <3>1. /\ leases'[n] = VL!Expired[n] /\ n \in DOMAIN VL!Expired
          /\ leases'[nextLease].nonce = nonce
          /\ leases'[nextLease].viewer = v
          /\ leases'[nextLease].role = role
      <4> HIDE DEF role
      <4> QED
        BY <3>a, <3>b
    <3>2. requested = "auto" \/ VL!Expired[n].role = requested
      BY <2>1, <3>1 DEF VL!ResolveRole, VL!RequestedRoles, Twins
    <3>3. n \in VL!Replays(VL!Expired, SessionOf[nextLease], v, nonce, requested)
      BY <2>1, <3>1, <3>2 DEF VL!Replays, Twins
    <3> QED
      BY <1>2, <3>3, ClaimShape DEF VL!Claimable
  <2>2. \A n \in DOMAIN leases' : n \in DOMAIN leases \/ n = nextLease
    BY <1>2, ClaimShape
  <2>3. CASE l \in DOMAIN leases /\ m \in DOMAIN leases
    <3>1. /\ leases'[l] = VL!Expired[l] /\ leases'[m] = VL!Expired[m]
      BY <1>2, <2>3, ClaimShape
    <3>2. Twins(leases[l], leases[m])
      BY <2>3, <3>1, ExpiredShape DEF Twins
    <3> QED
      BY <2>3, <3>2 DEF VL!RetriedClaimIsOneLease, Twins
  <2>4. CASE l = nextLease /\ m \in DOMAIN leases
    BY <2>1, <2>4
  <2>5. CASE m = nextLease /\ l \in DOMAIN leases
    BY <2>1, <2>5 DEF Twins
  <2> QED
    BY <2>2, <2>3, <2>4, <2>5
<1> QED
  BY <1>1, <1>2, KeepsOrClaims

(***************************************************************************)
(* A lease that ended, or whose time has passed, never lives again.        *)
(***************************************************************************)
LEMMA NextEnded ==
    ASSUME VL!LeaseTypeOK, [VL!Next]_VL!vars
    PROVE  \A l \in DOMAIN leases \cap DOMAIN leases' :
              leases[l].status # "active" \/ leases[l].expiresAt <= now
              => leases'[l].status # "active"
                 \/ leases'[l].expiresAt = leases[l].expiresAt
<1> SUFFICES ASSUME NEW l \in DOMAIN leases \cap DOMAIN leases',
                    leases[l].status # "active" \/ leases[l].expiresAt <= now,
                    leases'[l].status = "active"
             PROVE  leases'[l].expiresAt = leases[l].expiresAt
  OBVIOUS
<1>1. leases[l] \in VL!LeaseRecords /\ now \in Nat
  BY DEF VL!LeaseTypeOK
<1>2. leases[l].expiresAt \in Nat
  BY <1>1 DEF VL!LeaseRecords
<1>3. CASE StoreStep
  BY <1>1, <1>2, <1>3 DEF StoreStep, LeaseStep
<1>4. ASSUME NEW v \in Viewers, NEW nonce \in Nonces \cup {NoNonce},
             NEW requested \in VL!RequestedRoles, VL!Claim(v, nonce, requested)
      PROVE  leases'[l].expiresAt = leases[l].expiresAt
  BY <1>4, ClaimShape, ExpiredShape
<1> QED
  BY <1>3, <1>4, KeepsOrClaims

-----------------------------------------------------------------------------
LEMMA InitStages == Init => SBP!Init
BY DEF Init, SB!Init, SBP!Init, SB!Intents, SBP!Intents

(* Each handler's step on the leases.                                      *)
LEMMA SweepLeases ==
    ASSUME leases' = VL!Expired, UNCHANGED <<now, nextLease>>
    PROVE  VL!Next
BY DEF VL!Next, VL!Expire

LEMMA StepLeases == [Next]_vars => [VL!Next]_VL!vars
<1> SUFFICES ASSUME [Next]_vars PROVE [VL!Next]_VL!vars
  OBVIOUS
<1>1. CASE Tick
  BY <1>1 DEF Tick, VL!Next, VL!Tick, leaseVars
<1>2. CASE Refused
  BY <1>2, SweepLeases DEF Refused, VL!Expire
<1>3. CASE Query
  BY <1>3, SweepLeases DEF Query, SB!Sweep
<1>4. ASSUME NEW v \in Viewers, NEW nonce \in Nonces \cup {NoNonce},
             NEW requested \in VL!RequestedRoles, Claim(v, nonce, requested)
      PROVE  VL!Next
  <2>1. VL!Claim(v, nonce, requested)
    BY <1>4 DEF Claim
  <2> QED
    BY <2>1 DEF VL!Next
<1>5. ASSUME NEW l \in DOMAIN leases, Heartbeat(l) \/ Release(l)
      PROVE  VL!Next
  BY <1>5 DEF Heartbeat, Release, VL!Next
<1>6. ASSUME NEW l, NEW c, NEW comp, Preauthorize(l, c, comp)
      PROVE  VL!Next
  BY <1>6, SweepLeases DEF Preauthorize, SB!CreatePending
<1>7. ASSUME NEW l, NEW c, CancelPreauthorization(l, c)
      PROVE  VL!Next
  BY <1>7, SweepLeases DEF CancelPreauthorization, SB!CancelPendingByIntent
<1>8. ASSUME NEW l, NEW i, NEW comp, NEW a, AuthorizeStageLoad(l, i, comp, a)
      PROVE  VL!Next
  BY <1>8, SweepLeases DEF AuthorizeStageLoad, SB!Consume
<1>9. ASSUME NEW l, NEW i, NEW comp, NEW a,
             FailStageBindingBeforeMutation(l, i, comp, a)
      PROVE  VL!Next
  BY <1>9, SweepLeases
     DEF FailStageBindingBeforeMutation, SB!FailBeforeMutation
<1>10. ASSUME NEW i, NEW r, ConfirmStageBinding(i, r)
       PROVE  VL!Next
  BY <1>10, SweepLeases
     DEF ConfirmStageBinding, SB!CompleteSuccess, SB!CompleteFailed
<1>11. ASSUME NEW s \in Sessions, CloseSession(s) \/ PurgeSession(s)
       PROVE  VL!Next
  BY <1>11 DEF CloseSession, PurgeSession, VL!Next
<1>12. CASE UNCHANGED vars
  BY <1>12 DEF vars, leaseVars, VL!vars
<1> QED
  BY <1>1, <1>2, <1>3, <1>4, <1>5, <1>6, <1>7, <1>8, <1>9, <1>10, <1>11,
     <1>12 DEF Next

(***************************************************************************)
(* Type correctness of the leases: every claimed lease has a role that was *)
(* resolved.                                                               *)
(***************************************************************************)
THEOREM LeaseTypes == Spec => []VL!LeaseTypeOK
BY InitLeaseType, StepLeases, NextLeaseType, PTL DEF Spec, Init

(***************************************************************************)
(* A session has one active primary at most, whatever the claims, closes   *)
(* and purges the authority lets through.                                  *)
(***************************************************************************)
THEOREM OnePrimary == Spec => []OneActivePrimary
<1>1. Init => VL!OneActivePrimary
  BY DEF Init, VL!Init, VL!OneActivePrimary, VL!ActivePrimaries
<1>2. VL!OneActivePrimary <=> OneActivePrimary
  BY DEF OneActivePrimary
<1> QED
  BY <1>1, <1>2, StepLeases, NextOnePrimary, LeaseTypes, PTL DEF Spec

(***************************************************************************)
(* A claim repeated with its nonce obtains the lease it already has.       *)
(***************************************************************************)
THEOREM RetriedClaim == Spec => []RetriedClaimIsOneLease
<1>1. Init => VL!RetriedClaimIsOneLease
  BY DEF Init, VL!Init, VL!RetriedClaimIsOneLease
<1>2. VL!RetriedClaimIsOneLease <=> RetriedClaimIsOneLease
  BY DEF RetriedClaimIsOneLease
<1> QED
  BY <1>1, <1>2, StepLeases, NextRetriedClaim, LeaseTypes, PTL DEF Spec

(***************************************************************************)
(* No call of the authority revives a lease that ended or ran out.         *)
(***************************************************************************)
THEOREM EndedForever == Spec => EndedStaysEnded
BY StepLeases, NextEnded, LeaseTypes, PTL
   DEF Spec, EndedStaysEnded, VL!EndedStaysEnded

-----------------------------------------------------------------------------
(* The two instances of StageBinding are one: the operators its sweep and  *)
(* its evictions are built from, and then each of its actions.             *)
LEMMA SameCardinality ==
    ASSUME NEW S
    PROVE  SB!Cardinality(S) = SBP!Cardinality(S)
BY DEF SB!Cardinality, SBP!Cardinality

LEMMA SameRecords ==
    /\ \A t : SB!IsCompleted(t) <=> SBP!IsCompleted(t)
    /\ \A t : SB!IsNonTerminal(t) <=> SBP!IsNonTerminal(t)
    /\ \A t, phase, code : SB!Finish(t, phase, code) = SBP!Finish(t, phase, code)
    /\ \A t : SB!Expire(t) = SBP!Expire(t)
    /\ \A f, S : SB!Restrict(f, S) = SBP!Restrict(f, S)
<1>1. \A t : SB!IsCompleted(t) <=> SBP!IsCompleted(t)
  BY DEF SB!IsCompleted, SBP!IsCompleted, SB!CompletedPhases,
         SBP!CompletedPhases
<1>2. \A t : SB!IsNonTerminal(t) <=> SBP!IsNonTerminal(t)
  BY DEF SB!IsNonTerminal, SBP!IsNonTerminal, SB!NonTerminalPhases,
         SBP!NonTerminalPhases
<1>3. \A t, phase, code : SB!Finish(t, phase, code) = SBP!Finish(t, phase, code)
  BY DEF SB!Finish, SBP!Finish
<1>4. \A t : SB!Expire(t) = SBP!Expire(t)
  BY <1>2, <1>3 DEF SB!Expire, SBP!Expire
<1>5. \A f, S : SB!Restrict(f, S) = SBP!Restrict(f, S)
  BY DEF SB!Restrict, SBP!Restrict
<1> QED
  BY <1>1, <1>2, <1>3, <1>4, <1>5

LEMMA SameKept ==
    ASSUME NEW f, NEW c, NEW n, NEW p
    PROVE  SB!Kept(f, c, n, p) = SBP!Kept(f, c, n, p)
BY SameCardinality DEF SB!Kept, SBP!Kept, SB!Newer, SBP!Newer

LEMMA SameEvictions ==
    ASSUME NEW f, NEW ids, NEW p
    PROVE  /\ SB!EvictCompletedGlobal(f, ids, p)
                = SBP!EvictCompletedGlobal(f, ids, p)
           /\ \A ss : SB!EvictCompletedForSession(f, ids, ss, p)
                         = SBP!EvictCompletedForSession(f, ids, ss, p)
<1>1. SB!EvictCompletedGlobal(f, ids, p) = SBP!EvictCompletedGlobal(f, ids, p)
  BY SameRecords, SameKept
     DEF SB!EvictCompletedGlobal, SBP!EvictCompletedGlobal
<1>2. ASSUME NEW ss
      PROVE  SB!EvictCompletedForSession(f, ids, ss, p)
               = SBP!EvictCompletedForSession(f, ids, ss, p)
  <2> DEFINE completed(s) == {i \in ids : SB!IsCompleted(f[i])
                                          /\ f[i].session = s}
             same(s) == {i \in ids : SBP!IsCompleted(f[i])
                                     /\ f[i].session = s}
  <2>1. \A s : completed(s) = same(s)
    BY SameRecords
  <2>2. SB!EvictCompletedForSession(f, ids, ss, p) =
          (ids \ UNION {completed(s) : s \in ss})
             \cup UNION {SB!Kept(f, completed(s), MaxCompletedPerSession, p)
                           : s \in ss}
    BY DEF SB!EvictCompletedForSession
  <2>3. SBP!EvictCompletedForSession(f, ids, ss, p) =
          (ids \ UNION {same(s) : s \in ss})
             \cup UNION {SBP!Kept(f, same(s), MaxCompletedPerSession, p)
                           : s \in ss}
    BY DEF SBP!EvictCompletedForSession
  <2> HIDE DEF completed, same
  <2>4. {completed(s) : s \in ss} = {same(s) : s \in ss}
    BY <2>1
  <2>5. {SB!Kept(f, completed(s), MaxCompletedPerSession, p) : s \in ss}
          = {SBP!Kept(f, same(s), MaxCompletedPerSession, p) : s \in ss}
    BY <2>1, SameKept
  <2> QED
    BY <2>2, <2>3, <2>4, <2>5
<1> QED
  BY <1>1, <1>2

LEMMA SameSwept ==
    /\ SB!SweptTransactions = SBP!SweptTransactions
    /\ SB!SweptTombstones = SBP!SweptTombstones
<1>1. SB!SweptTombstones = SBP!SweptTombstones
  BY SameRecords DEF SB!SweptTombstones, SBP!SweptTombstones
<1>2. \A f : SB!DropRetained(f) = SBP!DropRetained(f)
  BY SameRecords DEF SB!DropRetained, SBP!DropRetained
<1>3. [i \in DOMAIN transactions |-> SB!Expire(transactions[i])]
        = [i \in DOMAIN transactions |-> SBP!Expire(transactions[i])]
  BY SameRecords
<1> DEFINE f == [i \in DOMAIN transactions |-> SBP!Expire(transactions[i])]
<1>4. SB!SweptTransactions =
        SB!Restrict(f, SB!EvictCompletedGlobal(f,
          SB!EvictCompletedForSession(f, SB!DropRetained(f), Sessions, {}), {}))
  BY <1>3 DEF SB!SweptTransactions
<1>5. SBP!SweptTransactions =
        SBP!Restrict(f, SBP!EvictCompletedGlobal(f,
          SBP!EvictCompletedForSession(f, SBP!DropRetained(f), Sessions, {}), {}))
  BY DEF SBP!SweptTransactions
<1> HIDE DEF f
<1> QED
  BY <1>1, <1>2, <1>4, <1>5, SameRecords, SameEvictions

LEMMA SameConcluded ==
    ASSUME NEW f, NEW i, NEW t
    PROVE  SB!Concluded(f, i, t) = SBP!Concluded(f, i, t)
BY SameRecords, SameEvictions DEF SB!Concluded, SBP!Concluded

LEMMA SameSweep ==
    ASSUME SB!Sweep
    PROVE  SBP!Sweep
BY SameSwept DEF SB!Sweep, SBP!Sweep

LEMMA SameCreatePending ==
    ASSUME NEW l, NEW c, NEW comp, SB!CreatePending(l, c, comp)
    PROVE  SBP!CreatePending(l, c, comp)
<1>1. \A f : SB!NonTerminal(f) = SBP!NonTerminal(f)
  BY SameRecords DEF SB!NonTerminal, SBP!NonTerminal
<1>2. \A f, s : SB!CurrentOf(f, s) = SBP!CurrentOf(f, s)
  BY <1>1 DEF SB!CurrentOf, SBP!CurrentOf
<1>3. \A f, s : SB!HasRoom(f, s) <=> SBP!HasRoom(f, s)
  BY <1>1, SameCardinality DEF SB!HasRoom, SBP!HasRoom
<1>4. SB!Fenced(l, c) <=> SBP!Fenced(l, c)
  BY SameSwept DEF SB!Fenced, SBP!Fenced
<1>5. SB!NewPending(l, c, comp) = SBP!NewPending(l, c, comp)
  BY DEF SB!NewPending, SBP!NewPending
<1> DEFINE f == SBP!SweptTransactions
           current == SBP!CurrentOf(f, SessionOf[l])
           g == [i \in DOMAIN f \cup {nextTx} |->
                   IF i = nextTx THEN SBP!NewPending(l, c, comp)
                   ELSE IF i \in current
                        THEN SBP!Finish(f[i], "superseded",
                                        "superseded_by_new_pending")
                        ELSE f[i]]
<1>6. SB!EvictCompletedForSession(g, DOMAIN g, {SessionOf[l]}, {})
        = SBP!EvictCompletedForSession(g, DOMAIN g, {SessionOf[l]}, {})
  BY SameEvictions
<1>7. g = [i \in DOMAIN f \cup {nextTx} |->
             IF i = nextTx THEN SB!NewPending(l, c, comp)
             ELSE IF i \in current
                  THEN SB!Finish(f[i], "superseded",
                                 "superseded_by_new_pending")
                  ELSE f[i]]
  BY <1>5, SameRecords
<1> QED
  BY <1>2, <1>3, <1>4, <1>6, <1>7, SameSwept, SameRecords
     DEF SB!CreatePending, SBP!CreatePending

LEMMA SameCancel ==
    ASSUME NEW k, SB!CancelPendingByIntent(k)
    PROVE  SBP!CancelPendingByIntent(k)
<1>1. \A g : SB!EvictableTombstones(g, k) = SBP!EvictableTombstones(g, k)
  BY SameCardinality DEF SB!EvictableTombstones, SBP!EvictableTombstones,
     SB!Oldest, SBP!Oldest
<1>2. \A g, v : SB!WithTombstone(g, k, v) = SBP!WithTombstone(g, k, v)
  BY DEF SB!WithTombstone, SBP!WithTombstone
<1> QED
  BY <1>1, <1>2, SameSwept, SameRecords, SameConcluded
     DEF SB!CancelPendingByIntent, SBP!CancelPendingByIntent,
         SB!IntentOf, SBP!IntentOf

LEMMA SameConsume ==
    ASSUME NEW i, NEW l, NEW comp, NEW a, SB!Consume(i, l, comp, a)
    PROVE  SBP!Consume(i, l, comp, a)
BY SameSwept DEF SB!Consume, SBP!Consume, SB!MatchesBase, SBP!MatchesBase

LEMMA SameFail ==
    ASSUME NEW i, NEW l, NEW comp, NEW a, SB!FailBeforeMutation(i, l, comp, a)
    PROVE  SBP!FailBeforeMutation(i, l, comp, a)
BY SameSwept, SameRecords, SameEvictions
   DEF SB!FailBeforeMutation, SBP!FailBeforeMutation, SB!MatchesBase,
       SBP!MatchesBase, SB!Abortable, SBP!Abortable

LEMMA SameComplete ==
    ASSUME NEW i, NEW r
    PROVE  /\ SB!CompleteSuccess(i, r) => SBP!CompleteSuccess(i, r)
           /\ SB!CompleteFailed(i, r) => SBP!CompleteFailed(i, r)
<1>1. SB!Completable(i, r) <=> SBP!Completable(i, r)
  BY SameSwept DEF SB!Completable, SBP!Completable
<1>2. \A s : SB!EvictableActiveSessions(s) = SBP!EvictableActiveSessions(s)
  BY SameCardinality DEF SB!EvictableActiveSessions,
     SBP!EvictableActiveSessions, SB!Oldest, SBP!Oldest
<1>3. \A s, v : SB!WithActive(s, i, v) = SBP!WithActive(s, i, v)
  BY DEF SB!WithActive, SBP!WithActive
<1> QED
  BY <1>1, <1>2, <1>3, SameSwept, SameRecords, SameConcluded
     DEF SB!CompleteSuccess, SBP!CompleteSuccess, SB!CompleteFailed,
         SBP!CompleteFailed

LEMMA LeasesAreLeases ==
    ASSUME VL!LeaseTypeOK
    PROVE  DOMAIN leases \subseteq Leases
BY LeaseBoundsAssumption DEF VL!LeaseTypeOK, Leases

LEMMA StepStages ==
    VL!LeaseTypeOK /\ [Next]_vars => [SBP!Next]_stateOfStages
<1> SUFFICES ASSUME VL!LeaseTypeOK, [Next]_vars
             PROVE  [SBP!Next]_stateOfStages
  OBVIOUS
<1>1. CASE Tick
  BY <1>1 DEF Tick, SBP!Next, SBP!Tick, stageVars
<1>2. CASE Query
  BY <1>2, SameSweep DEF Query, SBP!Next
<1>3. ASSUME NEW l \in DOMAIN leases, NEW c \in ClientRequests,
             NEW comp \in Compositions, Preauthorize(l, c, comp)
      PROVE  SBP!Next
  BY <1>3, LeasesAreLeases, SameCreatePending DEF Preauthorize, SBP!Next
<1>4. ASSUME NEW l \in DOMAIN leases, NEW c \in ClientRequests,
             c # NoRequest, CancelPreauthorization(l, c)
      PROVE  SBP!Next
  <2>1. <<l, c>> \in SBP!Intents
    BY <1>4, LeasesAreLeases DEF SBP!Intents
  <2>2. SBP!CancelPendingByIntent(<<l, c>>)
    BY <1>4, SameCancel DEF CancelPreauthorization
  <2> QED
    BY <2>1, <2>2 DEF SBP!Next
<1>5. ASSUME NEW l \in DOMAIN leases, NEW i \in DOMAIN transactions,
             NEW comp \in Compositions, NEW a \in SB!Attempts,
             \/ AuthorizeStageLoad(l, i, comp, a)
             \/ FailStageBindingBeforeMutation(l, i, comp, a)
      PROVE  SBP!Next
  <2>1. l \in Leases /\ a \in SBP!Attempts
    BY LeasesAreLeases DEF SB!Attempts, SBP!Attempts
  <2>2. \/ SBP!Consume(i, l, comp, a)
        \/ SBP!FailBeforeMutation(i, l, comp, a)
    BY <1>5, SameConsume, SameFail
       DEF AuthorizeStageLoad, FailStageBindingBeforeMutation
  <2> QED
    BY <2>1, <2>2 DEF SBP!Next
<1>6. ASSUME NEW i \in DOMAIN transactions, NEW r \in RequestIds,
             ConfirmStageBinding(i, r)
      PROVE  SBP!Next
  BY <1>6, SameComplete DEF ConfirmStageBinding, SBP!Next
<1>7. ASSUME UNCHANGED stageVars, now' = now
      PROVE  UNCHANGED stateOfStages
  BY <1>7 DEF stageVars, stateOfStages
<1>8. CASE Refused
  BY <1>7, <1>8 DEF Refused, VL!Expire
<1>9. ASSUME NEW v \in Viewers, NEW nonce \in Nonces \cup {NoNonce},
             NEW requested \in VL!RequestedRoles, Claim(v, nonce, requested)
      PROVE  UNCHANGED stateOfStages
  BY <1>7, <1>9 DEF Claim, VL!Claim
<1>10. ASSUME NEW l \in DOMAIN leases, Heartbeat(l) \/ Release(l)
       PROVE  UNCHANGED stateOfStages
  BY <1>7, <1>10 DEF Heartbeat, VL!Heartbeat, Release, VL!Release
<1>11. ASSUME NEW s \in Sessions, CloseSession(s) \/ PurgeSession(s)
       PROVE  UNCHANGED stateOfStages
  BY <1>7, <1>11 DEF CloseSession, VL!ReleaseSession, PurgeSession,
     VL!PurgeSession
<1>12. CASE UNCHANGED vars
  BY <1>12 DEF vars, stageVars, stateOfStages
<1> QED
  BY <1>1, <1>2, <1>3, <1>4, <1>5, <1>6, <1>8, <1>9, <1>10, <1>11, <1>12
     DEF Next

(* They are runs of the stage-binding state as well.                       *)
LEMMA StagesAsStored == Spec => SBP!Spec
BY InitStages, LeaseTypes, StepStages, PTL
   DEF Spec, SBP!Spec, SBP!vars, stateOfStages

-----------------------------------------------------------------------------
(***************************************************************************)
(* The sessions.                                                           *)
(***************************************************************************)
SessionTypeOK ==
    /\ status \in [Sessions -> {"open", "closing", "closed", "purged"}]
    /\ appliedBy \in [Sessions -> Seq(Leases)]

SessionInv ==
    /\ SessionTypeOK
    /\ ClosedHasNoActiveLease

LEMMA SweptLeases ==
    ASSUME VL!LeaseTypeOK
    PROVE  /\ DOMAIN VL!Expired = DOMAIN leases
           /\ \A l \in DOMAIN leases :
                 /\ VL!Expired[l].role = leases[l].role
                 /\ VL!Expired[l].expiresAt = leases[l].expiresAt
                 /\ VL!Expired[l].status = "active" <=>
                       /\ leases[l].status = "active"
                       /\ leases[l].expiresAt > now
<1>2. /\ DOMAIN VL!Expired = DOMAIN leases
      /\ \A l \in DOMAIN leases :
            /\ VL!Expired[l].role = leases[l].role
            /\ VL!Expired[l].expiresAt = leases[l].expiresAt
            /\ VL!Expired[l].status = "active" =>
                  leases[l].status = "active" /\ now < leases[l].expiresAt
  BY ExpiredShape
<1>3. ASSUME NEW l \in DOMAIN leases, leases[l].status = "active",
             leases[l].expiresAt > now
      PROVE  VL!Expired[l].status = "active"
  <2>1. leases[l].expiresAt \in Nat /\ now \in Nat
    BY DEF VL!LeaseTypeOK, VL!LeaseRecords
  <2> QED
    BY <1>3, <2>1 DEF VL!Expired
<1>4. \A l \in DOMAIN leases : leases[l].expiresAt \in Nat /\ now \in Nat
  BY DEF VL!LeaseTypeOK, VL!LeaseRecords
<1> QED
  BY <1>2, <1>3, <1>4

LEMMA ReleasedLeases ==
    ASSUME VL!LeaseTypeOK, NEW ls
    PROVE  /\ DOMAIN VL!Released(ls) = DOMAIN leases
           /\ \A l \in DOMAIN leases :
                 VL!Released(ls)[l].status = "active" =>
                     leases[l].status = "active" /\ l \notin ls
<1>1. \A l \in DOMAIN leases : leases[l] \in VL!LeaseRecords
  BY DEF VL!LeaseTypeOK
<1> QED
  BY <1>1 DEF VL!Released, VL!LeaseRecords

LEMMA ClosedKept ==
    ASSUME VL!LeaseTypeOK, SessionInv, [Next]_vars
    PROVE  ClosedHasNoActiveLease'
<1> USE DEF ClosedHasNoActiveLease, Open
<1>1. CASE /\ status' = status
           /\ \A l \in DOMAIN leases' :
                 leases'[l].status = "active" =>
                     \/ l \in DOMAIN leases /\ leases[l].status = "active"
                     \/ Open(SessionOf[l])
  BY <1>1 DEF SessionInv
<1>2. ASSUME leases' = VL!Expired, status' = status
      PROVE  ClosedHasNoActiveLease'
  BY <1>1, <1>2, SweptLeases
<1>3. CASE Tick \/ UNCHANGED vars
  BY <1>1, <1>3 DEF Tick, vars, leaseVars
<1>4. CASE Refused \/ Query
  BY <1>2, <1>4 DEF Refused, Query, VL!Expire
<1>5. ASSUME NEW v, NEW nonce, NEW requested, Claim(v, nonce, requested)
      PROVE  ClosedHasNoActiveLease'
  <2>1. /\ DOMAIN leases' = DOMAIN leases \cup {nextLease}
        /\ \A l \in DOMAIN leases \ {nextLease} : leases'[l] = VL!Expired[l]
        /\ Open(SessionOf[nextLease]) /\ status' = status
    BY <1>5, SweptLeases DEF Claim, VL!Claim
  <2> QED
    BY <1>1, <2>1, SweptLeases
<1>6. ASSUME NEW l \in DOMAIN leases, Heartbeat(l)
      PROVE  ClosedHasNoActiveLease'
  <2>1. /\ DOMAIN leases' = DOMAIN leases
        /\ \A m \in DOMAIN leases \ {l} : leases'[m] = VL!Expired[m]
        /\ Open(SessionOf[l]) /\ status' = status
    BY <1>6, SweptLeases DEF Heartbeat, VL!Heartbeat
  <2> QED
    BY <1>1, <2>1, SweptLeases
<1>7. ASSUME NEW l \in DOMAIN leases, Release(l)
      PROVE  ClosedHasNoActiveLease'
  BY <1>1, <1>7, ReleasedLeases DEF Release, VL!Release
<1>8. ASSUME NEW l, NEW c, NEW comp,
             Preauthorize(l, c, comp) \/ CancelPreauthorization(l, c)
      PROVE  ClosedHasNoActiveLease'
  BY <1>2, <1>8 DEF Preauthorize, CancelPreauthorization
<1>9. ASSUME NEW l, NEW i, NEW comp, NEW a,
             \/ AuthorizeStageLoad(l, i, comp, a)
             \/ FailStageBindingBeforeMutation(l, i, comp, a)
      PROVE  ClosedHasNoActiveLease'
  BY <1>2, <1>9 DEF AuthorizeStageLoad, FailStageBindingBeforeMutation
<1>10. ASSUME NEW i, NEW r, ConfirmStageBinding(i, r)
       PROVE  ClosedHasNoActiveLease'
  BY <1>2, <1>10 DEF ConfirmStageBinding
<1>11. ASSUME NEW s \in Sessions, CloseSession(s) \/ PurgeSession(s)
       PROVE  ClosedHasNoActiveLease'
  <2> SUFFICES ASSUME NEW l \in DOMAIN leases', leases'[l].status = "active"
               PROVE  status'[SessionOf[l]] = "open"
    OBVIOUS
  <2>1. /\ l \in DOMAIN leases /\ leases[l].status = "active"
        /\ SessionOf[l] # s
    BY <1>11, ReleasedLeases
       DEF CloseSession, PurgeSession, VL!ReleaseSession, VL!PurgeSession,
           VL!LeasesOf
  <2>2. SessionOf[l] \in Sessions
    BY <2>1, LeasesAreLeases, SessionOfAssumption
  <2>3. status'[SessionOf[l]] = status[SessionOf[l]]
    BY <1>11, <2>1, <2>2
       DEF CloseSession, PurgeSession, SessionInv, SessionTypeOK
  <2> QED
    BY <2>1, <2>3 DEF SessionInv
<1> QED
  BY <1>3, <1>4, <1>5, <1>6, <1>7, <1>8, <1>9, <1>10, <1>11 DEF Next

LEMMA SessionTypeKept ==
    ASSUME SBP!TypeOK, SessionTypeOK, [Next]_vars
    PROVE  SessionTypeOK'
<1> USE DEF SessionTypeOK
<1>1. CASE UNCHANGED <<status, appliedBy>>
  BY <1>1
<1>2. ASSUME NEW s \in Sessions, CloseSession(s) \/ PurgeSession(s)
      PROVE  SessionTypeOK'
  BY <1>2 DEF CloseSession, PurgeSession
<1>3. ASSUME NEW i \in DOMAIN transactions, NEW r, ConfirmStageBinding(i, r)
      PROVE  SessionTypeOK'
  <2>1. transactions[i].lease \in Leases /\ transactions[i].session \in Sessions
    BY DEF SBP!TypeOK, SBP!Records
  <2> DEFINE l == transactions[i].lease
             s == transactions[i].session
  <2>2. /\ status' = status
        /\ \/ appliedBy' = [appliedBy EXCEPT ![s] = Append(appliedBy[s], l)]
           \/ appliedBy' = appliedBy
    BY <1>3 DEF ConfirmStageBinding
  <2>3. Append(appliedBy[s], l) \in Seq(Leases)
    BY <2>1
  <2> HIDE DEF l, s
  <2> QED
    BY <2>2, <2>3
<1> QED
  BY <1>1, <1>2, <1>3 DEF Next, vars, Tick, Refused, Query, Claim, Heartbeat,
     Release, Preauthorize, CancelPreauthorization, AuthorizeStageLoad,
     FailStageBindingBeforeMutation

LEMMA SessionInvHolds == Spec => []SessionInv
<1>1. Init => SessionInv
  BY DEF Init, SessionInv, SessionTypeOK, ClosedHasNoActiveLease, VL!Init
<1>2. VL!LeaseTypeOK /\ SBP!TypeOK /\ SessionInv /\ [Next]_vars => SessionInv'
  BY ClosedKept, SessionTypeKept DEF SessionInv
<1>3. SBP!Spec => []SBP!TypeOK
  BY SBP!TypeCorrect, BoundsAssumption, NoneAssumption,
     LeaseBoundsAssumption, SessionOfAssumption
<1> QED
  BY <1>1, <1>2, <1>3, LeaseTypes, StagesAsStored, PTL DEF Spec

(***************************************************************************)
(* A session that is being closed, is closed or is purged has no active    *)
(* lease: neither a claim nor a heartbeat comes in behind the close.       *)
(***************************************************************************)
THEOREM ClosedWithoutLease == Spec => []ClosedHasNoActiveLease
BY SessionInvHolds, PTL DEF SessionInv

-----------------------------------------------------------------------------
(***************************************************************************)
(* The refinement.  P and L are the abstract primary and loader of a       *)
(* session; both are the only element of a set that has one at most.       *)
(***************************************************************************)
P(s) == TheOneOf(LivePrimaries(s))
L(s) == TheOneOf({transactions[i].lease : i \in Executing(s)})

LEMMA TheOne ==
    /\ TheOneOf({}) = Nobody
    /\ \A S : \A x \in S : (\A y \in S : y = x) => TheOneOf(S) = x
BY DEF TheOneOf

LEMMA LeasesAreSomebody ==
    ASSUME VL!LeaseTypeOK, NEW l \in DOMAIN leases
    PROVE  l \in Nat /\ l # Nobody
BY LeasesAreLeases, NoneAssumption DEF Leases, Nobody

(* The state the steps start from.                                         *)
RefinementInv ==
    /\ VL!LeaseTypeOK
    /\ OneActivePrimary
    /\ SBP!OpenInv
    /\ SessionTypeOK

LEMMA RefinementInvHolds == Spec => []RefinementInv
<1>1. Init => SBP!OpenInv
  BY InitStages, SBP!OpenInvInductive, BoundsAssumption, NoneAssumption,
     LeaseBoundsAssumption, SessionOfAssumption
<1>2. SBP!OpenInv /\ [SBP!Next]_SBP!vars => SBP!OpenInv'
  BY SBP!OpenInvInductive, BoundsAssumption, NoneAssumption,
     LeaseBoundsAssumption, SessionOfAssumption
<1>3. SBP!Spec => []SBP!OpenInv
  BY <1>2, SBP!OpenInvInductive, BoundsAssumption, NoneAssumption,
     LeaseBoundsAssumption, SessionOfAssumption, PTL DEF SBP!Spec
<1> QED
  BY <1>3, StagesAsStored, LeaseTypes, OnePrimary, SessionInvHolds, PTL
     DEF RefinementInv, SessionInv

LEMMA OneLivePrimary ==
    ASSUME OneActivePrimary, NEW s \in Sessions, NEW l \in LivePrimaries(s)
    PROVE  P(s) = l
BY TheOne DEF P, LivePrimaries, OneActivePrimary, VL!OneActivePrimary

LEMMA OneLoader ==
    ASSUME NEW s, NEW i \in Executing(s), \A j \in Executing(s) : j = i
    PROVE  L(s) = transactions[i].lease
BY TheOne DEF L

LEMMA NoLoader ==
    ASSUME NEW s, Executing(s) = {}
    PROVE  L(s) = Nobody
BY TheOne DEF L

LEMMA OneExecuting ==
    ASSUME SBP!OpenInv, NEW s, NEW i \in Executing(s), NEW j \in DOMAIN transactions,
           transactions[j].session = s,
           transactions[j].phase \in {"pending", "executing"}
    PROVE  j = i
BY DEF SBP!OpenInv, SBP!OneOpenTransactionPerSession, SBP!NonTerminal,
       SBP!IsNonTerminal, SBP!NonTerminalPhases, Executing

(* What one step may do to one session.                                    *)
SameLoads(s) == L(s)' = L(s) /\ appliedBy'[s] = appliedBy[s]

SessionMoves(s) ==
    \/ /\ P(s) = Nobody /\ P(s)' = nextLease /\ nextLease' = nextLease + 1
       /\ SameLoads(s)
    \/ P(s)' = Nobody /\ SameLoads(s)
    \/ P(s)' = P(s) /\ SameLoads(s)
    \/ /\ P(s)' = P(s) /\ P(s) # Nobody
       /\ L(s) = Nobody /\ L(s)' = P(s) /\ appliedBy'[s] = appliedBy[s]
    \/ P(s)' = P(s) /\ L(s)' = Nobody /\ appliedBy'[s] = appliedBy[s]
    \/ /\ P(s)' = P(s) /\ P(s) # Nobody /\ L(s) = P(s) /\ L(s)' = Nobody
       /\ appliedBy'[s] = Append(appliedBy[s], L(s))

LEMMA AbstractStep ==
    ASSUME nextLease \in Nat \ {0}, nextLease' \in Nat \ {0},
           nextLease' >= nextLease,
           SessionTypeOK, SessionTypeOK',
           \A s \in Sessions : SessionMoves(s)
    PROVE  Stage!Next
<1>1. ASSUME NEW s \in Sessions
      PROVE  Stage!SessionStep(s)
  <2>1. /\ primary[s] = P(s) /\ primary'[s] = P(s)'
        /\ loader[s] = L(s) /\ loader'[s] = L(s)'
    BY DEF primary, loader, P, L
  <2>2. SessionMoves(s)
    OBVIOUS
  <2>3. nextLease' = nextLease + 1 =>
           nextLease \in issued + 1 .. issued'
    BY DEF issued
  <2> QED
    BY <2>1, <2>2, <2>3
       DEF SessionMoves, SameLoads, Stage!SessionStep, Stage!Grant, Stage!Revoke,
           Stage!Start, Stage!Abort, Stage!Commit, Stage!Stay
<1>2. issued' \in Nat /\ issued' >= issued
  <2>1. \A m, n \in Nat \ {0} : n >= m => n - 1 \in Nat /\ n - 1 >= m - 1
    OBVIOUS
  <2> QED
    BY <2>1 DEF issued
<1>3. /\ primary' = [s \in Sessions |-> primary'[s]]
      /\ loader' = [s \in Sessions |-> loader'[s]]
  BY DEF primary, loader
<1>4. appliedBy' = [s \in Sessions |-> appliedBy'[s]]
  BY DEF SessionTypeOK
<1> QED
  BY <1>1, <1>2, <1>3, <1>4 DEF Stage!Next

-----------------------------------------------------------------------------
(* The primaries after a step.                                             *)
LEMMA FewerPrimaries ==
    ASSUME RefinementInv, NEW s \in Sessions,
           LivePrimaries(s)' \subseteq LivePrimaries(s)
    PROVE  P(s)' = P(s) \/ P(s)' = Nobody
<1>1. CASE LivePrimaries(s)' = {}
  BY <1>1, TheOne DEF P
<1>2. ASSUME NEW l \in LivePrimaries(s)'
      PROVE  P(s)' = P(s)
  <2>1. \A m \in LivePrimaries(s) : P(s) = m
    BY OneLivePrimary DEF RefinementInv
  <2>2. \A m \in LivePrimaries(s)' : m = l
    BY <2>1
  <2>3. TheOneOf(LivePrimaries(s)') = l
    BY <2>2, TheOne
  <2> QED
    BY <2>1, <2>3 DEF P
<1> QED
  BY <1>1, <1>2

LEMMA SweptPrimaries ==
    ASSUME RefinementInv, NEW s \in Sessions, leases' = VL!Expired, now' = now
    PROVE  P(s)' = P(s)
<1>1. LivePrimaries(s)' = LivePrimaries(s)
  BY SweptLeases DEF RefinementInv, LivePrimaries, VL!ActivePrimaries
<1> QED
  BY <1>1 DEF P

LEMMA PrimaryMoves ==
    ASSUME RefinementInv, [Next]_vars, NEW s \in Sessions
    PROVE  \/ P(s)' = P(s)
           \/ P(s)' = Nobody
           \/ P(s) = Nobody /\ P(s)' = nextLease /\ nextLease' = nextLease + 1
<1>1. [VL!Next]_VL!vars
  BY StepLeases
<1>2. now \in Nat /\ now' \in Nat /\ now' >= now
  <2>1. now' = now \/ VL!Tick
    <3>1. CASE UNCHANGED VL!vars
      BY <3>1 DEF VL!vars
    <3>2. CASE VL!Next
      BY <3>2 DEF VL!Next, VL!Expire, VL!Claim, VL!Heartbeat, VL!Release,
         VL!ReleaseSession, VL!PurgeSession
    <3> QED
      BY <1>1, <3>1, <3>2
  <2> QED
    BY <2>1 DEF VL!Tick, RefinementInv, VL!LeaseTypeOK
<1>3. CASE StoreStep
  <2>1. ASSUME NEW l \in LivePrimaries(s)'
        PROVE  l \in LivePrimaries(s)
    <3>1. /\ l \in DOMAIN leases' /\ SessionOf[l] = s
          /\ leases'[l].role = "primary" /\ leases'[l].status = "active"
          /\ leases'[l].expiresAt > now'
      BY <2>1 DEF LivePrimaries, VL!ActivePrimaries
    <3>2. /\ l \in DOMAIN leases
          /\ leases[l].role = "primary" /\ leases[l].status = "active"
          /\ leases'[l].expiresAt = leases[l].expiresAt \/ now < leases[l].expiresAt
      BY <1>3, <3>1 DEF StoreStep, LeaseStep
    <3>3. leases[l].expiresAt \in Nat
      BY <3>2 DEF RefinementInv, VL!LeaseTypeOK, VL!LeaseRecords
    <3>4. leases[l].expiresAt > now
      BY <1>2, <3>1, <3>2, <3>3
    <3> QED
      BY <3>1, <3>2, <3>4 DEF LivePrimaries, VL!ActivePrimaries
  <2> QED
    BY <2>1, FewerPrimaries
<1>4. ASSUME NEW v \in Viewers, NEW nonce \in Nonces \cup {NoNonce},
             NEW requested \in VL!RequestedRoles,
             VL!Claim(v, nonce, requested)
      PROVE  \/ P(s)' = P(s)
             \/ P(s)' = Nobody
             \/ P(s) = Nobody /\ P(s)' = nextLease /\ nextLease' = nextLease + 1
  <2> DEFINE role == VL!ResolveRole(VL!Expired, SessionOf[nextLease],
                                     requested)
  <2>1. /\ DOMAIN leases' = DOMAIN leases \cup {nextLease}
        /\ nextLease \notin DOMAIN leases
        /\ nextLease' = nextLease + 1
        /\ leases'[nextLease] =
              [viewer |-> v, nonce |-> nonce, role |-> role,
               status |-> "active", expiresAt |-> now + LeaseTtl]
        /\ \A l \in DOMAIN leases : leases'[l] = VL!Expired[l]
        /\ VL!Claimable(VL!Expired, SessionOf[nextLease], v, nonce, requested)
        /\ now' = now
    BY <1>4, ClaimShape DEF RefinementInv
  <2>a. role = "primary" =>
           VL!ActivePrimaries(VL!Expired, SessionOf[nextLease]) = {}
    BY <2>1 DEF VL!Claimable
  <2> HIDE DEF role
  <2>3. ASSUME NEW l \in LivePrimaries(s)', l # nextLease
        PROVE  l \in LivePrimaries(s)
    BY <2>1, <2>3, SweptLeases
       DEF LivePrimaries, VL!ActivePrimaries, RefinementInv
  <2>4. CASE nextLease \notin LivePrimaries(s)'
    BY <2>3, <2>4, FewerPrimaries
  <2>5. CASE nextLease \in LivePrimaries(s)'
    <3>1. SessionOf[nextLease] = s /\ role = "primary"
      BY <2>1, <2>5 DEF LivePrimaries, VL!ActivePrimaries
    <3>2. LivePrimaries(s) = {}
      BY <2>a, <3>1, SweptLeases
         DEF LivePrimaries, VL!ActivePrimaries, RefinementInv
    <3>3. P(s) = Nobody
      BY <3>2, TheOne DEF P
    <3>4. \A l \in LivePrimaries(s)' : l = nextLease
      BY <2>3, <3>2
    <3>5. TheOneOf(LivePrimaries(s)') = nextLease
      BY <2>5, <3>4, TheOne
    <3> QED
      BY <2>1, <3>3, <3>5 DEF P
  <2> QED
    BY <2>4, <2>5
<1> QED
  BY <1>1, <1>3, <1>4, KeepsOrClaims DEF RefinementInv

-----------------------------------------------------------------------------
(* The loads after a step.                                                 *)
LoadsOnlyEndIn(s) ==
    \A j \in DOMAIN transactions' :
        transactions'[j].phase = "executing" /\ transactions'[j].session = s =>
            j \in DOMAIN transactions /\ transactions'[j] = transactions[j]

LEMMA FewerLoads ==
    ASSUME RefinementInv, NEW s \in Sessions, LoadsOnlyEndIn(s)
    PROVE  L(s)' = L(s) \/ L(s)' = Nobody
<1>1. \A j \in Executing(s)' : j \in Executing(s)
                              /\ transactions'[j] = transactions[j]
  BY DEF Executing, LoadsOnlyEndIn
<1>2. CASE Executing(s)' = {}
  BY <1>2, TheOne DEF L
<1>3. ASSUME NEW i \in Executing(s)'
      PROVE  L(s)' = L(s)
  <2>1. \A j \in Executing(s) : j = i
    BY <1>1, OneExecuting DEF RefinementInv, Executing
  <2>2. L(s) = transactions[i].lease
    BY <1>1, <2>1, OneLoader
  <2>3. \A j \in Executing(s)' : j = i
    BY <1>1, <2>1
  <2>4. L(s)' = transactions'[i].lease
    <3>1. \A x \in {transactions'[j].lease : j \in Executing(s)'} :
             x = transactions'[i].lease
      BY <2>3
    <3>2. transactions'[i].lease \in {transactions'[j].lease : j \in Executing(s)'}
      OBVIOUS
    <3> QED
      BY <3>1, <3>2, TheOne DEF L
  <2> QED
    BY <1>1, <2>2, <2>4
<1> QED
  BY <1>2, <1>3

(* A call that expires the overdue leases and at most ends loads.          *)
LEMMA EndsLoads ==
    ASSUME RefinementInv, NEW s \in Sessions, LoadsOnlyEndIn(s),
           leases' = VL!Expired, now' = now, appliedBy'[s] = appliedBy[s]
    PROVE  SessionMoves(s)
BY FewerLoads, SweptPrimaries DEF SessionMoves, SameLoads

(* The caller a lease check authorizes is the session's primary.           *)
LEMMA CallerIsPrimary ==
    ASSUME RefinementInv, NEW l, Authorizes(l), NEW s \in Sessions,
           s = SessionOf[l]
    PROVE  P(s) = l /\ P(s) # Nobody
<1>1. l \in LivePrimaries(s) /\ l \in DOMAIN leases
  BY SweptLeases DEF Authorizes, VL!IsPrimary, VL!ActivePrimaries,
     LivePrimaries, RefinementInv
<1> QED
  BY <1>1, OneLivePrimary, LeasesAreSomebody DEF RefinementInv

LEMMA StartsLoad ==
    ASSUME RefinementInv, NEW s \in Sessions, NEW l, NEW i, NEW comp, NEW a,
           AuthorizeStageLoad(l, i, comp, a)
    PROVE  SessionMoves(s)
<1>1. /\ leases' = VL!Expired /\ now' = now /\ appliedBy' = appliedBy
      /\ SBP!Consume(i, l, comp, a) /\ Authorizes(l)
  BY SameConsume DEF AuthorizeStageLoad, SB!Consume
<1>2. /\ i \in DOMAIN transactions /\ i \in DOMAIN transactions'
      /\ transactions[i].phase = "pending"
      /\ transactions[i].lease = l
      /\ transactions'[i].phase = "executing"
      /\ transactions'[i].lease = transactions[i].lease
      /\ transactions'[i].session = transactions[i].session
      /\ \A j \in DOMAIN transactions' \ {i} :
            transactions'[j].phase = "executing" =>
                j \in DOMAIN transactions /\ transactions'[j] = transactions[j]
  BY <1>1, SBP!ConsumeStartsOne, BoundsAssumption, NoneAssumption,
     LeaseBoundsAssumption, SessionOfAssumption
     DEF RefinementInv, SBP!OpenInv
<1>3. transactions[i].session = SessionOf[l]
  BY <1>2 DEF RefinementInv, SBP!OpenInv, SBP!SessionIsOfLease
<1>4. CASE s # transactions[i].session
  BY <1>1, <1>2, <1>4, EndsLoads DEF LoadsOnlyEndIn
<1>5. CASE s = transactions[i].session
  <2>1. P(s) = l /\ P(s) # Nobody /\ P(s)' = P(s)
    BY <1>1, <1>3, <1>5, CallerIsPrimary, SweptPrimaries
  <2>2. Executing(s) = {}
    <3> SUFFICES ASSUME NEW j \in Executing(s) PROVE FALSE
      OBVIOUS
    <3>1. i = j
      BY <1>2, <1>5, OneExecuting DEF RefinementInv
    <3> QED
      BY <1>2, <3>1 DEF Executing
  <2>3. L(s) = Nobody
    BY <2>2, NoLoader
  <2>4. \A j \in Executing(s)' : j = i
    BY <1>2, <2>2 DEF Executing
  <2>5. i \in Executing(s)'
    BY <1>2, <1>5 DEF Executing
  <2>6. L(s)' = l
    <3>1. \A x \in {transactions'[j].lease : j \in Executing(s)'} : x = l
      BY <1>2, <2>4
    <3>2. l \in {transactions'[j].lease : j \in Executing(s)'}
      BY <1>2, <2>5
    <3> QED
      BY <3>1, <3>2, TheOne DEF L
  <2> QED
    BY <1>1, <2>1, <2>3, <2>6 DEF SessionMoves
<1> QED
  BY <1>4, <1>5

LEMMA CommitsLoad ==
    ASSUME RefinementInv, NEW s \in Sessions, NEW i \in DOMAIN transactions,
           NEW r, ConfirmStageBinding(i, r), SB!CompleteSuccess(i, r),
           appliedBy' = [appliedBy EXCEPT ![transactions[i].session] =
                           Append(@, transactions[i].lease)]
    PROVE  SessionMoves(s)
<1> DEFINE l == transactions[i].lease
<1>1. leases' = VL!Expired /\ now' = now /\ Authorizes(l)
  BY DEF ConfirmStageBinding, SB!CompleteSuccess
<1>2. /\ SBP!LoadsOnlyEnd
      /\ transactions[i].phase = "executing"
      /\ i \in DOMAIN transactions' => transactions'[i].phase = "active"
  BY SameComplete, SBP!SuccessEndsOne, BoundsAssumption, NoneAssumption,
     LeaseBoundsAssumption, SessionOfAssumption DEF RefinementInv, SBP!OpenInv
<1>3. transactions[i].session = SessionOf[l]
  BY DEF RefinementInv, SBP!OpenInv, SBP!SessionIsOfLease
<1>4. LoadsOnlyEndIn(s)
  BY <1>2 DEF SBP!LoadsOnlyEnd, LoadsOnlyEndIn
<1>5. CASE s # transactions[i].session
  <2>1. appliedBy'[s] = appliedBy[s]
    BY <1>5 DEF RefinementInv, SessionTypeOK
  <2> QED
    BY <1>1, <1>4, <2>1, EndsLoads
<1>6. CASE s = transactions[i].session
  <2>1. P(s) = l /\ P(s) # Nobody /\ P(s)' = P(s)
    BY <1>1, <1>3, <1>6, CallerIsPrimary, SweptPrimaries
  <2>2. i \in Executing(s) /\ \A j \in Executing(s) : j = i
    BY <1>2, <1>6, OneExecuting DEF RefinementInv, Executing
  <2>3. L(s) = l
    BY <2>2, OneLoader
  <2>4. Executing(s)' = {}
    BY <1>2, <1>4, <2>2 DEF Executing, LoadsOnlyEndIn
  <2>5. L(s)' = Nobody
    BY <2>4, TheOne DEF L
  <2>6. appliedBy'[s] = Append(appliedBy[s], L(s))
    BY <1>6, <2>3 DEF RefinementInv, SessionTypeOK
  <2> QED
    BY <2>1, <2>3, <2>5, <2>6 DEF SessionMoves
<1> QED
  BY <1>5, <1>6

LEMMA EverySessionMoves ==
    ASSUME RefinementInv, [Next]_vars, NEW s \in Sessions
    PROVE  SessionMoves(s)
<1>1. ASSUME UNCHANGED <<transactions, appliedBy>>
      PROVE  SessionMoves(s)
  <2>1. SameLoads(s)
    BY <1>1 DEF SameLoads, L, Executing
  <2> QED
    BY <2>1, PrimaryMoves DEF SessionMoves
<1>2. ASSUME SBP!LoadsOnlyEnd, leases' = VL!Expired, now' = now,
             appliedBy' = appliedBy
      PROVE  SessionMoves(s)
  BY <1>2, EndsLoads DEF SBP!LoadsOnlyEnd, LoadsOnlyEndIn
<1>3. /\ SBP!Sweep => SBP!LoadsOnlyEnd
      /\ \A l \in Leases, c \in ClientRequests, comp \in Compositions :
            SBP!CreatePending(l, c, comp) => SBP!LoadsOnlyEnd
      /\ \A k \in SBP!Intents :
            SBP!CancelPendingByIntent(k) => SBP!LoadsOnlyEnd
      /\ \A i, l, comp, a :
            SBP!FailBeforeMutation(i, l, comp, a) => SBP!LoadsOnlyEnd
      /\ \A i, r : SBP!CompleteFailed(i, r) => SBP!LoadsOnlyEnd
  BY SBP!OthersOnlyEndLoads, BoundsAssumption, NoneAssumption,
     LeaseBoundsAssumption, SessionOfAssumption DEF RefinementInv, SBP!OpenInv
<1>4. CASE Tick \/ Refused \/ UNCHANGED vars
  BY <1>1, <1>4 DEF Tick, Refused, vars, stageVars
<1>5. CASE Query
  <2>1. SBP!Sweep /\ leases' = VL!Expired /\ now' = now /\ appliedBy' = appliedBy
    BY <1>5, SameSweep DEF Query, SB!Sweep
  <2> QED
    BY <1>2, <1>3, <2>1
<1>6. ASSUME NEW v, NEW nonce, NEW requested, Claim(v, nonce, requested)
      PROVE  SessionMoves(s)
  BY <1>1, <1>6 DEF Claim, stageVars
<1>7. ASSUME NEW l \in DOMAIN leases, Heartbeat(l) \/ Release(l)
      PROVE  SessionMoves(s)
  BY <1>1, <1>7 DEF Heartbeat, Release, stageVars
<1>8. ASSUME NEW l \in DOMAIN leases, NEW c \in ClientRequests,
             NEW comp \in Compositions, Preauthorize(l, c, comp)
      PROVE  SessionMoves(s)
  <2>1. /\ SBP!CreatePending(l, c, comp) /\ l \in Leases
        /\ leases' = VL!Expired /\ now' = now /\ appliedBy' = appliedBy
    BY <1>8, SameCreatePending, LeasesAreLeases
       DEF Preauthorize, SB!CreatePending, RefinementInv
  <2> QED
    BY <1>2, <1>3, <2>1
<1>9. ASSUME NEW l \in DOMAIN leases, NEW c \in ClientRequests,
             c # NoRequest, CancelPreauthorization(l, c)
      PROVE  SessionMoves(s)
  <2>1. /\ SBP!CancelPendingByIntent(<<l, c>>)
        /\ leases' = VL!Expired /\ now' = now /\ appliedBy' = appliedBy
    BY <1>9, SameCancel DEF CancelPreauthorization, SB!CancelPendingByIntent
  <2>2. <<l, c>> \in SBP!Intents
    BY <1>9, LeasesAreLeases DEF SBP!Intents, RefinementInv
  <2> QED
    BY <1>2, <1>3, <2>1, <2>2
<1>10. ASSUME NEW l, NEW i, NEW comp, NEW a,
              FailStageBindingBeforeMutation(l, i, comp, a)
       PROVE  SessionMoves(s)
  <2>1. /\ SBP!FailBeforeMutation(i, l, comp, a)
        /\ leases' = VL!Expired /\ now' = now /\ appliedBy' = appliedBy
    BY <1>10, SameFail DEF FailStageBindingBeforeMutation, SB!FailBeforeMutation
  <2> QED
    BY <1>2, <1>3, <2>1
<1>11. ASSUME NEW i \in DOMAIN transactions, NEW r, ConfirmStageBinding(i, r)
       PROVE  SessionMoves(s)
  <2>1. CASE /\ SB!CompleteSuccess(i, r)
             /\ appliedBy' = [appliedBy EXCEPT ![transactions[i].session] =
                                Append(@, transactions[i].lease)]
    BY <1>11, <2>1, CommitsLoad
  <2>2. CASE SB!CompleteFailed(i, r) /\ appliedBy' = appliedBy
    <3>1. /\ SBP!CompleteFailed(i, r)
          /\ leases' = VL!Expired /\ now' = now
      BY <1>11, <2>2, SameComplete DEF ConfirmStageBinding, SB!CompleteFailed
    <3> QED
      BY <1>2, <1>3, <2>2, <3>1
  <2> QED
    BY <1>11, <2>1, <2>2 DEF ConfirmStageBinding
<1>12. ASSUME NEW x, CloseSession(x) \/ PurgeSession(x)
       PROVE  SessionMoves(s)
  BY <1>1, <1>12 DEF CloseSession, PurgeSession, stageVars
<1> QED
  BY <1>4, <1>5, <1>6, <1>7, <1>8, <1>9, <1>10, <1>11, <1>12, StartsLoad
     DEF Next

(***************************************************************************)
(* The authority implements the exclusive stage: a load is started by the  *)
(* primary of its session, one at a time, and committed only while the     *)
(* lease that started it is the primary still.                             *)
(***************************************************************************)
THEOREM Implements == Spec => ImplementsExclusiveStage
<1>1. Init => Stage!Init
  <2> SUFFICES ASSUME Init PROVE Stage!Init
    OBVIOUS
  <2>1. \A s \in Sessions : P(s) = Nobody /\ L(s) = Nobody
    <3>1. \A s : LivePrimaries(s) = {} /\ Executing(s) = {}
      BY DEF Init, VL!Init, SB!Init, LivePrimaries, Executing,
         VL!ActivePrimaries
    <3> QED
      BY <3>1, NoLoader, TheOne DEF P
  <2>2. /\ primary = [s \in Sessions |-> Nobody]
        /\ loader = [s \in Sessions |-> Nobody]
    BY <2>1 DEF P, L, primary, loader
  <2>3. issued = 0 /\ appliedBy = [s \in Sessions |-> <<>>]
    BY DEF Init, VL!Init, issued
  <2> QED
    BY <2>2, <2>3 DEF Stage!Init
<1>2. RefinementInv /\ RefinementInv' /\ [Next]_vars => [Stage!Next]_Stage!vars
  <2> SUFFICES ASSUME RefinementInv, RefinementInv', [Next]_vars
               PROVE  Stage!Next
    OBVIOUS
  <2>1. nextLease \in Nat \ {0} /\ nextLease' \in Nat \ {0}
    BY LeaseBoundsAssumption DEF RefinementInv, VL!LeaseTypeOK
  <2>2. nextLease' >= nextLease
    <3>1. StoreStep \/ nextLease' = nextLease + 1
      BY StepLeases, KeepsOrClaims DEF RefinementInv, VL!Claim
    <3> QED
      BY <2>1, <3>1 DEF StoreStep
  <2> QED
    BY <2>1, <2>2, EverySessionMoves, AbstractStep DEF RefinementInv
<1> QED
  BY <1>1, <1>2, RefinementInvHolds, PTL
     DEF Spec, ImplementsExclusiveStage, Stage!Spec

-----------------------------------------------------------------------------
(***************************************************************************)
(* What follows from ExclusiveStage.                                       *)
(***************************************************************************)
StageTypeOK ==
    /\ issued \in Nat
    /\ primary \in [Sessions -> Nat \cup {Nobody}]
    /\ loader \in [Sessions -> Nat \cup {Nobody}]
    /\ appliedBy \in [Sessions -> Seq(Nat)]

(***************************************************************************)
(* Nothing applied is younger than the primary: a lease becomes primary    *)
(* when it is issued, so it is younger than all that were primary before.  *)
(***************************************************************************)
PrimaryIsYoungest ==
    \A s \in Sessions :
        /\ primary[s] # Nobody => primary[s] <= issued
        /\ \A n \in 1 .. Len(appliedBy[s]) :
              /\ appliedBy[s][n] <= issued
              /\ primary[s] # Nobody => appliedBy[s][n] <= primary[s]

OrderInv == StageTypeOK /\ PrimaryIsYoungest /\ Stage!AppliedInGrantOrder

LEMMA InitOrder == Stage!Init => OrderInv
BY DEF Stage!Init, OrderInv, StageTypeOK, PrimaryIsYoungest,
       Stage!AppliedInGrantOrder

(* The log after a commit: the old one with its loader at the end.         *)
LEMMA CommittedApplied ==
    ASSUME StageTypeOK, NEW s \in Sessions, Stage!Commit(s)
    PROVE  /\ primary[s] \in Nat
           /\ Len(appliedBy[s]) \in Nat
           /\ Len(appliedBy'[s]) = Len(appliedBy[s]) + 1
           /\ appliedBy'[s][Len(appliedBy[s]) + 1] = primary[s]
           /\ \A n \in 1 .. Len(appliedBy[s]) : appliedBy'[s][n] = appliedBy[s][n]
<1>1. appliedBy[s] \in Seq(Nat) /\ primary[s] \in Nat /\ loader[s] = primary[s]
  BY DEF Stage!Commit, StageTypeOK
<1>2. appliedBy'[s] = Append(appliedBy[s], primary[s])
  BY <1>1 DEF Stage!Commit
<1> QED
  BY <1>1, <1>2

LEMMA NextStageType == StageTypeOK /\ [Stage!Next]_Stage!vars => StageTypeOK'
<1> SUFFICES ASSUME StageTypeOK, Stage!Next PROVE StageTypeOK'
  BY DEF Stage!vars, StageTypeOK
<1>1. ASSUME NEW s \in Sessions
      PROVE  /\ primary'[s] \in Nat \cup {Nobody}
             /\ loader'[s] \in Nat \cup {Nobody}
             /\ appliedBy'[s] \in Seq(Nat)
  <2>1. /\ primary[s] \in Nat \cup {Nobody}
        /\ loader[s] \in Nat \cup {Nobody}
        /\ appliedBy[s] \in Seq(Nat)
        /\ issued \in Nat /\ issued' \in Nat
    BY DEF StageTypeOK, Stage!Next
  <2>2. Stage!SessionStep(s)
    BY DEF Stage!Next
  <2>3. CASE Stage!Commit(s)
    BY <2>1, <2>3 DEF Stage!Commit
  <2>4. CASE Stage!Grant(s)
    BY <2>1, <2>4 DEF Stage!Grant
  <2>5. CASE Stage!Revoke(s) \/ Stage!Start(s) \/ Stage!Abort(s) \/ Stage!Stay(s)
    BY <2>1, <2>5 DEF Stage!Revoke, Stage!Start, Stage!Abort, Stage!Stay
  <2> QED
    BY <2>2, <2>3, <2>4, <2>5 DEF Stage!SessionStep
<1>2. /\ primary' = [s \in Sessions |-> primary'[s]]
      /\ loader' = [s \in Sessions |-> loader'[s]]
      /\ appliedBy' = [s \in Sessions |-> appliedBy'[s]]
      /\ issued' \in Nat
  BY DEF Stage!Next
<1>3. primary' \in [Sessions -> Nat \cup {Nobody}]
  BY <1>1, <1>2
<1>4. loader' \in [Sessions -> Nat \cup {Nobody}]
  BY <1>1, <1>2
<1>5. appliedBy' \in [Sessions -> Seq(Nat)]
  BY <1>1, <1>2
<1> QED
  BY <1>2, <1>3, <1>4, <1>5 DEF StageTypeOK

LEMMA NextOrder == OrderInv /\ [Stage!Next]_Stage!vars => OrderInv'
<1> SUFFICES ASSUME OrderInv, Stage!Next PROVE OrderInv'
  BY DEF Stage!vars, OrderInv, StageTypeOK, PrimaryIsYoungest,
         Stage!AppliedInGrantOrder
<1>1. StageTypeOK /\ StageTypeOK'
  BY NextStageType DEF OrderInv
<1>2. ASSUME NEW s \in Sessions
      PROVE  /\ primary'[s] # Nobody => primary'[s] <= issued'
             /\ \A n \in 1 .. Len(appliedBy'[s]) :
                   /\ appliedBy'[s][n] <= issued'
                   /\ primary'[s] # Nobody => appliedBy'[s][n] <= primary'[s]
             /\ \A m, n \in 1 .. Len(appliedBy'[s]) :
                   m <= n => appliedBy'[s][m] <= appliedBy'[s][n]
  <2>1. /\ issued \in Nat /\ issued' \in Nat /\ issued <= issued'
        /\ primary[s] \in Nat \cup {Nobody}
        /\ appliedBy[s] \in Seq(Nat)
        /\ Stage!SessionStep(s)
    BY <1>1 DEF StageTypeOK, Stage!Next
  <2>2. /\ primary[s] # Nobody => primary[s] <= issued
        /\ \A n \in 1 .. Len(appliedBy[s]) :
              /\ appliedBy[s][n] \in Nat
              /\ appliedBy[s][n] <= issued
              /\ primary[s] # Nobody => appliedBy[s][n] <= primary[s]
        /\ \A m, n \in 1 .. Len(appliedBy[s]) :
              m <= n => appliedBy[s][m] <= appliedBy[s][n]
    BY <2>1 DEF OrderInv, PrimaryIsYoungest, Stage!AppliedInGrantOrder
  <2>3. CASE Stage!Grant(s)
    <3>1. /\ appliedBy'[s] = appliedBy[s]
          /\ primary'[s] \in Nat /\ issued < primary'[s] /\ primary'[s] <= issued'
      BY <2>1, <2>3 DEF Stage!Grant
    <3>2. \A n \in 1 .. Len(appliedBy[s]) :
             appliedBy[s][n] <= issued' /\ appliedBy[s][n] <= primary'[s]
      BY <2>1, <2>2, <3>1
    <3> QED
      BY <2>2, <3>1, <3>2
  <2>4. CASE Stage!Revoke(s) \/ Stage!Start(s) \/ Stage!Abort(s) \/ Stage!Stay(s)
    <3>1. appliedBy'[s] = appliedBy[s] /\ primary'[s] \in {primary[s], Nobody}
      BY <2>4 DEF Stage!Revoke, Stage!Start, Stage!Abort, Stage!Stay
    <3> QED
      BY <2>1, <2>2, <3>1
  <2>5. CASE Stage!Commit(s)
    <3>1. /\ primary[s] \in Nat /\ primary[s] # Nobody
          /\ primary'[s] = primary[s]
      BY <2>1, <2>5 DEF Stage!Commit
    <3> DEFINE len == Len(appliedBy[s])
    <3>2. /\ len \in Nat
          /\ Len(appliedBy'[s]) = len + 1
          /\ appliedBy'[s][len + 1] = primary[s]
          /\ \A n \in 1 .. len : appliedBy'[s][n] = appliedBy[s][n]
      BY <1>1, <2>5, CommittedApplied
    <3>3. ASSUME NEW n \in 1 .. len + 1
          PROVE  /\ n \in 1 .. len \/ n = len + 1
                 /\ appliedBy'[s][n] \in Nat
                 /\ appliedBy'[s][n] <= primary[s]
      BY <2>2, <3>1, <3>2, <3>3
    <3>4. ASSUME NEW m \in 1 .. len + 1, NEW n \in 1 .. len + 1, m <= n
          PROVE  appliedBy'[s][m] <= appliedBy'[s][n]
      <4>1. CASE n = len + 1
        BY <3>2, <3>3, <4>1
      <4>2. CASE n \in 1 .. len
        BY <2>2, <3>2, <3>4, <4>2
      <4> QED
        BY <3>3, <4>1, <4>2
    <3> QED
      BY <2>1, <2>2, <3>1, <3>2, <3>3, <3>4
  <2> QED
    BY <2>1, <2>3, <2>4, <2>5 DEF Stage!SessionStep
<1> QED
  BY <1>1, <1>2 DEF OrderInv, PrimaryIsYoungest, Stage!AppliedInGrantOrder

(***************************************************************************)
(* In ExclusiveStage a later primary's load is never replaced by an        *)
(* earlier primary's.                                                      *)
(***************************************************************************)
THEOREM GrantOrder == Stage!Spec => []Stage!AppliedInGrantOrder
<1>1. OrderInv => Stage!AppliedInGrantOrder
  BY DEF OrderInv
<1> QED
  BY <1>1, InitOrder, NextOrder, PTL DEF Stage!Spec

(***************************************************************************)
(* And so for the authority: once a later lease has loaded a stage of the  *)
(* session, no earlier lease's load replaces it.                           *)
(***************************************************************************)
THEOREM LaterLeaseWins == Spec => []Stage!AppliedInGrantOrder
BY Implements, GrantOrder, PTL DEF ImplementsExclusiveStage

=============================================================================
