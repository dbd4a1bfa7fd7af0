------------------------ MODULE CallbackOutboxProofs ------------------------
(***************************************************************************)
(* The callback outbox never shows an entry as delivered that the cloud    *)
(* has not accepted, keeps what the cloud has acknowledged, within the     *)
(* limits AcknowledgedIsDelivered names, and posts no entry more often     *)
(* than PostsBounded says.                                                 *)
(*                                                                         *)
(* OutboxInv is inductive as it stands: the type invariant keeps what a    *)
(* pass posts among the entries, and both the memory and the file are      *)
(* covered by DeliveredWasAccepted, because a crash makes the one from the *)
(* other and a write the other from the one.  Calm is what is to be added  *)
(* for the second, and PostsInv for the third: it weighs the posts of an   *)
(* entry against the attempts the file knows and the posts under way.      *)
(***************************************************************************)
EXTENDS CallbackOutbox, FiniteSetTheorems, TLAPS

OutboxInv == OutboxTypeOK /\ DeliveredWasAccepted

(* A failed attempt changes no entry into a delivered one (attemptDelivery *)
(* after its catch).                                                       *)
LEMMA SettledEntry ==
    ASSUME NEW e \in Entries
    PROVE  /\ Settled(e) \in Entries
           /\ Settled(e).status = "delivered" => e.status = "delivered"
           /\ Attempted(e) \in Entries
           /\ Attempted(e).status = e.status
  BY DEF Entries, Settled, Attempted, Statuses

(* What the places of a pass are: At moves one pass (deliverPending).      *)
LEMMA PassMoves ==
    ASSUME OutboxTypeOK, NEW p \in Passes, NEW i \in DOMAIN entries \cup {0},
           NEW state \in {"idle", "between", "posting"}, At(p, state, i),
           DOMAIN entries' = DOMAIN entries,
           state = "posting" => i \in DOMAIN entries \cap WithTarget
    PROVE  /\ pass' \in [Passes -> PassStates]
           /\ \A q \in Passes : pass'[q].state = "posting" =>
                 pass'[q].at \in DOMAIN entries' \cap WithTarget
  <1>1. i \in 0 .. MaxEntries
    BY OutboxAssumption DEF OutboxTypeOK
  <1>2. [state |-> state, at |-> i] \in PassStates
    BY <1>1 DEF PassStates
  <1> QED
    BY <1>2 DEF At, OutboxTypeOK

LEMMA OutboxStep == OutboxInv /\ [Next]_vars => OutboxInv'
  <1> SUFFICES ASSUME OutboxInv, [Next]_vars
               PROVE  OutboxInv'
    OBVIOUS
  <1> USE DEF OutboxInv
  <1>1. CASE Enqueue
    <2>1. /\ DOMAIN entries' = DOMAIN entries \cup {issued + 1}
          /\ entries' \in [DOMAIN entries' -> Entries]
          /\ \A i \in DOMAIN entries' :
                entries'[i].status = "delivered" => i \in accepted
      BY <1>1 DEF Enqueue, OutboxTypeOK, DeliveredWasAccepted, Entries, Statuses
    <2>2. disk' = disk \/ disk' = entries'
      BY <1>1 DEF Enqueue, Persist, PersistFails
    <2>3. faults' \in 0 .. MaxFaults
      BY <1>1, OutboxAssumption DEF Enqueue, Persist, PersistFails, OutboxTypeOK
    <2>4. DeliveredWasAccepted'
      BY <1>1, <2>1, <2>2 DEF Enqueue, cloud, counters, DeliveredWasAccepted
    <2>5. OutboxTypeOK'
      BY <1>1, <2>1, <2>2, <2>3, OutboxAssumption
         DEF Enqueue, cloud, counters, OutboxTypeOK
    <2> QED
      BY <2>4, <2>5
  <1>2. ASSUME NEW p \in Passes, StartPass(p) \/ EndPass(p)
        PROVE  OutboxInv'
    <2>1. /\ pass' \in [Passes -> PassStates]
          /\ \A q \in Passes : pass'[q].state = "posting" =>
                pass'[q].at \in DOMAIN entries' \cap WithTarget
      BY <1>2, PassMoves DEF StartPass, EndPass
    <2> QED
      BY <1>2, <2>1
         DEF StartPass, EndPass, cloud, counters, OutboxTypeOK, DeliveredWasAccepted
  <1>3. ASSUME NEW p \in Passes, NEW i \in Ahead(p), Post(p, i)
        PROVE  OutboxInv'
    <2>1. i \in DOMAIN entries /\ entries[i] \in Entries
      BY <1>3 DEF Ahead, OutboxTypeOK
    <2>2. /\ DOMAIN entries' = DOMAIN entries
          /\ entries' \in [DOMAIN entries' -> Entries]
          /\ \A j \in DOMAIN entries' : entries'[j].status = entries[j].status
      BY <1>3, <2>1, SettledEntry DEF Post, OutboxTypeOK
    <2>3. /\ pass' \in [Passes -> PassStates]
          /\ \A q \in Passes : pass'[q].state = "posting" =>
                pass'[q].at \in DOMAIN entries' \cap WithTarget
      BY <1>3, <2>1, <2>2, PassMoves DEF Post
    <2>4. posts' \in [Ids -> Nat]
      <3>1. posts \in [Ids -> Nat] /\ posts' = [posts EXCEPT ![i] = @ + 1]
        BY <1>3 DEF Post, OutboxTypeOK
      <3>2. i \in Ids => posts[i] + 1 \in Nat
        BY <3>1
      <3> QED
        BY <3>1, <3>2
    <2>5. DeliveredWasAccepted'
      BY <1>3, <2>2 DEF Post, cloud, counters, DeliveredWasAccepted
    <2> QED
      BY <1>3, <2>2, <2>3, <2>4, <2>5 DEF Post, cloud, counters, OutboxTypeOK
  <1>4. ASSUME NEW p \in Passes, NEW i \in Ahead(p), FailWithoutTarget(p, i)
        PROVE  OutboxInv'
    <2>1. i \in DOMAIN entries /\ entries[i] \in Entries
      BY <1>4 DEF Ahead, OutboxTypeOK
    <2>a. /\ Settled(Attempted(entries[i])) \in Entries
          /\ Settled(Attempted(entries[i])).status = "delivered"
               => entries[i].status = "delivered"
      BY <2>1, SettledEntry
    <2>2. /\ DOMAIN entries' = DOMAIN entries
          /\ entries' \in [DOMAIN entries' -> Entries]
          /\ \A j \in DOMAIN entries' :
                entries'[j].status = "delivered" => entries[j].status = "delivered"
      BY <1>4, <2>1, <2>a DEF FailWithoutTarget, OutboxTypeOK
    <2>3. /\ pass' \in [Passes -> PassStates]
          /\ \A q \in Passes : pass'[q].state = "posting" =>
                pass'[q].at \in DOMAIN entries' \cap WithTarget
      BY <1>4, <2>1, <2>2, PassMoves DEF FailWithoutTarget
    <2>4. disk' = disk \/ disk' = entries'
      BY <1>4 DEF FailWithoutTarget, Persist, PersistFails
    <2>5. faults' \in 0 .. MaxFaults
      BY <1>4, OutboxAssumption
         DEF FailWithoutTarget, Persist, PersistFails, OutboxTypeOK
    <2>6. DeliveredWasAccepted'
      BY <1>4, <2>2, <2>4 DEF FailWithoutTarget, cloud, counters, DeliveredWasAccepted
    <2> QED
      BY <1>4, <2>2, <2>3, <2>4, <2>5, <2>6
         DEF FailWithoutTarget, cloud, counters, OutboxTypeOK
  <1>5. ASSUME NEW p \in Passes, Accept(p)
        PROVE  OutboxInv'
    <2> DEFINE i == pass[p].at
               delivered == [entries[i] EXCEPT !.status = "delivered"]
    <2>1. i \in DOMAIN entries /\ i \in WithTarget /\ entries[i] \in Entries
      BY <1>5 DEF Accept, OutboxTypeOK
    <2>2. delivered \in Entries /\ Settled(delivered) \in Entries
      BY <2>1, SettledEntry DEF Entries, Statuses
    <2>3. \/ entries' = [entries EXCEPT ![i] = delivered]
          \/ entries' = [entries EXCEPT ![i] = Settled(delivered)]
      BY <1>5 DEF Accept
    <2>4. accepted' = accepted \cup {i} /\ acknowledged' = acknowledged \cup {i}
      BY <1>5 DEF Accept
    <2>5. /\ DOMAIN entries' = DOMAIN entries
          /\ entries' \in [DOMAIN entries' -> Entries]
      BY <2>1, <2>2, <2>3 DEF OutboxTypeOK
    <2>6. \A j \in DOMAIN entries' :
             entries'[j].status = "delivered" => j \in accepted'
      BY <2>1, <2>3, <2>4, <2>5 DEF DeliveredWasAccepted, OutboxTypeOK
    <2>7. disk' = disk \/ disk' = entries'
      BY <1>5 DEF Accept, Persist, PersistFails
    <2>8. faults' \in 0 .. MaxFaults
      BY <1>5, OutboxAssumption DEF Accept, Persist, PersistFails, OutboxTypeOK
    <2>9. At(p, "between", i) \/ At(p, "idle", 0)
      BY <1>5 DEF Accept
    <2>10. /\ pass' \in [Passes -> PassStates]
           /\ \A q \in Passes : pass'[q].state = "posting" =>
                 pass'[q].at \in DOMAIN entries' \cap WithTarget
      BY <2>1, <2>5, <2>9, PassMoves
    <2>11. DeliveredWasAccepted'
      BY <2>4, <2>6, <2>7 DEF DeliveredWasAccepted
    <2>12. /\ accepted' \subseteq WithTarget
           /\ acknowledged' \subseteq accepted'
      BY <2>1, <2>4 DEF OutboxTypeOK
    <2> QED
      BY <1>5, <2>5, <2>7, <2>8, <2>10, <2>11, <2>12 DEF Accept, counters, OutboxTypeOK
  <1>6. ASSUME NEW p \in Passes, Fail(p)
        PROVE  OutboxInv'
    <2> DEFINE i == pass[p].at
    <2>1. i \in DOMAIN entries /\ i \in WithTarget /\ entries[i] \in Entries
      BY <1>6 DEF Fail, OutboxTypeOK
    <2>2. accepted' \in {accepted, accepted \cup {i}} /\ acknowledged' = acknowledged
      BY <1>6 DEF Fail
    <2>3. /\ DOMAIN entries' = DOMAIN entries
          /\ entries' \in [DOMAIN entries' -> Entries]
          /\ \A j \in DOMAIN entries' :
                entries'[j].status = "delivered" => entries[j].status = "delivered"
      BY <1>6, <2>1, SettledEntry DEF Fail, OutboxTypeOK
    <2>4. disk' = disk \/ disk' = entries'
      BY <1>6 DEF Fail, Persist, PersistFails
    <2>5. faults' \in 0 .. MaxFaults
      BY <1>6, OutboxAssumption DEF Fail, Persist, PersistFails, OutboxTypeOK
    <2>6. At(p, "between", i) \/ At(p, "idle", 0)
      BY <1>6 DEF Fail
    <2>7. /\ pass' \in [Passes -> PassStates]
          /\ \A q \in Passes : pass'[q].state = "posting" =>
                pass'[q].at \in DOMAIN entries' \cap WithTarget
      BY <2>1, <2>3, <2>6, PassMoves
    <2>8. DeliveredWasAccepted'
      BY <2>2, <2>3, <2>4 DEF DeliveredWasAccepted
    <2> QED
      BY <1>6, <2>1, <2>2, <2>3, <2>4, <2>5, <2>7, <2>8 DEF Fail, OutboxTypeOK
  <1>7. CASE Restart
    <2>1. PICK reached \in SUBSET Posting :
             accepted' = accepted \cup {pass[p].at : p \in reached}
      BY <1>7 DEF Restart
    <2>2. accepted' \subseteq WithTarget /\ accepted \subseteq accepted'
      BY <2>1 DEF Posting, OutboxTypeOK
    <2>3. /\ pass' \in [Passes -> PassStates]
          /\ \A q \in Passes : pass'[q].state = "idle"
      BY <1>7, OutboxAssumption DEF Restart, Idle, PassStates
    <2>4. crashes' \in 0 .. MaxCrashes
      BY <1>7, OutboxAssumption DEF Restart, OutboxTypeOK
    <2>5. DeliveredWasAccepted'
      BY <1>7, <2>2 DEF Restart, DeliveredWasAccepted
    <2> QED
      BY <1>7, <2>2, <2>3, <2>4, <2>5 DEF Restart, OutboxTypeOK
  <1>8. CASE UNCHANGED vars
    BY <1>8 DEF vars, cloud, counters, OutboxTypeOK, DeliveredWasAccepted
  <1> QED
    BY <1>1, <1>2, <1>3, <1>4, <1>5, <1>6, <1>7, <1>8 DEF Next

LEMMA OutboxInit == Init => OutboxInv
  <1> SUFFICES ASSUME Init PROVE OutboxInv
    OBVIOUS
  <1>1. pass \in [Passes -> PassStates] /\ \A p \in Passes : pass[p].state = "idle"
    <2>1. Idle \in PassStates /\ Idle.state = "idle"
      BY OutboxAssumption DEF Idle, PassStates
    <2> QED
      BY <2>1 DEF Init
  <1>2. posts \in [Ids -> Nat] /\ overlapped \in BOOLEAN
    BY DEF Init
  <1>3. /\ DOMAIN entries = {} /\ DOMAIN disk = {}
        /\ entries \in [DOMAIN entries -> Entries]
        /\ disk \in [DOMAIN disk -> Entries]
    BY DEF Init
  <1>4. OutboxTypeOK
    BY <1>1, <1>2, <1>3, OutboxAssumption DEF Init, OutboxTypeOK
  <1>5. DeliveredWasAccepted
    BY <1>3 DEF DeliveredWasAccepted
  <1> QED
    BY <1>4, <1>5 DEF OutboxInv

(* The outbox is always of its type (CallbackOutbox in callbackOutbox.ts). *)
THEOREM OutboxTypeCorrect == Spec => []OutboxTypeOK
  BY OutboxInit, OutboxStep, PTL DEF Spec, OutboxInv

(* An entry shown as delivered was accepted by the cloud, through every    *)
(* interleaving of passes, failing write and crash (attemptDelivery).      *)
THEOREM OnlyAcceptedDelivered == Spec => []DeliveredWasAccepted
  BY OutboxInit, OutboxStep, PTL DEF Spec, OutboxInv

-----------------------------------------------------------------------------
(***************************************************************************)
(* What was acknowledged stays delivered while passes do not overlap and   *)
(* no write fails.  Then one pass at most is under way, what it posts is   *)
(* pending, so that its end touches no entry that is delivered, and the    *)
(* file says the same of acknowledged entries as the memory.               *)
(***************************************************************************)
OnePass ==
    \A p, q \in Passes : pass[p].state # "idle" /\ pass[q].state # "idle" => p = q

(* What holds while no passes have overlapped and no write has failed.     *)
Calm ==
    /\ OnePass
    /\ \A p \in Passes :
          pass[p].state = "posting" => entries[pass[p].at].status = "pending"
    /\ \A i \in acknowledged \cap DOMAIN entries : entries[i].status = "delivered"
    /\ \A i \in acknowledged \cap DOMAIN disk : disk[i].status = "delivered"

AcknowledgedInv ==
    /\ OutboxInv
    /\ acknowledged \subseteq 1 .. issued
    /\ ~overlapped /\ faults = 0 => Calm

(* An entry is in memory with an id that was issued, and a record is what  *)
(* its two fields are.                                                     *)
LEMMA EntryFacts ==
    ASSUME OutboxTypeOK
    PROVE  /\ DOMAIN entries \subseteq 1 .. issued /\ issued \in Nat /\ faults \in Nat
           /\ DOMAIN disk \subseteq DOMAIN entries
           /\ entries \in [DOMAIN entries -> Entries]
           /\ pass \in [Passes -> PassStates]
           /\ \A q \in Passes : pass[q].state = "posting" => pass[q].at \in DOMAIN entries
  BY OutboxAssumption DEF OutboxTypeOK

(* One step of one pass leaves the others where they are.                  *)
LEMMA OthersStay ==
    ASSUME OutboxTypeOK, OnePass, NEW p \in Passes, NEW state, NEW i,
           pass[p].state # "idle", At(p, state, i)
    PROVE  /\ OnePass'
           /\ pass'[p].state = state /\ pass'[p].at = i
           /\ \A q \in Passes \ {p} : pass'[q].state = "idle"
  BY EntryFacts DEF OnePass, At, PassStates

LEMMA AcknowledgedStep == AcknowledgedInv /\ [Next]_vars => AcknowledgedInv'
  <1> SUFFICES ASSUME AcknowledgedInv, [Next]_vars
               PROVE  AcknowledgedInv'
    OBVIOUS
  <1>o. OutboxInv' /\ OutboxTypeOK
    BY OutboxStep DEF AcknowledgedInv, OutboxInv
  <1>t. /\ DOMAIN entries \subseteq 1 .. issued /\ issued \in Nat /\ faults \in Nat
        /\ DOMAIN disk \subseteq DOMAIN entries
        /\ entries \in [DOMAIN entries -> Entries]
        /\ pass \in [Passes -> PassStates]
        /\ \A q \in Passes : pass[q].state = "posting" => pass[q].at \in DOMAIN entries
    BY <1>o, EntryFacts
  <1>a. acknowledged \subseteq 1 .. issued
    BY DEF AcknowledgedInv
  <1>c. ~overlapped /\ faults = 0 => Calm
    BY DEF AcknowledgedInv
  <1> DEFINE Kept == /\ acknowledged' \subseteq 1 .. issued'
                     /\ ~overlapped' /\ faults' = 0 => Calm'
  <1>1. ASSUME Enqueue  PROVE Kept
    <2>1. /\ issued' = issued + 1 /\ acknowledged' = acknowledged /\ pass' = pass
          /\ overlapped' = overlapped
          /\ DOMAIN entries' = DOMAIN entries \cup {issued + 1}
          /\ \A i \in DOMAIN entries : i # issued + 1 /\ entries'[i] = entries[i]
      BY <1>1, <1>t DEF Enqueue, cloud
    <2>2. issued + 1 \notin acknowledged /\ acknowledged' \subseteq 1 .. issued'
      BY <1>a, <1>t, <2>1
    <2>3. ASSUME ~overlapped', faults' = 0  PROVE Calm'
      <3>1. faults = 0 /\ disk' = entries'
        BY <1>1, <1>t, <2>3 DEF Enqueue, Persist, PersistFails
      <3> QED
        BY <1>c, <1>t, <2>1, <2>2, <2>3, <3>1 DEF Calm, OnePass
    <2> QED
      BY <2>2, <2>3
  <1>2. ASSUME NEW p \in Passes, StartPass(p)  PROVE Kept
    <2>1. /\ UNCHANGED <<entries, issued, disk, acknowledged, faults>>
          /\ At(p, "between", 0) /\ pass[p].state = "idle"
      BY <1>2 DEF StartPass, cloud
    <2>2. ASSUME ~overlapped', faults' = 0  PROVE Calm'
      <3>1. ~overlapped /\ \A q \in Passes : pass[q].state = "idle"
        BY <1>2, <2>2 DEF StartPass
      <3>2. \A q \in Passes \ {p} : pass'[q].state = "idle"
        BY <1>t, <2>1, <3>1 DEF At
      <3>3. pass'[p].state = "between"
        BY <1>t, <2>1 DEF At
      <3> QED
        BY <1>c, <2>1, <2>2, <3>1, <3>2, <3>3 DEF Calm, OnePass
    <2> QED
      BY <1>a, <2>1, <2>2
  <1>3. ASSUME NEW p \in Passes, EndPass(p)  PROVE Kept
    <2>1. /\ UNCHANGED <<entries, issued, disk, acknowledged, faults, overlapped>>
          /\ At(p, "idle", 0) /\ pass[p].state # "idle"
      BY <1>3 DEF EndPass, cloud, counters
    <2>2. ASSUME ~overlapped', faults' = 0  PROVE Calm'
      <3>1. /\ OnePass' /\ pass'[p].state = "idle"
            /\ \A q \in Passes \ {p} : pass'[q].state = "idle"
        BY <1>c, <1>o, <2>1, <2>2, OthersStay DEF Calm
      <3> QED
        BY <1>c, <2>1, <2>2, <3>1 DEF Calm
    <2> QED
      BY <1>a, <2>1, <2>2
  <1>4. ASSUME NEW p \in Passes, NEW i \in Ahead(p), Post(p, i)  PROVE Kept
    <2>1. /\ UNCHANGED <<issued, disk, acknowledged, faults, overlapped>>
          /\ At(p, "posting", i) /\ pass[p].state # "idle"
          /\ i \in DOMAIN entries /\ entries[i].status = "pending"
          /\ entries' = [entries EXCEPT ![i] = Attempted(@)]
      BY <1>4 DEF Post, NextIs, Ahead, cloud, counters
    <2>2. /\ DOMAIN entries' = DOMAIN entries
          /\ \A j \in DOMAIN entries : entries'[j].status = entries[j].status
      BY <1>t, <2>1, SettledEntry
    <2>3. ASSUME ~overlapped', faults' = 0  PROVE Calm'
      <3>1. /\ OnePass' /\ pass'[p].at = i
            /\ \A q \in Passes \ {p} : pass'[q].state = "idle"
        BY <1>c, <1>o, <2>1, <2>3, OthersStay DEF Calm
      <3> QED
        BY <1>c, <2>1, <2>2, <2>3, <3>1 DEF Calm
    <2> QED
      BY <1>a, <2>1, <2>3
  <1>5. ASSUME NEW p \in Passes, NEW i \in Ahead(p), FailWithoutTarget(p, i)
        PROVE  Kept
    <2>1. /\ UNCHANGED <<issued, acknowledged, overlapped>>
          /\ pass[p].state # "idle"
          /\ i \in DOMAIN entries /\ entries[i].status = "pending"
          /\ entries' = [entries EXCEPT ![i] = Settled(Attempted(@))]
      BY <1>5 DEF FailWithoutTarget, NextIs, Ahead, cloud
    <2>2. /\ DOMAIN entries' = DOMAIN entries
          /\ \A j \in DOMAIN entries \ {i} : entries'[j] = entries[j]
      BY <1>t, <2>1
    <2>3. ASSUME ~overlapped', faults' = 0  PROVE Calm'
      <3>1. faults = 0 /\ disk' = entries' /\ At(p, "between", i)
        BY <1>5, <1>t, <2>3 DEF FailWithoutTarget, Persist, PersistFails
      <3>2. /\ OnePass' /\ pass'[p].state = "between"
            /\ \A q \in Passes \ {p} : pass'[q].state = "idle"
        BY <1>c, <1>o, <2>1, <2>3, <3>1, OthersStay DEF Calm
      <3> QED
        BY <1>c, <2>1, <2>2, <2>3, <3>1, <3>2 DEF Calm
    <2> QED
      BY <1>a, <2>1, <2>3
  <1>6. ASSUME NEW p \in Passes, Accept(p)  PROVE Kept
    <2> DEFINE i == pass[p].at
               delivered == [entries[i] EXCEPT !.status = "delivered"]
    <2>1. /\ UNCHANGED <<issued, overlapped>>
          /\ pass[p].state = "posting" /\ pass[p].state # "idle"
          /\ acknowledged' = acknowledged \cup {i}
      BY <1>6 DEF Accept
    <2>2. i \in DOMAIN entries /\ acknowledged' \subseteq 1 .. issued'
      BY <1>a, <1>t, <2>1
    <2>3. ASSUME ~overlapped', faults' = 0  PROVE Calm'
      <3>1. /\ faults = 0 /\ disk' = entries' /\ At(p, "between", i)
            /\ entries' = [entries EXCEPT ![i] = delivered]
        BY <1>6, <1>t, <2>3 DEF Accept, Persist, PersistFails
      <3>2. /\ OnePass' /\ pass'[p].state = "between"
            /\ \A q \in Passes \ {p} : pass'[q].state = "idle"
        BY <1>c, <1>o, <2>1, <2>3, <3>1, OthersStay DEF Calm
      <3>3. /\ DOMAIN entries' = DOMAIN entries
            /\ entries'[i].status = "delivered"
            /\ \A j \in DOMAIN entries \ {i} : entries'[j] = entries[j]
        BY <1>t, <2>2, <3>1 DEF Entries
      <3> QED
        BY <1>c, <2>1, <2>2, <2>3, <3>1, <3>2, <3>3 DEF Calm
    <2> QED
      BY <2>2, <2>3
  <1>7. ASSUME NEW p \in Passes, Fail(p)  PROVE Kept
    <2> DEFINE i == pass[p].at
    <2>1. /\ UNCHANGED <<issued, acknowledged, overlapped>>
          /\ pass[p].state = "posting" /\ pass[p].state # "idle"
          /\ entries' = [entries EXCEPT ![i] = Settled(@)]
      BY <1>7 DEF Fail
    <2>2. /\ DOMAIN entries' = DOMAIN entries
          /\ \A j \in DOMAIN entries \ {i} : entries'[j] = entries[j]
      BY <1>t, <2>1
    <2>3. ASSUME ~overlapped', faults' = 0  PROVE Calm'
      <3>1. faults = 0 /\ disk' = entries' /\ At(p, "between", i)
        BY <1>7, <1>t, <2>3 DEF Fail, Persist, PersistFails
      <3>2. /\ OnePass' /\ pass'[p].state = "between"
            /\ \A q \in Passes \ {p} : pass'[q].state = "idle"
        BY <1>c, <1>o, <2>1, <2>3, <3>1, OthersStay DEF Calm
      <3>3. Calm /\ i \in DOMAIN entries /\ i \notin acknowledged
        BY <1>c, <1>t, <2>1, <2>3, <3>1 DEF Calm
      <3> QED
        BY <2>1, <2>2, <2>3, <3>1, <3>2, <3>3 DEF Calm
    <2> QED
      BY <1>a, <2>1, <2>3
  <1>8. ASSUME Restart  PROVE Kept
    <2>1. /\ UNCHANGED <<issued, disk, acknowledged, overlapped, faults>>
          /\ entries' = disk
          /\ \A q \in Passes : pass'[q].state = "idle"
      BY <1>8 DEF Restart, Idle
    <2> QED
      BY <1>a, <1>c, <2>1 DEF Calm, OnePass
  <1>9. ASSUME UNCHANGED vars  PROVE Kept
    BY <1>9, <1>a, <1>c DEF vars, cloud, counters, Calm, OnePass
  <1>k. Kept
    BY <1>1, <1>2, <1>3, <1>4, <1>5, <1>6, <1>7, <1>8, <1>9 DEF Next
  <1> QED
    BY <1>o, <1>k DEF AcknowledgedInv

(* While no two passes overlap and no write of the file fails, what the    *)
(* cloud has acknowledged stays delivered, crashes included.               *)
THEOREM AcknowledgedIsKept == Spec => []AcknowledgedIsDelivered
  <1>1. Init => AcknowledgedInv
    <2> SUFFICES ASSUME Init PROVE AcknowledgedInv
      OBVIOUS
    <2>1. OutboxInv
      BY OutboxInit
    <2>2. /\ acknowledged = {} /\ \A p \in Passes : pass[p].state = "idle"
      BY DEF Init, Idle
    <2> QED
      BY <2>1, <2>2 DEF AcknowledgedInv, Calm, OnePass
  <1>2. AcknowledgedInv => AcknowledgedIsDelivered
    BY DEF AcknowledgedInv, Calm, AcknowledgedIsDelivered, AcknowledgedStaysDelivered
  <1> QED
    BY <1>1, <1>2, AcknowledgedStep, PTL DEF Spec

-----------------------------------------------------------------------------
(***************************************************************************)
(* How often the cloud sees an entry, while no write fails.  The file then *)
(* has the entries of the memory with their status; it lags behind by the  *)
(* attempts whose posts are under way, which are what a crash forgets.  An *)
(* entry that is pending has used, but for the posts under way, fewer      *)
(* attempts than it is allowed: the last of them makes it a dead letter.   *)
(***************************************************************************)
InFlight(i) == {p \in Passes : pass[p].state = "posting" /\ pass[p].at = i}

Forgotten == crashes * Cardinality(Passes)

FileFollows ==
    /\ DOMAIN disk = DOMAIN entries
    /\ \A i \in DOMAIN entries :
          /\ disk[i].status = entries[i].status
          /\ entries[i].attempts <= disk[i].attempts + Cardinality(InFlight(i))

Counted(i) ==
    IF i \in DOMAIN entries
    THEN /\ posts[i] <= entries[i].attempts + Forgotten
         /\ posts[i] <= MaxAttempts - 1 + Cardinality(Passes) + Forgotten
         /\ entries[i].status = "pending" =>
               posts[i] <= MaxAttempts - 1 + Cardinality(InFlight(i)) + Forgotten
    ELSE posts[i] = 0

PostsInv ==
    /\ OutboxInv
    /\ faults = 0 => FileFollows /\ \A i \in Ids : Counted(i)

(* How many passes post an entry, before and after one of them moves.      *)
LEMMA Flights ==
    ASSUME IsFiniteSet(Passes), NEW i
    PROVE  /\ Cardinality(InFlight(i)) \in Nat /\ Cardinality(Passes) \in Nat
           /\ Cardinality(InFlight(i)) <= Cardinality(Passes)
           /\ \A p \in Passes \ InFlight(i) :
                 Cardinality(InFlight(i)) + 1 <= Cardinality(Passes)
  <1>1. InFlight(i) \subseteq Passes
    BY DEF InFlight
  <1>2. IsFiniteSet(InFlight(i))
    BY <1>1, FS_Subset
  <1>3. /\ Cardinality(InFlight(i)) \in Nat /\ Cardinality(Passes) \in Nat
        /\ Cardinality(InFlight(i)) <= Cardinality(Passes)
    BY <1>1, <1>2, FS_Subset, FS_CardinalityType
  <1>4. ASSUME NEW p \in Passes \ InFlight(i)
        PROVE  Cardinality(InFlight(i)) + 1 <= Cardinality(Passes)
    <2>1. Cardinality(InFlight(i) \cup {p}) = Cardinality(InFlight(i)) + 1
      BY <1>2, <1>4, FS_AddElement
    <2>2. InFlight(i) \cup {p} \subseteq Passes
      BY <1>1
    <2>3. Cardinality(InFlight(i) \cup {p}) <= Cardinality(Passes)
      BY <2>2, FS_Subset
    <2> QED
      BY <2>1, <2>3
  <1> QED
    BY <1>3, <1>4

(* A pass that leaves an entry it was posting, or takes one up.            *)
LEMMA FlightEnds ==
    ASSUME IsFiniteSet(Passes), OutboxTypeOK, NEW p \in Passes, NEW i, NEW n, NEW state,
           p \in InFlight(i), At(p, state, n), state # "posting"
    PROVE  /\ Cardinality(InFlight(i)') = Cardinality(InFlight(i)) - 1
           /\ \A j : j # i => Cardinality(InFlight(j)') = Cardinality(InFlight(j))
  <1>1. pass \in [Passes -> PassStates]
    BY DEF OutboxTypeOK
  <1>2. InFlight(i)' = InFlight(i) \ {p}
    BY <1>1 DEF At, InFlight
  <1>3. \A j : j # i => InFlight(j)' = InFlight(j)
    BY <1>1 DEF At, InFlight
  <1>4. IsFiniteSet(InFlight(i))
    <2>1. InFlight(i) \subseteq Passes
      BY DEF InFlight
    <2> QED
      BY <2>1, FS_Subset
  <1>5. Cardinality(InFlight(i) \ {p}) = Cardinality(InFlight(i)) - 1
    BY <1>4, FS_RemoveElement
  <1> QED
    BY <1>2, <1>3, <1>5

LEMMA FlightBegins ==
    ASSUME IsFiniteSet(Passes), OutboxTypeOK, NEW p \in Passes, NEW i,
           pass[p].state # "posting", At(p, "posting", i)
    PROVE  /\ Cardinality(InFlight(i)') = Cardinality(InFlight(i)) + 1
           /\ p \notin InFlight(i)
           /\ \A j : j # i => Cardinality(InFlight(j)') = Cardinality(InFlight(j))
  <1>1. pass \in [Passes -> PassStates]
    BY DEF OutboxTypeOK
  <1>2. InFlight(i)' = InFlight(i) \cup {p} /\ p \notin InFlight(i)
    BY <1>1 DEF At, InFlight
  <1>3. \A j : j # i => InFlight(j)' = InFlight(j)
    BY <1>1 DEF At, InFlight
  <1>4. IsFiniteSet(InFlight(i))
    <2>1. InFlight(i) \subseteq Passes
      BY DEF InFlight
    <2> QED
      BY <2>1, FS_Subset
  <1>5. Cardinality(InFlight(i) \cup {p}) = Cardinality(InFlight(i)) + 1
    BY <1>2, <1>4, FS_AddElement
  <1> QED
    BY <1>2, <1>3, <1>5

LEMMA FlightStays ==
    ASSUME OutboxTypeOK, NEW p \in Passes, NEW state, NEW n,
           pass[p].state # "posting", state # "posting", At(p, state, n)
    PROVE  \A j : InFlight(j)' = InFlight(j)
  BY DEF OutboxTypeOK, At, InFlight

(***************************************************************************)
(* A step in which the memory is written to the file and no post begins:   *)
(* no count changes, no entry becomes pending, and one that stays pending  *)
(* while a post of it ends has attempts left.                              *)
(***************************************************************************)
LEMMA WrittenCounts ==
    ASSUME IsFiniteSet(Passes), PostsInv, OutboxInv', faults = 0,
           MaxAttempts # 0,
           disk' = entries', UNCHANGED <<posts, crashes>>,
           \A j : \/ Cardinality(InFlight(j)') = Cardinality(InFlight(j))
                  \/ j \in DOMAIN entries /\ entries'[j].status = "pending"
                       => entries'[j].attempts < MaxAttempts,
           DOMAIN entries \subseteq DOMAIN entries',
           \A j \in DOMAIN entries :
              /\ entries'[j].attempts >= entries[j].attempts
              /\ entries'[j].status = "pending" => entries[j].status = "pending"
    PROVE  FileFollows' /\ \A i \in Ids : Counted(i)'
  <1>1. /\ DOMAIN entries \subseteq Ids /\ entries \in [DOMAIN entries -> Entries]
        /\ entries' \in [DOMAIN entries' -> Entries]
        /\ posts \in [Ids -> Nat] /\ MaxAttempts \in Nat
    BY OutboxAssumption DEF PostsInv, OutboxInv, OutboxTypeOK, Ids
  <1>2. \A j : Cardinality(InFlight(j)') \in Nat
    <2> SUFFICES ASSUME NEW j PROVE Cardinality(InFlight(j)') \in Nat
      OBVIOUS
    <2>1. InFlight(j)' \subseteq Passes
      BY DEF InFlight
    <2> QED
      BY <2>1, FS_Subset, FS_CardinalityType
  <1>3. FileFollows'
    BY <1>1, <1>2 DEF FileFollows, Entries
  <1>4. Forgotten' = Forgotten /\ Forgotten \in Nat /\ Cardinality(Passes) \in Nat
    <2>1. Cardinality(Passes) \in Nat /\ crashes \in Nat
      BY FS_CardinalityType, OutboxAssumption DEF PostsInv, OutboxInv, OutboxTypeOK
    <2> QED
      BY <2>1 DEF Forgotten
  <1>5. ASSUME NEW i \in Ids
        PROVE  Counted(i)'
    <2>1. Counted(i)
      BY DEF PostsInv
    <2>2. CASE i \in DOMAIN entries
      <3>1. /\ entries[i].attempts \in Nat /\ entries'[i].attempts \in Nat
            /\ posts[i] \in Nat /\ i \in DOMAIN entries'
        BY <1>1, <2>2 DEF Entries
      <3>2. /\ posts[i] <= entries[i].attempts + Forgotten
            /\ posts[i] <= MaxAttempts - 1 + Cardinality(Passes) + Forgotten
            /\ entries[i].status = "pending" =>
                  posts[i] <= MaxAttempts - 1 + Cardinality(InFlight(i)) + Forgotten
        BY <2>1, <2>2 DEF Counted
      <3>3. posts[i] <= entries'[i].attempts + Forgotten
        BY <1>4, <2>2, <3>1, <3>2
      <3>4. ASSUME entries'[i].status = "pending"
            PROVE  posts[i] <= MaxAttempts - 1 + Cardinality(InFlight(i)') + Forgotten
        <4>1. CASE Cardinality(InFlight(i)') = Cardinality(InFlight(i))
          BY <2>2, <3>2, <3>4, <4>1
        <4>2. CASE entries'[i].attempts < MaxAttempts
          BY <1>1, <1>2, <1>4, <3>1, <3>3, <4>2
        <4> QED
          BY <2>2, <3>4, <4>1, <4>2
      <3> QED
        BY <1>4, <3>1, <3>2, <3>3, <3>4 DEF Counted
    <2>3. CASE i \notin DOMAIN entries /\ i \notin DOMAIN entries'
      BY <2>1, <2>3 DEF Counted
    <2>4. CASE i \notin DOMAIN entries /\ i \in DOMAIN entries'
      <3>1. posts[i] = 0 /\ posts'[i] = 0 /\ entries'[i].attempts \in Nat
        BY <1>1, <2>1, <2>4 DEF Counted, Entries
      <3>2. Cardinality(InFlight(i)') \in Nat
        BY <1>2
      <3> QED
        BY <1>1, <1>4, <2>4, <3>1, <3>2 DEF Counted
    <2> QED
      BY <2>2, <2>3, <2>4
  <1> QED
    BY <1>3, <1>5

LEMMA PostsStep ==
    ASSUME IsFiniteSet(Passes), MaxAttempts # 0, PostsInv, [Next]_vars
    PROVE  PostsInv'
  <1>o. OutboxInv' /\ OutboxTypeOK
    BY OutboxStep DEF PostsInv, OutboxInv
  <1>t. /\ DOMAIN entries \subseteq 1 .. issued /\ issued \in Nat /\ faults \in Nat
        /\ DOMAIN disk \subseteq DOMAIN entries
        /\ entries \in [DOMAIN entries -> Entries]
        /\ pass \in [Passes -> PassStates]
        /\ \A q \in Passes : pass[q].state = "posting" => pass[q].at \in DOMAIN entries
    BY <1>o, EntryFacts
  <1>m. MaxAttempts \in Nat /\ crashes \in Nat /\ Cardinality(Passes) \in Nat
    BY <1>o, OutboxAssumption, FS_CardinalityType DEF OutboxTypeOK
  <1> DEFINE Kept == faults' = 0 => FileFollows' /\ \A i \in Ids : Counted(i)'
  <1>1. ASSUME Enqueue  PROVE Kept
    <2> SUFFICES ASSUME faults' = 0
                 PROVE  FileFollows' /\ \A i \in Ids : Counted(i)'
      OBVIOUS
    <2>1. faults = 0 /\ disk' = entries'
      BY <1>1, <1>t DEF Enqueue, Persist, PersistFails
    <2>2. /\ UNCHANGED <<posts, crashes>>
          /\ DOMAIN entries \subseteq DOMAIN entries'
          /\ \A i \in DOMAIN entries : entries'[i] = entries[i]
      BY <1>1, <1>t DEF Enqueue
    <2>3. \A j : InFlight(j)' = InFlight(j)
      BY <1>1 DEF Enqueue, InFlight
    <2>4. \A i \in DOMAIN entries : entries[i].attempts \in Nat
      BY <1>t DEF Entries
    <2> QED
      BY <1>o, <2>1, <2>2, <2>3, <2>4, WrittenCounts
  <1>2. ASSUME NEW p \in Passes, StartPass(p) \/ EndPass(p)  PROVE Kept
    <2>1. /\ UNCHANGED <<entries, disk, posts, faults, crashes>>
          /\ pass[p].state # "posting"
          /\ At(p, "between", 0) \/ At(p, "idle", 0)
      BY <1>2 DEF StartPass, EndPass, counters
    <2>2. \A j : InFlight(j)' = InFlight(j)
      BY <1>o, <2>1, FlightStays
    <2> QED
      BY <2>1, <2>2 DEF PostsInv, FileFollows, Counted, Forgotten
  <1>3. ASSUME NEW p \in Passes, NEW i \in Ahead(p), Post(p, i)  PROVE Kept
    <2> SUFFICES ASSUME faults' = 0
                 PROVE  FileFollows' /\ \A j \in Ids : Counted(j)'
      OBVIOUS
    <2>1. /\ UNCHANGED <<disk, faults, crashes>>
          /\ At(p, "posting", i) /\ pass[p].state # "posting"
          /\ i \in DOMAIN entries /\ entries[i].status = "pending"
          /\ entries' = [entries EXCEPT ![i] = Attempted(@)]
          /\ posts' = [posts EXCEPT ![i] = @ + 1]
      BY <1>3 DEF Post, NextIs, Ahead, counters
    <2>2. /\ Cardinality(InFlight(i)') = Cardinality(InFlight(i)) + 1
          /\ p \notin InFlight(i)
          /\ \A j : j # i => Cardinality(InFlight(j)') = Cardinality(InFlight(j))
      BY <1>o, <2>1, FlightBegins
    <2>3. /\ Cardinality(InFlight(i)) \in Nat
          /\ Cardinality(InFlight(i)) + 1 <= Cardinality(Passes)
      BY <2>2, Flights
    <2>4. /\ DOMAIN entries' = DOMAIN entries
          /\ \A j \in DOMAIN entries \ {i} : entries'[j] = entries[j]
          /\ entries'[i].status = "pending"
          /\ entries'[i].attempts = entries[i].attempts + 1
          /\ entries[i].attempts \in Nat
      BY <1>t, <2>1 DEF Attempted, Entries
    <2>5. /\ posts \in [Ids -> Nat] /\ i \in Ids
      BY <1>o, <1>t, <2>1, OutboxAssumption DEF OutboxTypeOK, Ids
    <2>6. posts'[i] = posts[i] + 1 /\ \A j \in Ids \ {i} : posts'[j] = posts[j]
      BY <2>1, <2>5
    <2>7. FileFollows /\ \A j \in Ids : Counted(j)
      BY <2>1 DEF PostsInv
    <2>8. FileFollows'
      <3>1. disk[i].attempts \in Nat /\ entries[i].attempts <= disk[i].attempts + Cardinality(InFlight(i))
        BY <1>o, <2>1, <2>7 DEF FileFollows, OutboxTypeOK, Entries
      <3>2. entries'[i].attempts <= disk[i].attempts + Cardinality(InFlight(i)')
        BY <2>2, <2>3, <2>4, <3>1
      <3> QED
        BY <2>1, <2>2, <2>4, <2>7, <3>2 DEF FileFollows
    <2>9. Forgotten' = Forgotten /\ Forgotten \in Nat
      BY <1>m, <2>1 DEF Forgotten
    <2>10. ASSUME NEW j \in Ids \ {i}  PROVE Counted(j)'
      BY <2>2, <2>4, <2>6, <2>7, <2>9 DEF Counted
    <2>11. Counted(i)'
      <3>1. /\ posts[i] <= entries[i].attempts + Forgotten
            /\ posts[i] <= MaxAttempts - 1 + Cardinality(InFlight(i)) + Forgotten
        BY <2>1, <2>5, <2>7 DEF Counted
      <3>2. posts[i] \in Nat
        BY <2>5
      <3>3. /\ posts'[i] <= entries'[i].attempts + Forgotten
            /\ posts'[i] <= MaxAttempts - 1 + Cardinality(InFlight(i)') + Forgotten
            /\ posts'[i] <= MaxAttempts - 1 + Cardinality(Passes) + Forgotten
        BY <1>m, <2>2, <2>3, <2>4, <2>6, <2>9, <3>1, <3>2
      <3> QED
        BY <2>1, <2>4, <2>9, <3>3 DEF Counted
    <2> QED
      BY <2>8, <2>10, <2>11
  <1>4. ASSUME NEW p \in Passes, NEW i \in Ahead(p), FailWithoutTarget(p, i)
        PROVE  Kept
    <2> SUFFICES ASSUME faults' = 0
                 PROVE  FileFollows' /\ \A j \in Ids : Counted(j)'
      OBVIOUS
    <2>1. /\ faults = 0 /\ disk' = entries' /\ At(p, "between", i)
          /\ UNCHANGED <<posts, crashes>>
      BY <1>4, <1>t DEF FailWithoutTarget, Persist, PersistFails
    <2>2. /\ pass[p].state # "posting" /\ i \in DOMAIN entries
          /\ entries[i].status = "pending"
          /\ entries' = [entries EXCEPT ![i] = Settled(Attempted(@))]
      BY <1>4 DEF FailWithoutTarget, NextIs, Ahead
    <2>3. \A j : InFlight(j)' = InFlight(j)
      BY <1>o, <2>1, <2>2, FlightStays
    <2>4. /\ DOMAIN entries' = DOMAIN entries
          /\ \A j \in DOMAIN entries \ {i} : entries'[j] = entries[j]
          /\ entries'[i].attempts = entries[i].attempts + 1
      BY <1>t, <2>2 DEF Settled, Attempted, Entries
    <2>5. \A j \in DOMAIN entries : entries[j].attempts \in Nat
      BY <1>t DEF Entries
    <2>6. \A j \in DOMAIN entries :
             /\ entries'[j].attempts >= entries[j].attempts
             /\ entries'[j].status = "pending" => entries[j].status = "pending"
      BY <2>2, <2>4, <2>5
    <2> QED
      BY <1>o, <2>1, <2>3, <2>4, <2>6, WrittenCounts
  <1>5. ASSUME NEW p \in Passes, Accept(p) \/ Fail(p)  PROVE Kept
    <2> SUFFICES ASSUME faults' = 0
                 PROVE  FileFollows' /\ \A j \in Ids : Counted(j)'
      OBVIOUS
    <2>1. PICK i : i = pass[p].at
      OBVIOUS
    <2>2. /\ faults = 0 /\ disk' = entries' /\ At(p, "between", i)
          /\ UNCHANGED <<posts, crashes>> /\ pass[p].state = "posting"
      BY <1>5, <1>t, <2>1 DEF Accept, Fail, Persist, PersistFails
    <2>3. PICK e : /\ entries' = [entries EXCEPT ![i] = e]
                   /\ \/ e = [entries[i] EXCEPT !.status = "delivered"]
                      \/ e = Settled(entries[i])
      <3>1. CASE Accept(p)
        <4>1. entries' = [entries EXCEPT ![i] = [entries[i] EXCEPT !.status = "delivered"]]
          BY <1>t, <2>1, <2>2, <3>1 DEF Accept, PersistFails
        <4> QED
          BY <4>1
      <3>2. CASE Fail(p)
        <4>1. entries' = [entries EXCEPT ![i] = Settled(entries[i])]
          BY <2>1, <3>2 DEF Fail
        <4> QED
          BY <4>1
      <3> QED
        BY <1>5, <3>1, <3>2
    <2>4. i \in DOMAIN entries /\ entries[i] \in Entries
      BY <1>t, <2>1, <2>2
    <2>5. /\ e.attempts = entries[i].attempts
          /\ e.status = "pending" =>
                entries[i].status = "pending" /\ e.attempts < MaxAttempts
      BY <1>m, <2>3, <2>4 DEF Settled, Entries
    <2>6. /\ DOMAIN entries' = DOMAIN entries /\ entries'[i] = e
          /\ \A j \in DOMAIN entries \ {i} : entries'[j] = entries[j]
      BY <1>t, <2>3, <2>4
    <2>7. p \in InFlight(i)
      BY <2>1, <2>2 DEF InFlight
    <2>8. \A j : j # i => Cardinality(InFlight(j)') = Cardinality(InFlight(j))
      BY <1>o, <2>2, <2>7, FlightEnds
    <2>9. \A j \in DOMAIN entries : entries[j].attempts \in Nat
      BY <1>t DEF Entries
    <2>10. \A j \in DOMAIN entries :
             /\ entries'[j].attempts >= entries[j].attempts
             /\ entries'[j].status = "pending" => entries[j].status = "pending"
      BY <2>4, <2>5, <2>6, <2>9
    <2> QED
      BY <1>o, <2>2, <2>5, <2>6, <2>8, <2>10, WrittenCounts
  <1>6. ASSUME Restart  PROVE Kept
    <2> SUFFICES ASSUME faults' = 0
                 PROVE  FileFollows' /\ \A j \in Ids : Counted(j)'
      OBVIOUS
    <2>1. /\ UNCHANGED <<disk, posts, faults>> /\ entries' = disk
          /\ crashes' = crashes + 1
          /\ \A q \in Passes : pass'[q].state = "idle"
      BY <1>6 DEF Restart, Idle
    <2>2. FileFollows /\ \A j \in Ids : Counted(j)
      BY <2>1 DEF PostsInv
    <2>3. \A j : Cardinality(InFlight(j)') = 0
      <3>1. \A j : InFlight(j)' = {}
        BY <2>1 DEF InFlight
      <3> QED
        BY <3>1, FS_EmptySet
    <2>4. \A j \in DOMAIN disk : disk[j].attempts \in Nat
      BY <1>o DEF OutboxTypeOK, Entries
    <2>5. FileFollows'
      BY <2>1, <2>3, <2>4 DEF FileFollows
    <2>6. Forgotten' = Forgotten + Cardinality(Passes) /\ Forgotten \in Nat
      BY <1>m, <2>1 DEF Forgotten
    <2>7. ASSUME NEW j \in Ids  PROVE Counted(j)'
      <3>1. CASE j \in DOMAIN entries
        <4>1. /\ posts[j] <= entries[j].attempts + Forgotten
              /\ posts[j] <= MaxAttempts - 1 + Cardinality(Passes) + Forgotten
          BY <2>2, <3>1 DEF Counted
        <4>2. /\ j \in DOMAIN disk
              /\ entries[j].attempts <= disk[j].attempts + Cardinality(InFlight(j))
              /\ disk[j].status = entries[j].status
          BY <2>2, <3>1 DEF FileFollows
        <4>3. /\ Cardinality(InFlight(j)) \in Nat
              /\ Cardinality(InFlight(j)) <= Cardinality(Passes)
          BY Flights
        <4>4. posts[j] \in Nat /\ entries[j].attempts \in Nat /\ disk[j].attempts \in Nat
          BY <1>o, <1>t, <2>4, <3>1, <4>2 DEF OutboxTypeOK, Entries
        <4>5. /\ posts[j] <= disk[j].attempts + Forgotten + Cardinality(Passes)
              /\ posts[j] <= MaxAttempts - 1 + Cardinality(Passes)
                                + Forgotten + Cardinality(Passes)
          BY <1>m, <2>6, <4>1, <4>2, <4>3, <4>4
        <4>6. posts[j] <= MaxAttempts - 1 + 0 + Forgotten + Cardinality(Passes)
          BY <1>m, <2>6, <4>1, <4>4
        <4> DEFINE F == Forgotten
        <4>7. /\ posts[j] <= disk[j].attempts + (F + Cardinality(Passes))
              /\ posts[j] <= MaxAttempts - 1 + Cardinality(Passes)
                                + (F + Cardinality(Passes))
              /\ posts[j] <= MaxAttempts - 1 + 0 + (F + Cardinality(Passes))
          BY <1>m, <2>6, <4>4, <4>5, <4>6
        <4> QED
          BY <2>1, <2>3, <2>6, <4>2, <4>7 DEF Counted
      <3>2. CASE j \notin DOMAIN entries
        <4>1. posts[j] = 0 /\ j \notin DOMAIN disk
          BY <2>2, <3>2 DEF Counted, FileFollows
        <4> QED
          BY <2>1, <4>1 DEF Counted
      <3> QED
        BY <3>1, <3>2
    <2> QED
      BY <2>5, <2>7
  <1>7. ASSUME UNCHANGED vars  PROVE Kept
    BY <1>7 DEF vars, counters, PostsInv, FileFollows, Counted, Forgotten, InFlight
  <1>k. Kept
    BY <1>1, <1>2, <1>3, <1>4, <1>5, <1>6, <1>7 DEF Next
  <1> QED
    BY <1>o, <1>k DEF PostsInv

(* While no write of the file fails, the cloud sees no entry more often    *)
(* than its attempts, the passes and the crashes account for               *)
(* (attemptDelivery).  A limit of no attempts lets one post through.       *)
THEOREM PostsAreBounded ==
    ASSUME IsFiniteSet(Passes), MaxAttempts # 0
    PROVE  Spec => []PostsBounded
  <1>1. Init => PostsInv
    <2> SUFFICES ASSUME Init PROVE PostsInv
      OBVIOUS
    <2>1. OutboxInv
      BY OutboxInit
    <2>2. DOMAIN entries = {} /\ DOMAIN disk = {} /\ posts = [i \in Ids |-> 0]
      BY DEF Init
    <2> QED
      BY <2>1, <2>2 DEF PostsInv, FileFollows, Counted
  <1>2. PostsInv => PostsBounded
    <2> SUFFICES ASSUME PostsInv, faults = 0, NEW i \in Ids
                 PROVE  posts[i] <= MaxAttempts + (Cardinality(Passes) - 1)
                                      + crashes * Cardinality(Passes)
      BY DEF PostsBounded
    <2>1. /\ MaxAttempts \in Nat /\ crashes \in Nat /\ Cardinality(Passes) \in Nat
          /\ posts[i] \in Nat
      BY OutboxAssumption, FS_CardinalityType DEF PostsInv, OutboxInv, OutboxTypeOK
    <2>2. Forgotten \in Nat
      BY <2>1 DEF Forgotten
    <2>3. posts[i] <= MaxAttempts + (Cardinality(Passes) - 1) + Forgotten
      <3>1. CASE i \in DOMAIN entries
        <4>1. posts[i] <= MaxAttempts - 1 + Cardinality(Passes) + Forgotten
          BY <3>1 DEF PostsInv, Counted
        <4> QED
          BY <2>1, <2>2, <4>1
      <3>2. CASE i \notin DOMAIN entries
        <4>1. posts[i] = 0
          BY <3>2 DEF PostsInv, Counted
        <4> QED
          BY <2>1, <2>2, <4>1
      <3> QED
        BY <3>1, <3>2
    <2> QED
      BY <2>3 DEF Forgotten
  <1> QED
    BY <1>1, <1>2, PostsStep, PTL DEF Spec

=============================================================================
