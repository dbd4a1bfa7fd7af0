------------------------ MODULE SessionOpeningProofs ------------------------
(***************************************************************************)
(* For every set of ids, keys and requests: a purged session id never      *)
(* comes back, the id of a recreated session tells what it was recreated   *)
(* from, a purge starts at the leaves of the lineage, and the event logs   *)
(* have the lineage of what was answered, no event of it twice.            *)
(*                                                                         *)
(* OpeningInv covers what a call still has to write and what it holds in   *)
(* its memory: every session file among them is one its id allows.  LogInv *)
(* adds what the writes that are left must do to the event logs.           *)
(***************************************************************************)
EXTENDS SessionOpening, SequenceTheorems, TLAPS

(* The session file f may have the id i.                                   *)
Lineage(i, f) == \A s \in Ids, k \in Keys : DerivedId[<<s, k>>] = i => f.from = s

FitWrites ==
    {w \in Writes :
        /\ w.op \in {"create", "save"} => Lineage(w.id, w.arg)
        /\ w.op = "receipt" => DerivedId[<<w.id, w.arg[1]>>] = w.arg[2]}

OpeningInv ==
    /\ OpeningTypeOK
    /\ todo \in Seq(FitWrites)
    /\ \A i \in Ids : /\ file[i] # NoFile => Lineage(i, file[i])
                      /\ held[i] # NoFile => Lineage(i, held[i])
    /\ \A p \in probing : DerivedId[<<p[1], p[2]>>] # NoId
    /\ \A s \in Ids, k \in Keys : receipt[<<s, k>>] \in Ids => receipt[<<s, k>>] = DerivedId[<<s, k>>]

(* Facts on sequences.                                                     *)
LEMMA Joined ==
    ASSUME NEW S, NEW u \in Seq(S), NEW v \in Seq(S)
    PROVE  u \o v \in Seq(S)
  BY ConcatProperties

LEMMA Rest ==
    ASSUME NEW S, NEW u \in Seq(S), u # <<>>
    PROVE  Head(u) \in S /\ Tail(u) \in Seq(S)
  BY HeadTailProperties

LEMMA FitSeq ==
    ASSUME NEW u \in Seq(FitWrites)
    PROVE  u \in Seq(Writes)
  <1>1. FitWrites \subseteq Writes
    BY DEF FitWrites
  <1> QED
    BY <1>1, SeqDef

LEMMA Single ==
    ASSUME NEW S, NEW x \in S
    PROVE  <<x>> \in Seq(S) /\ <<>> \in Seq(S)
  OBVIOUS

(* The writes of the calls (Write, Append1, Missing).                      *)
LEMMA OneWrite ==
    ASSUME NEW op, NEW i, NEW arg, [op |-> op, id |-> i, arg |-> arg] \in Writes,
           op \in {"create", "save"} => Lineage(i, arg),
           op = "receipt" => DerivedId[<<i, arg[1]>>] = arg[2]
    PROVE  Write(op, i, arg) \in Seq(FitWrites)
  <1> DEFINE w == [op |-> op, id |-> i, arg |-> arg]
  <1>1. w.op = op /\ w.id = i /\ w.arg = arg
    OBVIOUS
  <1>2. w \in FitWrites
    BY <1>1 DEF FitWrites
  <1> QED
    BY <1>2, Single DEF Write

LEMMA EventWrites ==
    ASSUME NEW i \in Ids, NEW e \in Events
    PROVE  Append1(i, e) \in Seq(FitWrites) /\ Missing(i, e) \in Seq(FitWrites)
  <1>1. [op |-> "event", id |-> i, arg |-> e] \in Writes
    BY DEF Writes
  <1>2. Append1(i, e) \in Seq(FitWrites)
    BY <1>1, OneWrite DEF Append1
  <1> QED
    BY <1>2, Single DEF Missing

LEMMA EventTypes ==
    ASSUME NEW s \in Ids \union {NoId}
    PROVE  Created(s) \in Events /\ Recreated(s) \in Events /\ Active \in Events
  BY DEF Created, Recreated, Active, Events

LEMMA PlainWrites ==
    ASSUME NEW i \in Ids,
           NEW op \in {"answer", "link", "retire", "dropEvents", "dropFile"}
    PROVE  Write(op, i, NoId) \in Seq(FitWrites)
  <1>1. [op |-> op, id |-> i, arg |-> NoId] \in Writes
    BY DEF Writes
  <1> QED
    BY <1>1, OneWrite

LEMMA StatusWrites ==
    ASSUME NEW i \in Ids, NEW st \in {"active", "closing", "closed"}
    PROVE  Write("status", i, st) \in Seq(FitWrites)
  <1>1. [op |-> "status", id |-> i, arg |-> st] \in Writes
    BY DEF Writes
  <1> QED
    BY <1>1, OneWrite

LEMMA FileWrites ==
    ASSUME NEW i \in Ids, NEW f \in Files, Lineage(i, f),
           NEW op \in {"create", "save"}
    PROVE  Write(op, i, f) \in Seq(FitWrites)
  <1>1. [op |-> op, id |-> i, arg |-> f] \in Writes
    BY DEF Writes
  <1> QED
    BY <1>1, OneWrite

LEMMA ReceiptWrites ==
    ASSUME NEW s \in Ids, NEW k \in Keys, NEW i \in Ids, DerivedId[<<s, k>>] = i
    PROVE  Write("receipt", s, <<k, i>>) \in Seq(FitWrites)
  <1>1. [op |-> "receipt", id |-> s, arg |-> <<k, i>>] \in Writes
    BY DEF Writes
  <1> QED
    BY <1>1, OneWrite

LEMMA EnsureWrites ==
    ASSUME NEW s \in Ids, NEW i \in Ids, NEW st
    PROVE  EnsureRecreationEvents(s, i, st) \in Seq(FitWrites)
  <1>1. /\ Missing(i, Created(s)) \in Seq(FitWrites)
        /\ Missing(s, Recreated(i)) \in Seq(FitWrites)
        /\ Missing(i, Active) \in Seq(FitWrites)
        /\ <<>> \in Seq(FitWrites)
    BY EventWrites, EventTypes
  <1> QED
    BY <1>1, Joined DEF EnsureRecreationEvents

(* A session that its own id does not tie to a source.                     *)
LEMMA FreeLineage ==
    ASSUME NEW i, i \in RandomIds \/ \E r \in Requests : i = RequestId[r], NEW f
    PROVE  i \in Ids /\ Lineage(i, f)
  BY OpeningAssumption DEF Lineage

LEMMA DerivedLineage ==
    ASSUME NEW s \in Ids, NEW k \in Keys, DerivedId[<<s, k>>] # NoId, NEW f, f.from = s
    PROVE  DerivedId[<<s, k>>] \in Ids /\ Lineage(DerivedId[<<s, k>>], f)
  BY OpeningAssumption DEF Lineage

-----------------------------------------------------------------------------
(* What a call has to write when it begins, by call.                       *)

LEMMA RecreateWrites ==
    ASSUME OpeningInv, NEW s \in Ids, NEW k \in Keys, Recreate(s, k)
    PROVE  OpeningInv'
  <1> DEFINE i == DerivedId[<<s, k>>]
             r == receipt[<<s, k>>]
  <1>1. i \in Ids
    BY OpeningAssumption DEF Recreate
  <1>2. <<>> \in Seq(FitWrites)
    OBVIOUS
  <1>3. r \in Ids => EnsureRecreationEvents(s, r, file[r].status)
                        \o Write("answer", r, NoId) \in Seq(FitWrites)
    BY EnsureWrites, PlainWrites, Joined
  <1>4. EnsureRecreationEvents(s, i, file[i].status)
            \o Write("receipt", s, <<k, i>>) \o Write("answer", i, NoId) \in Seq(FitWrites)
    <2>1. Write("receipt", s, <<k, i>>) \in Seq(FitWrites)
      BY <1>1, ReceiptWrites
    <2> QED
      BY <1>1, <2>1, EnsureWrites, PlainWrites, Joined
  <1>5. todo' \in Seq(FitWrites)
    BY <1>2, <1>3, <1>4 DEF Recreate, Run
  <1>6. todo' \in Seq(Writes)
    BY <1>5, FitSeq
  <1>7. /\ probing' \subseteq Ids \X Keys \X BOOLEAN
        /\ \A p \in probing' : DerivedId[<<p[1], p[2]>>] # NoId
    <2>1. file[s].carrier \in BOOLEAN
      BY DEF Recreate, OpeningInv, OpeningTypeOK, Files, Closed, Exists
    <2>2. probing' = probing \/ probing' = probing \union {<<s, k, file[s].carrier>>}
      BY DEF Recreate
    <2>3. i # NoId
      BY DEF Recreate
    <2>4. /\ probing \subseteq Ids \X Keys \X BOOLEAN
          /\ \A p \in probing : DerivedId[<<p[1], p[2]>>] # NoId
      BY DEF OpeningInv, OpeningTypeOK
    <2> DEFINE t == <<s, k, file[s].carrier>>
    <2>5. t \in Ids \X Keys \X BOOLEAN /\ t[1] = s /\ t[2] = k
      BY <2>1
    <2>6. CASE probing' = probing
      BY <2>4, <2>6
    <2>7. CASE probing' = probing \union {t}
      <3> HIDE DEF t
      <3>1. probing' \subseteq Ids \X Keys \X BOOLEAN
        BY <2>4, <2>5, <2>7
      <3>2. ASSUME NEW p \in probing'
            PROVE  DerivedId[<<p[1], p[2]>>] # NoId
        <4>1. CASE p \in probing
          BY <2>4, <4>1
        <4>2. CASE p = t
          BY <2>3, <2>5, <4>2
        <4> QED
          BY <2>7, <4>1, <4>2
      <3> QED
        BY <3>1, <3>2
    <2> QED
      BY <2>2, <2>6, <2>7
  <1> QED
    BY <1>5, <1>6, <1>7 DEF Recreate, disk, history, OpeningInv, OpeningTypeOK

(* Calls that change todo only (and what they hold).                       *)
LEMMA BeginsRun ==
    ASSUME OpeningInv, todo' \in Seq(FitWrites), probing' \subseteq probing,
           held' \in [Ids -> Files \union {NoFile}],
           \A i \in Ids : held'[i] # NoFile => Lineage(i, held'[i]),
           UNCHANGED <<disk, history>>
    PROVE  OpeningInv'
  <1>1. todo' \in Seq(Writes)
    BY FitSeq
  <1> QED
    BY <1>1 DEF OpeningInv, OpeningTypeOK, disk, history

LEMMA RecreateProbedWrites ==
    ASSUME OpeningInv, NEW p \in probing, RecreateProbed(p[1], p[2], p[3])
    PROVE  OpeningInv'
  <1> DEFINE s == p[1]
             k == p[2]
             i == DerivedId[<<s, k>>]
             f == [status |-> "created", from |-> s, carrier |-> p[3]]
  <1>1. s \in Ids /\ k \in Keys /\ p[3] \in BOOLEAN /\ i # NoId
    BY DEF OpeningInv, OpeningTypeOK
  <1>2. f \in Files /\ f.from = s
    BY <1>1 DEF Files
  <1>3. i \in Ids /\ Lineage(i, f)
    BY <1>1, <1>2, DerivedLineage
  <1>4. /\ Write("create", i, f) \in Seq(FitWrites)
        /\ EnsureRecreationEvents(s, i, "created") \in Seq(FitWrites)
        /\ Write("receipt", s, <<k, i>>) \in Seq(FitWrites)
        /\ Write("answer", i, NoId) \in Seq(FitWrites)
    BY <1>1, <1>2, <1>3, FileWrites, EnsureWrites, ReceiptWrites, PlainWrites
  <1>5. Write("create", i, f) \o EnsureRecreationEvents(s, i, "created")
            \o Write("receipt", s, <<k, i>>) \o Write("answer", i, NoId) \in Seq(FitWrites)
    BY <1>4, Joined
  <1>6. todo' \in Seq(FitWrites)
    BY <1>5 DEF RecreateProbed, Run
  <1> QED
    BY <1>6, BeginsRun DEF RecreateProbed, OpeningInv, OpeningTypeOK, Files

LEMMA RequestWrites ==
    ASSUME OpeningInv, NEW r \in Requests, CreateForRequest(r)
    PROVE  OpeningInv'
  <1> DEFINE i == RequestId[r]
             f == [status |-> "created", from |-> NoId, carrier |-> TRUE]
  <1>1. f \in Files
    BY DEF Files
  <1>2. i \in Ids /\ Lineage(i, f)
    BY FreeLineage
  <1>3. /\ Write("create", i, f) \in Seq(FitWrites)
        /\ Missing(i, Created(NoId)) \in Seq(FitWrites)
        /\ Write("answer", i, NoId) \in Seq(FitWrites)
        /\ <<>> \in Seq(FitWrites)
    BY <1>1, <1>2, FileWrites, EventWrites, EventTypes, PlainWrites
  <1>4. (IF Exists(i) THEN <<>> ELSE Write("create", i, f))
            \o Missing(i, Created(NoId)) \o Write("answer", i, NoId) \in Seq(FitWrites)
    BY <1>3, Joined
  <1>5. todo' \in Seq(FitWrites)
    BY <1>4 DEF CreateForRequest, Run
  <1> QED
    BY <1>5, BeginsRun DEF CreateForRequest, OpeningInv, OpeningTypeOK

LEMMA AutomaticWrites ==
    ASSUME OpeningInv, NEW i, NEW s \in Ids \union {NoId}, NEW linked,
           OpenAutomatically(i, s, linked)
    PROVE  OpeningInv'
  <1> DEFINE f == [status |-> "active", from |-> s, carrier |-> FALSE]
             lineage == IF s = NoId
                        THEN Append1(i, Created(NoId)) \o Append1(i, Active)
                        ELSE EnsureRecreationEvents(s, i, "active")
  <1>1. f \in Files
    BY DEF Files
  <1>2. i \in Ids /\ Lineage(i, f)
    BY FreeLineage DEF OpenAutomatically
  <1>3. /\ Write("create", i, f) \in Seq(FitWrites)
        /\ Write("link", i, NoId) \in Seq(FitWrites)
        /\ <<>> \in Seq(FitWrites)
        /\ Append1(i, Created(NoId)) \in Seq(FitWrites)
        /\ Append1(i, Active) \in Seq(FitWrites)
    BY <1>1, <1>2, FileWrites, EventWrites, EventTypes, PlainWrites
  <1>4. lineage \in Seq(FitWrites)
    BY <1>2, <1>3, EnsureWrites, Joined
  <1>5. Write("create", i, f) \o lineage
            \o (IF linked THEN Write("link", i, NoId) ELSE <<>>) \in Seq(FitWrites)
    BY <1>3, <1>4, Joined
  <1>6. todo' \in Seq(FitWrites)
    BY <1>5 DEF OpenAutomatically, Run
  <1> QED
    BY <1>6, BeginsRun DEF OpenAutomatically, OpeningInv, OpeningTypeOK

LEMMA OtherWrites ==
    ASSUME OpeningInv, NEW i \in Ids,
           \/ Activate(i) \/ Close(i) \/ Purge(i)
           \/ ReadForHealth(i) \/ SaveHealth(i) \/ HealthUnknown(i)
    PROVE  OpeningInv'
  <1>1. CASE Activate(i)
    <2>1. todo' \in Seq(FitWrites)
      BY <1>1, StatusWrites, EventWrites, EventTypes, Joined DEF Activate, Run
    <2> QED
      BY <1>1, <2>1, BeginsRun DEF Activate, OpeningInv, OpeningTypeOK
  <1>2. CASE Close(i)
    <2>1. todo' \in Seq(FitWrites)
      BY <1>2, StatusWrites, Joined DEF Close, Run
    <2> QED
      BY <1>2, <2>1, BeginsRun DEF Close, OpeningInv, OpeningTypeOK
  <1>3. CASE Purge(i)
    <2>1. todo' \in Seq(FitWrites)
      BY <1>3, PlainWrites, Joined DEF Purge, Run
    <2> QED
      BY <1>3, <2>1, BeginsRun DEF Purge, OpeningInv, OpeningTypeOK
  <1>4. CASE ReadForHealth(i)
    <2>1. todo' \in Seq(FitWrites)
      BY <1>4 DEF ReadForHealth, Run
    <2> QED
      BY <1>4, <2>1, BeginsRun DEF ReadForHealth, Exists, OpeningInv, OpeningTypeOK
  <1>5. CASE SaveHealth(i)
    <2>1. held[i] \in Files /\ Lineage(i, held[i])
      BY <1>5 DEF SaveHealth, OpeningInv, OpeningTypeOK
    <2>2. todo' \in Seq(FitWrites)
      BY <1>5, <2>1, FileWrites DEF SaveHealth, Run
    <2> QED
      BY <1>5, <2>2, BeginsRun DEF SaveHealth, OpeningInv, OpeningTypeOK
  <1>6. CASE HealthUnknown(i)
    <2>1. todo' \in Seq(FitWrites)
      BY <1>6 DEF HealthUnknown, Run
    <2> QED
      BY <1>6, <2>1, BeginsRun DEF HealthUnknown, OpeningInv, OpeningTypeOK
  <1> QED
    BY <1>1, <1>2, <1>3, <1>4, <1>5, <1>6

-----------------------------------------------------------------------------
(* The writes.                                                             *)

(* A file keeps or takes a lineage its id allows.                          *)
LEMMA PutFile ==
    ASSUME OpeningInv, NEW i \in Ids, NEW f \in Files \union {NoFile},
           f # NoFile => Lineage(i, f),
           file' = [file EXCEPT ![i] = f]
    PROVE  /\ file' \in [Ids -> Files \union {NoFile}]
           /\ \A j \in Ids : file'[j] # NoFile => Lineage(j, file'[j])
  BY DEF OpeningInv, OpeningTypeOK

LEMMA StepInv ==
    ASSUME OpeningInv, Step
    PROVE  OpeningInv'
  <1> DEFINE w == Head(todo)
  <1>1. w \in FitWrites /\ Tail(todo) \in Seq(FitWrites) /\ <<>> \in Seq(FitWrites)
    <2>1. todo \in Seq(FitWrites) /\ todo # <<>>
      BY DEF Step, OpeningInv
    <2> QED
      BY <2>1, Rest
  <1>2. w \in Writes /\ w.id \in Ids
    BY <1>1 DEF FitWrites, Writes
  <1>3. todo' \in Seq(FitWrites)
    BY <1>1 DEF Step
  <1>4. todo' \in Seq(Writes)
    BY <1>3, FitSeq
  <1>5. /\ file' \in [Ids -> Files \union {NoFile}]
        /\ \A j \in Ids : file'[j] # NoFile => Lineage(j, file'[j])
    <2>1. CASE w.op \in {"create", "save"}
      <3>1. w.arg \in Files /\ Lineage(w.id, w.arg)
        BY <1>1, <2>1 DEF FitWrites, Writes
      <3>2. file' = file \/ file' = [file EXCEPT ![w.id] = w.arg]
        BY <2>1 DEF Step
      <3> QED
        BY <1>2, <3>1, <3>2, PutFile DEF OpeningInv, OpeningTypeOK
    <2>2. CASE w.op = "status"
      <3>1. w.arg \in {"active", "closing", "closed"}
        BY <1>2, <2>2 DEF Writes
      <3>2. CASE Exists(w.id)
        <4> DEFINE f == [file[w.id] EXCEPT !.status = w.arg]
        <4>1. file[w.id] \in Files /\ Lineage(w.id, file[w.id])
          BY <1>2, <3>2 DEF Exists, OpeningInv, OpeningTypeOK
        <4>2. f \in Files /\ f.from = file[w.id].from
          BY <3>1, <4>1 DEF Files
        <4>3. Lineage(w.id, f)
          BY <4>1, <4>2 DEF Lineage
        <4>4. file' = [file EXCEPT ![w.id] = f]
          BY <2>2, <3>2 DEF Step
        <4> QED
          BY <1>2, <4>2, <4>3, <4>4, PutFile
      <3>3. CASE ~Exists(w.id)
        BY <2>2, <3>3 DEF Step, OpeningInv, OpeningTypeOK
      <3> QED
        BY <3>2, <3>3
    <2>3. CASE w.op = "dropFile"
      <3>1. file' = [file EXCEPT ![w.id] = NoFile]
        BY <2>3 DEF Step
      <3> QED
        BY <1>2, <3>1, PutFile
    <2>4. CASE w.op \notin {"create", "save", "status", "dropFile"}
      <3>1. file' = file
        BY <2>4 DEF Step, disk
      <3> QED
        BY <3>1 DEF OpeningInv, OpeningTypeOK
    <2> QED
      BY <2>1, <2>2, <2>3, <2>4
  <1>6. /\ receipt' \in [Ids \X Keys -> Ids \union {NoId, CutOff}]
        /\ \A s \in Ids, k \in Keys :
              receipt'[<<s, k>>] \in Ids => receipt'[<<s, k>>] = DerivedId[<<s, k>>]
    <2>1. CASE w.op = "receipt"
      <3>1. /\ w.arg[1] \in Keys /\ w.arg[2] \in Ids
            /\ DerivedId[<<w.id, w.arg[1]>>] = w.arg[2]
        BY <1>1, <2>1 DEF FitWrites, Writes
      <3>2. \/ receipt' = receipt
            \/ receipt' = [receipt EXCEPT ![<<w.id, w.arg[1]>>] = w.arg[2]]
        BY <2>1 DEF Step
      <3>3. /\ receipt \in [Ids \X Keys -> Ids \union {NoId, CutOff}]
            /\ \A s \in Ids, k \in Keys :
                  receipt[<<s, k>>] \in Ids => receipt[<<s, k>>] = DerivedId[<<s, k>>]
        BY DEF OpeningInv, OpeningTypeOK
      <3>4. CASE receipt' = receipt
        BY <3>3, <3>4
      <3>5. CASE receipt' = [receipt EXCEPT ![<<w.id, w.arg[1]>>] = w.arg[2]]
        <4> DEFINE x == w.id
                   y == w.arg[1]
                   z == w.arg[2]
        <4>1. x \in Ids /\ y \in Keys /\ z \in Ids /\ DerivedId[<<x, y>>] = z
          BY <1>2, <3>1
        <4>2. receipt' = [receipt EXCEPT ![<<x, y>>] = z]
          BY <3>5
        <4> HIDE DEF x, y, z
        <4>3. receipt' \in [Ids \X Keys -> Ids \union {NoId, CutOff}]
          BY <3>3, <4>1, <4>2
        <4>4. ASSUME NEW s \in Ids, NEW k \in Keys, receipt'[<<s, k>>] \in Ids
              PROVE  receipt'[<<s, k>>] = DerivedId[<<s, k>>]
          BY <3>3, <4>1, <4>2, <4>4
        <4> QED
          BY <4>3, <4>4
      <3> QED
        BY <3>2, <3>4, <3>5
    <2>2. CASE w.op # "receipt"
      <3>1. receipt' = receipt
        BY <2>2 DEF Step, disk
      <3> QED
        BY <3>1 DEF OpeningInv, OpeningTypeOK
    <2> QED
      BY <2>1, <2>2
  <1>7. /\ log' \in [Ids -> Seq(Events)]
        /\ torn' \subseteq Ids
        /\ glued' \subseteq Ids
    <2>1. CASE w.op = "event"
      <3>1. w.arg \in Events
        BY <1>2, <2>1 DEF Writes
      <3>2. AppendEvent(w.id, w.arg)
        BY <2>1 DEF Step
      <3>3. log[w.id] \in Seq(Events)
        BY <1>2 DEF OpeningInv, OpeningTypeOK
      <3>4. Append(log[w.id], w.arg) \in Seq(Events)
        BY <3>1, <3>3
      <3> QED
        BY <1>2, <3>2, <3>4 DEF AppendEvent, OpeningInv, OpeningTypeOK
    <2>2. CASE w.op # "event"
      <3>1. /\ log' = log \/ log' = [log EXCEPT ![w.id] = <<>>]
            /\ torn' \subseteq torn
            /\ glued' = glued
        BY <2>2 DEF Step, disk
      <3>2. /\ log \in [Ids -> Seq(Events)] /\ <<>> \in Seq(Events)
            /\ torn \subseteq Ids /\ glued \subseteq Ids
        BY DEF OpeningInv, OpeningTypeOK
      <3> QED
        BY <1>2, <3>1, <3>2
    <2> QED
      BY <2>1, <2>2
  <1>8. /\ retired' \subseteq Ids /\ link' \in Ids \union {NoId}
        /\ answered' \subseteq Ids
    <2>1. /\ retired' \in {retired, retired \union {w.id}}
          /\ link' \in {link, w.id}
          /\ answered' \in {answered, answered \union {w.id}}
      BY DEF Step, disk
    <2> QED
      BY <1>2, <2>1 DEF OpeningInv, OpeningTypeOK
  <1> QED
    BY <1>3, <1>4, <1>5, <1>6, <1>7, <1>8 DEF Step, OpeningInv, OpeningTypeOK

LEMMA InterruptedInv ==
    ASSUME OpeningInv, Interrupted
    PROVE  /\ UNCHANGED <<file, retired, log, link>>
           /\ torn' \subseteq Ids
           /\ receipt' \in [Ids \X Keys -> Ids \union {NoId, CutOff}]
           /\ \A s \in Ids, k \in Keys :
                 receipt'[<<s, k>>] \in Ids => receipt'[<<s, k>>] = DerivedId[<<s, k>>]
  <1> DEFINE w == Head(todo)
  <1>1. CASE UNCHANGED disk
    BY <1>1 DEF disk, OpeningInv, OpeningTypeOK
  <1>2. CASE todo # <<>> /\ ~UNCHANGED disk
    <2>1. w \in Writes
      BY <1>2, Rest DEF OpeningInv, OpeningTypeOK
    <2>2. w.id \in Ids
      BY <2>1 DEF Writes
    <2>3. w.op = "receipt" => w.arg[1] \in Keys
      BY <2>1 DEF Writes
    <2>4. /\ UNCHANGED <<file, retired, log, link>>
          /\ torn' \in {torn, torn \union {w.id}}
      BY <1>2 DEF Interrupted, disk
    <2>5. \/ receipt' = receipt
          \/ /\ w.op = "receipt"
             /\ receipt' = [receipt EXCEPT ![<<w.id, w.arg[1]>>] = CutOff]
      BY <1>2 DEF Interrupted, disk
    <2>6. /\ receipt' \in [Ids \X Keys -> Ids \union {NoId, CutOff}]
          /\ \A s \in Ids, k \in Keys :
                receipt'[<<s, k>>] \in Ids => receipt'[<<s, k>>] = DerivedId[<<s, k>>]
      <3>1. /\ receipt \in [Ids \X Keys -> Ids \union {NoId, CutOff}]
            /\ \A s \in Ids, k \in Keys :
                  receipt[<<s, k>>] \in Ids => receipt[<<s, k>>] = DerivedId[<<s, k>>]
            /\ CutOff \notin Ids
        BY OpeningAssumption DEF OpeningInv, OpeningTypeOK
      <3>2. CASE receipt' = receipt
        BY <3>1, <3>2
      <3>3. ASSUME w.op = "receipt", NEW p \in Ids \X Keys,
                   receipt' = [receipt EXCEPT ![p] = CutOff]
            PROVE  /\ receipt' \in [Ids \X Keys -> Ids \union {NoId, CutOff}]
                   /\ \A s \in Ids, k \in Keys :
                         receipt'[<<s, k>>] \in Ids =>
                            receipt'[<<s, k>>] = DerivedId[<<s, k>>]
        BY <3>1, <3>3
      <3> QED
        BY <2>2, <2>3, <2>5, <3>2, <3>3
    <2> QED
      BY <2>2, <2>4, <2>6 DEF OpeningInv, OpeningTypeOK
  <1>3. CASE todo = <<>>
    BY <1>3 DEF Interrupted, disk, OpeningInv, OpeningTypeOK
  <1> QED
    BY <1>1, <1>2, <1>3

LEMMA InitInv == Init => OpeningInv
  <1> SUFFICES ASSUME Init
               PROVE  OpeningInv
    OBVIOUS
  <1>1. /\ <<>> \in Seq(FitWrites) /\ <<>> \in Seq(Writes) /\ <<>> \in Seq(Events)
        /\ 0 \in 0 .. MaxTroubles
    BY OpeningAssumption
  <1>2. OpeningTypeOK
    BY <1>1 DEF Init, OpeningTypeOK
  <1>3. \A s \in Ids, k \in Keys : receipt[<<s, k>>] = NoId
    BY DEF Init
  <1>4. \A i \in Ids : file[i] = NoFile /\ held[i] = NoFile
    BY DEF Init
  <1> QED
    BY <1>1, <1>2, <1>3, <1>4, OpeningAssumption DEF Init, OpeningInv

LEMMA NextInv == OpeningInv /\ [Next]_vars => OpeningInv'
  <1> SUFFICES ASSUME OpeningInv, [Next]_vars
               PROVE  OpeningInv'
    OBVIOUS
  <1>1. CASE \E s \in Ids, k \in Keys : Recreate(s, k)
    BY <1>1, RecreateWrites
  <1>2. ASSUME NEW p \in probing, NotRebuildable(p)
        PROVE  OpeningInv'
    BY <1>2 DEF NotRebuildable, disk, history, OpeningInv, OpeningTypeOK
  <1>3. CASE \E p \in probing : RecreateProbed(p[1], p[2], p[3])
    BY <1>3, RecreateProbedWrites
  <1>4. CASE \E r \in Requests : CreateForRequest(r)
    BY <1>4, RequestWrites
  <1>5. ASSUME NEW i \in RandomIds, OpenLegacy(i) \/ OpenForConversionTerminal(i)
        PROVE  OpeningInv'
    BY <1>5, AutomaticWrites DEF OpenLegacy, OpenForConversionTerminal, Legacy
  <1>6. CASE \E i \in Ids :
                \/ Activate(i) \/ Close(i) \/ Purge(i)
                \/ ReadForHealth(i) \/ SaveHealth(i) \/ HealthUnknown(i)
    BY <1>6, OtherWrites
  <1>7. CASE Refuse
    BY <1>7 DEF Refuse, vars, disk, calls, history, OpeningInv, OpeningTypeOK
  <1>8. CASE Step
    BY <1>8, StepInv
  <1>9. CASE Fault
    <2>1. <<>> \in Seq(FitWrites) /\ <<>> \in Seq(Writes)
      OBVIOUS
    <2>2. troubles' \in 0 .. MaxTroubles
      <3>1. troubles \in 0 .. MaxTroubles /\ troubles < MaxTroubles /\ troubles' = troubles + 1
        BY <1>9 DEF Fault, OpeningInv, OpeningTypeOK
      <3> QED
        BY <3>1, OpeningAssumption
    <2> QED
      BY <1>9, <2>1, <2>2, InterruptedInv DEF Fault, OpeningInv, OpeningTypeOK
  <1>10. CASE Crash
    <2>1. <<>> \in Seq(FitWrites) /\ <<>> \in Seq(Writes)
      OBVIOUS
    <2>2. troubles' \in 0 .. MaxTroubles
      <3>1. troubles \in 0 .. MaxTroubles /\ troubles < MaxTroubles /\ troubles' = troubles + 1
        BY <1>10 DEF Crash, OpeningInv, OpeningTypeOK
      <3> QED
        BY <3>1, OpeningAssumption
    <2> QED
      BY <1>10, <2>1, <2>2, InterruptedInv DEF Crash, OpeningInv, OpeningTypeOK
  <1>11. CASE UNCHANGED vars
    BY <1>11 DEF vars, disk, calls, history, OpeningInv, OpeningTypeOK
  <1> QED
    BY <1>1, <1>2, <1>3, <1>4, <1>5, <1>6, <1>7, <1>8, <1>9, <1>10, <1>11 DEF Next

LEMMA OpeningInvHolds == Spec => []OpeningInv
  BY InitInv, NextInv, PTL DEF Spec

-----------------------------------------------------------------------------
(* The variables keep their types (opening.ts, sessionStore.ts).           *)
THEOREM OpeningTypes == Spec => []OpeningTypeOK
  <1>1. OpeningInv => OpeningTypeOK
    BY DEF OpeningInv
  <1> QED
    BY <1>1, OpeningInvHolds, PTL

(* The errors "collision" and "lineage mismatch" of recreateOnce are never *)
(* thrown: the id of a session and its receipt agree with its source.      *)
THEOREM LineageOfIds == Spec => []IdTellsLineage
  <1>1. OpeningInv => IdTellsLineage
    <2> SUFFICES ASSUME OpeningInv, NEW s \in Ids, NEW k \in Keys, DerivedId[<<s, k>>] # NoId
                 PROVE  /\ Exists(DerivedId[<<s, k>>]) => file[DerivedId[<<s, k>>]].from = s
                        /\ receipt[<<s, k>>] \in {DerivedId[<<s, k>>], NoId, CutOff}
      BY DEF IdTellsLineage
    <2>1. DerivedId[<<s, k>>] \in Ids
      BY OpeningAssumption
    <2>2. Exists(DerivedId[<<s, k>>]) => file[DerivedId[<<s, k>>]].from = s
      BY <2>1 DEF OpeningInv, Lineage, Exists
    <2>3. receipt[<<s, k>>] \in Ids \union {NoId, CutOff}
      BY DEF OpeningInv, OpeningTypeOK
    <2> QED
      BY <2>2, <2>3 DEF OpeningInv
  <1> QED
    BY <1>1, OpeningInvHolds, PTL

(* A purged id never comes back (persistSession, whoever still holds what  *)
(* it read of the session).                                                *)
THEOREM PurgedStaysPurged == Spec => RetiredStaysGone
  <1> DEFINE Gone == \A i \in Ids : i \in retired /\ ~Exists(i)
                                    => i \in retired' /\ file'[i] = NoFile
  <1>1. OpeningInv /\ [Next]_vars => Gone \/ UNCHANGED vars
    <2> SUFFICES ASSUME OpeningInv, Next, NEW i \in Ids, i \in retired, ~Exists(i)
                 PROVE  i \in retired' /\ file'[i] = NoFile
      OBVIOUS
    <2>1. CASE Step
      <3> DEFINE w == Head(todo)
      <3>1. w \in FitWrites /\ w.id \in Ids
        <4>1. todo \in Seq(FitWrites) /\ todo # <<>>
          BY <2>1 DEF Step, OpeningInv
        <4>2. w \in FitWrites
          BY <4>1, Rest
        <4> QED
          BY <4>2 DEF FitWrites, Writes
      <3>2. i \in retired'
        BY <2>1 DEF Step, disk
      <3>3. CASE file' = file
        BY <3>2, <3>3 DEF Exists
      <3>4. CASE file' # file /\ w.id # i
        BY <2>1, <3>1, <3>2, <3>4 DEF Step, disk, Exists, OpeningInv, OpeningTypeOK
      <3>5. CASE file' # file /\ w.id = i
        BY <2>1, <3>1, <3>2, <3>5 DEF Step, disk, Exists, MayPersist, OpeningInv, OpeningTypeOK
      <3> QED
        BY <3>3, <3>4, <3>5
    <2>2. CASE Fault \/ Crash
      BY <2>2, InterruptedInv DEF Fault, Crash, Exists
    <2>3. CASE UNCHANGED disk
      BY <2>3 DEF disk, Exists
    <2> QED
      BY <2>1, <2>2, <2>3
         DEF Next, Recreate, NotRebuildable, RecreateProbed, CreateForRequest,
             OpenLegacy, OpenForConversionTerminal, OpenAutomatically, Activate,
             Close, Purge, ReadForHealth, SaveHealth, HealthUnknown, Refuse, vars
  <1>2. UNCHANGED vars => [Gone]_vars
    OBVIOUS
  <1> QED
    BY <1>1, OpeningInvHolds, PTL DEF Spec, RetiredStaysGone

-----------------------------------------------------------------------------
(***************************************************************************)
(* The lineage in the event logs.  Between the writes of a call the log is *)
(* behind the files, so the invariant is about what the call that runs     *)
(* still has to write: no event that is there already, none twice, none    *)
(* for a session that is neither there nor purged nor about to be created, *)
(* and for an answer all the events that are not there yet.                *)
(***************************************************************************)
Alive(i) == Exists(i) \/ i \in retired

Event(i, e) == [op |-> "event", id |-> i, arg |-> e]

Pays(u, i, e) == \E n \in DOMAIN u : u[n] = Event(i, e)
Owed(u, i, e) == Has(i, e) \/ Pays(u, i, e)

Makes(u, i) == u[1].op = "create" /\ u[1].id = i

TodoShape(u) ==
    /\ \A n \in DOMAIN u :
          /\ u[n].op \in {"create", "save"} => n = 1
          /\ u[n].op = "answer" => n = Len(u)
          /\ u[n].op = "event" => ~Has(u[n].id, u[n].arg)
    /\ \A m, n \in DOMAIN u : u[m].op = "event" /\ u[m] = u[n] => m = n

Ready(u) == \A n \in DOMAIN u : Alive(u[n].id) \/ Makes(u, u[n].id)

(* A session file is written with the source it has, or for the first time *)
(* with one that is another session, and none for a request's session.     *)
SourceKept(w) ==
    /\ Exists(w.id) => w.arg.from = file[w.id].from
    /\ w.op = "create" =>
          /\ w.arg.from # w.id
          /\ \A r \in Requests : w.id = RequestId[r] => w.arg.from = NoId
    /\ w.op = "save" => Alive(w.id)

Sources(u) ==
    \A n \in DOMAIN u : u[n].op \in {"create", "save"} => SourceKept(u[n])

(* A purge: the mark comes first, and no session was recreated from it.    *)
Purges(u) ==
    \A n \in DOMAIN u :
        /\ u[n].op \in {"dropEvents", "dropFile"} =>
              u[n].id \in retired \/ (u[1].op = "retire" /\ u[1].id = u[n].id)
        /\ u[n].op = "dropFile" =>
              /\ \A j \in Ids : Exists(j) => file[j].from # u[n].id
              /\ \A m \in DOMAIN u : u[m].op \notin {"create", "save"}

SourceIn(u, i) == IF Makes(u, i) THEN u[1].arg.from ELSE file[i].from

Recordable(u, i, s) ==
    /\ Owed(u, i, Created(s))
    /\ s \in Ids \ (retired \union glued) => Owed(u, s, Recreated(i))

Answers(u) ==
    \A n \in DOMAIN u :
        u[n].op = "answer" /\ u[n].id \notin retired \union glued =>
            Recordable(u, u[n].id, SourceIn(u, u[n].id))

TodoInv(u) == TodoShape(u) /\ Ready(u) /\ Sources(u) /\ Purges(u) /\ Answers(u)

Lives ==
    /\ \A i \in Ids :
          /\ log[i] # <<>> \/ held[i] # NoFile \/ i \in answered => Alive(i)
          /\ held[i] # NoFile /\ Exists(i) => held[i].from = file[i].from
          /\ Exists(i) => file[i].from # i
    /\ \A r \in Requests :
          Exists(RequestId[r]) => file[RequestId[r]].from = NoId

Probes ==
    \A p \in probing : Alive(p[1]) /\ DerivedId[<<p[1], p[2]>>] # p[1]

LogInv ==
    /\ OpeningInv
    /\ TodoInv(todo)
    /\ Lives
    /\ Probes
    /\ EventsOnce
    /\ AnsweredIsRecorded

-----------------------------------------------------------------------------
(* Sequences, by position.                                                 *)
LEMMA JoinAt ==
    ASSUME NEW S, NEW u \in Seq(S), NEW v \in Seq(S)
    PROVE  /\ u \o v \in Seq(S)
           /\ Len(u) \in Nat /\ Len(v) \in Nat
           /\ Len(u \o v) = Len(u) + Len(v)
           /\ \A n \in DOMAIN u : n \in DOMAIN (u \o v) /\ (u \o v)[n] = u[n]
           /\ \A n \in DOMAIN v :
                 /\ Len(u) + n \in DOMAIN (u \o v)
                 /\ (u \o v)[Len(u) + n] = v[n]
           /\ \A n \in DOMAIN (u \o v) :
                 \/ n \in DOMAIN u
                 \/ /\ n > Len(u) /\ n - Len(u) \in DOMAIN v
                    /\ (u \o v)[n] = v[n - Len(u)]
  <1>1. /\ u \o v \in Seq(S)
        /\ Len(u \o v) = Len(u) + Len(v)
        /\ \A i \in 1 .. Len(u) + Len(v) :
              (u \o v)[i] = IF i <= Len(u) THEN u[i] ELSE v[i - Len(u)]
    BY ConcatProperties
  <1>2. /\ Len(u) \in Nat /\ Len(v) \in Nat
        /\ DOMAIN u = 1 .. Len(u) /\ DOMAIN v = 1 .. Len(v)
        /\ DOMAIN (u \o v) = 1 .. Len(u) + Len(v)
    BY <1>1, LenProperties
  <1> DEFINE x == u \o v
  <1>3. \A i \in 1 .. Len(u) + Len(v) :
              x[i] = IF i <= Len(u) THEN u[i] ELSE v[i - Len(u)]
    BY <1>1
  <1>4. DOMAIN x = 1 .. Len(u) + Len(v)
    BY <1>2
  <1> HIDE DEF x
  <1>5. \A n \in DOMAIN u : n \in DOMAIN x /\ x[n] = u[n]
    BY <1>2, <1>3, <1>4
  <1>6. \A n \in DOMAIN v : Len(u) + n \in DOMAIN x /\ x[Len(u) + n] = v[n]
    BY <1>2, <1>3, <1>4
  <1>7. \A n \in DOMAIN x :
           \/ n \in DOMAIN u
           \/ /\ n > Len(u) /\ n - Len(u) \in DOMAIN v
              /\ x[n] = v[n - Len(u)]
    BY <1>2, <1>3, <1>4
  <1> QED
    BY <1>1, <1>2, <1>5, <1>6, <1>7 DEF x

LEMMA Regrouped ==
    ASSUME NEW u \in Seq(Writes), NEW v \in Seq(Writes), NEW x \in Seq(Writes)
    PROVE  u \o v \o x = u \o (v \o x)
  BY ConcatAssociative

LEMMA TailAt ==
    ASSUME NEW S, NEW u \in Seq(S), u # <<>>
    PROVE  /\ 1 \in DOMAIN u /\ Head(u) = u[1] /\ u[1] \in S
           /\ Len(u) \in Nat /\ Len(Tail(u)) = Len(u) - 1
           /\ \A n \in DOMAIN Tail(u) :
                 n \in Nat /\ n + 1 \in DOMAIN u /\ n + 1 # 1 /\ Tail(u)[n] = u[n + 1]
           /\ \A n \in DOMAIN u :
                 n # 1 => n - 1 \in DOMAIN Tail(u) /\ Tail(u)[n - 1] = u[n]
  <1>1. /\ Tail(u) \in Seq(S)
        /\ Len(Tail(u)) = Len(u) - 1
        /\ \A i \in 1 .. Len(Tail(u)) : Tail(u)[i] = u[i + 1]
    BY HeadTailProperties
  <1>2. /\ Len(u) \in Nat /\ Len(u) # 0 /\ DOMAIN u = 1 .. Len(u)
        /\ DOMAIN Tail(u) = 1 .. Len(Tail(u))
    BY <1>1, LenProperties, EmptySeq
  <1>3. Head(u) = u[1]
    OBVIOUS
  <1>4. 1 \in DOMAIN u /\ u[1] \in S
    BY <1>2, ElementOfSeq
  <1> DEFINE x == Tail(u)
  <1>5. /\ DOMAIN x = 1 .. (Len(u) - 1) /\ DOMAIN u = 1 .. Len(u) /\ Len(u) \in Nat
        /\ \A i \in 1 .. (Len(u) - 1) : x[i] = u[i + 1]
    BY <1>1, <1>2
  <1> HIDE DEF x
  <1>6. \A n \in DOMAIN x :
           n \in Nat /\ n + 1 \in DOMAIN u /\ n + 1 # 1 /\ x[n] = u[n + 1]
    BY <1>5
  <1>7. \A n \in DOMAIN u : n # 1 => n - 1 \in DOMAIN x /\ x[n - 1] = u[n]
    BY <1>5
  <1> QED
    BY <1>1, <1>2, <1>3, <1>4, <1>6, <1>7 DEF x

LEMMA OneAt ==
    ASSUME NEW S, NEW w \in S
    PROVE  /\ <<w>> \in Seq(S) /\ Len(<<w>>) = 1
           /\ \A n \in DOMAIN <<w>> : n = 1 /\ <<w>>[n] = w
           /\ 1 \in DOMAIN <<w>> /\ <<w>>[1] = w
  OBVIOUS

-----------------------------------------------------------------------------
(* Lists of events that are not there yet.                                 *)
Fresh(u) ==
    /\ \A n \in DOMAIN u : u[n].op = "event" /\ ~Has(u[n].id, u[n].arg)
    /\ \A m, n \in DOMAIN u : u[m] = u[n] => m = n

LEMMA MissingFresh ==
    ASSUME NEW i \in Ids, NEW e \in Events
    PROVE  /\ Missing(i, e) \in Seq(Writes)
           /\ Fresh(Missing(i, e))
           /\ \A n \in DOMAIN Missing(i, e) : Missing(i, e)[n] = Event(i, e)
           /\ Owed(Missing(i, e), i, e)
  <1>1. Event(i, e) \in Writes
    BY DEF Event, Writes
  <1>2. CASE Has(i, e)
    <2>1. Missing(i, e) = <<>>
      BY <1>2 DEF Missing
    <2>2. <<>> \in Seq(Writes) /\ \A n \in DOMAIN <<>> : FALSE
      OBVIOUS
    <2> QED
      BY <1>2, <2>1, <2>2 DEF Fresh, Owed
  <1>3. CASE ~Has(i, e)
    <2>1. Missing(i, e) = <<Event(i, e)>>
      BY <1>3 DEF Missing, Append1, Write, Event
    <2>2. Event(i, e).op = "event" /\ Event(i, e).id = i /\ Event(i, e).arg = e
      BY DEF Event
    <2> DEFINE w == Event(i, e)
    <2>3. /\ <<w>> \in Seq(Writes)
          /\ \A n \in DOMAIN <<w>> : n = 1 /\ <<w>>[n] = w
          /\ 1 \in DOMAIN <<w>> /\ <<w>>[1] = w
      BY <1>1, OneAt
    <2> HIDE DEF w
    <2>4. Fresh(<<w>>)
      BY <1>3, <2>2, <2>3 DEF Fresh, w
    <2>5. Pays(<<w>>, i, e)
      BY <2>3 DEF Pays, w
    <2> QED
      BY <2>1, <2>3, <2>4, <2>5 DEF w, Owed
  <1> QED
    BY <1>2, <1>3

LEMMA FreshJoin ==
    ASSUME NEW u \in Seq(Writes), NEW v \in Seq(Writes), Fresh(u), Fresh(v),
           \A m \in DOMAIN u, n \in DOMAIN v : u[m] # v[n]
    PROVE  Fresh(u \o v)
  <1> DEFINE x == u \o v
  <1>1. /\ Len(u) \in Nat /\ DOMAIN u \subseteq Nat
        /\ \A n \in DOMAIN u : x[n] = u[n] /\ n <= Len(u)
        /\ \A n \in DOMAIN x :
                 \/ n \in DOMAIN u
                 \/ /\ n > Len(u) /\ n - Len(u) \in DOMAIN v
                    /\ x[n] = v[n - Len(u)]
        /\ DOMAIN x \subseteq Nat
    <2>1. DOMAIN u = 1 .. Len(u) /\ DOMAIN x = 1 .. Len(x)
      BY ConcatProperties, LenProperties
    <2> HIDE DEF x
    <2> QED
      BY <2>1, JoinAt DEF x
  <1> HIDE DEF x
  <1>2. \A n \in DOMAIN x : x[n].op = "event" /\ ~Has(x[n].id, x[n].arg)
    BY <1>1 DEF Fresh
  <1>3. ASSUME NEW m \in DOMAIN x, NEW n \in DOMAIN x, x[m] = x[n]
        PROVE  m = n
    <2>1. CASE m \in DOMAIN u /\ n \in DOMAIN u
      BY <1>1, <1>3, <2>1 DEF Fresh
    <2>2. CASE m \in DOMAIN u /\ n \notin DOMAIN u
      BY <1>1, <1>3, <2>2
    <2>3. CASE m \notin DOMAIN u /\ n \in DOMAIN u
      BY <1>1, <1>3, <2>3
    <2>4. CASE m \notin DOMAIN u /\ n \notin DOMAIN u
      <3>1. /\ m - Len(u) \in DOMAIN v /\ n - Len(u) \in DOMAIN v
            /\ v[m - Len(u)] = v[n - Len(u)]
        BY <1>1, <1>3, <2>4
      <3>2. m - Len(u) = n - Len(u)
        BY <3>1 DEF Fresh
      <3> QED
        BY <1>1, <3>2
    <2> QED
      BY <2>1, <2>2, <2>3, <2>4
  <1> QED
    BY <1>2, <1>3 DEF Fresh, x

(* What is in one of two lists is in both joined, and nothing else.        *)
LEMMA JoinElements ==
    ASSUME NEW u \in Seq(Writes), NEW v \in Seq(Writes)
    PROVE  /\ \A n \in DOMAIN (u \o v) :
                 \/ \E m \in DOMAIN u : (u \o v)[n] = u[m]
                 \/ \E m \in DOMAIN v : (u \o v)[n] = v[m]
           /\ \A i, e : Owed(u, i, e) \/ Owed(v, i, e) => Owed(u \o v, i, e)
  <1> DEFINE x == u \o v
  <1>1. /\ \A n \in DOMAIN u : n \in DOMAIN x /\ x[n] = u[n]
        /\ \A n \in DOMAIN v : Len(u) + n \in DOMAIN x /\ x[Len(u) + n] = v[n]
        /\ \A n \in DOMAIN x :
                 \/ n \in DOMAIN u
                 \/ n - Len(u) \in DOMAIN v /\ x[n] = v[n - Len(u)]
    BY JoinAt
  <1> HIDE DEF x
  <1>2. \A n \in DOMAIN x : \/ \E m \in DOMAIN u : x[n] = u[m]
                            \/ \E m \in DOMAIN v : x[n] = v[m]
    BY <1>1
  <1>3. \A i, e : Owed(u, i, e) \/ Owed(v, i, e) => Owed(x, i, e)
    BY <1>1 DEF Owed, Pays
  <1> QED
    BY <1>2, <1>3 DEF x

LEMMA EventsDiffer ==
    ASSUME NEW i, NEW s
    PROVE  /\ Event(i, Created(s)) # Event(s, Recreated(i))
           /\ Event(i, Created(s)) # Event(i, Active)
           /\ Event(s, Recreated(i)) # Event(i, Active)
  <1>1. /\ Event(i, Created(s)).arg.type = "sessionCreated"
        /\ Event(s, Recreated(i)).arg.type = "sessionRecreated"
        /\ Event(i, Active).arg.type = "sessionActive"
    BY DEF Event, Created, Recreated, Active
  <1> QED
    BY <1>1

LEMMA EnsureFresh ==
    ASSUME NEW s \in Ids, NEW i \in Ids, NEW st
    PROVE  LET E == EnsureRecreationEvents(s, i, st)
           IN  /\ E \in Seq(Writes) /\ Fresh(E)
               /\ \A n \in DOMAIN E : E[n].id \in {s, i}
               /\ Owed(E, i, Created(s)) /\ Owed(E, s, Recreated(i))
  <1> DEFINE a == Missing(i, Created(s))
             b == Missing(s, Recreated(i))
             c == IF st = "active" THEN Missing(i, Active) ELSE <<>>
             E == EnsureRecreationEvents(s, i, st)
  <1>1. /\ a \in Seq(Writes) /\ Fresh(a) /\ Owed(a, i, Created(s))
        /\ \A n \in DOMAIN a : a[n] = Event(i, Created(s))
    BY MissingFresh, EventTypes
  <1>2. /\ b \in Seq(Writes) /\ Fresh(b) /\ Owed(b, s, Recreated(i))
        /\ \A n \in DOMAIN b : b[n] = Event(s, Recreated(i))
    BY MissingFresh, EventTypes
  <1>3. /\ c \in Seq(Writes) /\ Fresh(c)
        /\ \A n \in DOMAIN c : c[n] = Event(i, Active)
    <2>1. <<>> \in Seq(Writes) /\ \A n \in DOMAIN <<>> : FALSE
      OBVIOUS
    <2>2. Active \in Events
      BY EventTypes
    <2> QED
      BY <2>1, <2>2, MissingFresh DEF Fresh
  <1>4. E = (a \o b) \o c
    BY DEF EnsureRecreationEvents
  <1> HIDE DEF a, b, c, E
  <1>5. /\ a \o b \in Seq(Writes) /\ Fresh(a \o b)
        /\ \A n \in DOMAIN (a \o b) :
              (a \o b)[n] = Event(i, Created(s)) \/ (a \o b)[n] = Event(s, Recreated(i))
        /\ Owed(a \o b, i, Created(s)) /\ Owed(a \o b, s, Recreated(i))
    <2>1. a \o b \in Seq(Writes)
      BY <1>1, <1>2, Joined
    <2>2. Fresh(a \o b)
      BY <1>1, <1>2, EventsDiffer, FreshJoin
    <2> QED
      BY <1>1, <1>2, <2>1, <2>2, JoinElements
  <1> DEFINE d == a \o b
  <1>6. /\ d \in Seq(Writes) /\ Fresh(d)
        /\ \A n \in DOMAIN d :
              d[n] = Event(i, Created(s)) \/ d[n] = Event(s, Recreated(i))
        /\ Owed(d, i, Created(s)) /\ Owed(d, s, Recreated(i))
        /\ E = d \o c
    BY <1>4, <1>5
  <1> HIDE DEF d
  <1>7. E \in Seq(Writes)
    BY <1>3, <1>6, Joined
  <1>8. Fresh(E)
    BY <1>3, <1>6, EventsDiffer, FreshJoin
  <1>9. /\ Owed(E, i, Created(s)) /\ Owed(E, s, Recreated(i))
        /\ \A n \in DOMAIN E : \/ \E m \in DOMAIN d : E[n] = d[m]
                               \/ \E m \in DOMAIN c : E[n] = c[m]
    BY <1>3, <1>6, JoinElements
  <1>10. \A n \in DOMAIN E : E[n].id \in {s, i}
    BY <1>3, <1>6, <1>9 DEF Event
  <1> QED
    BY <1>7, <1>8, <1>9, <1>10 DEF E


-----------------------------------------------------------------------------
(***************************************************************************)
(* How a call that opens, activates or repeats a session begins: perhaps a *)
(* write to the file of session i, then the events of its lineage that are *)
(* missing, then what records the end of the call.                         *)
(***************************************************************************)
Opens(pre, i) ==
    \/ pre = <<>> /\ Alive(i)
    \/ \E st \in {"active", "closing", "closed"} :
          pre = Write("status", i, st) /\ Alive(i)
    \/ \E f \in Files :
          /\ pre = Write("create", i, f)
          /\ SourceKept([op |-> "create", id |-> i, arg |-> f])

(* The source session i has once the call has written its file.            *)
SourceOf(pre, i) ==
    IF pre # <<>> /\ pre[1].op = "create" THEN pre[1].arg.from ELSE file[i].from

Ends(post, i) ==
    \A n \in DOMAIN post :
        /\ post[n].op \in {"receipt", "link", "answer"}
        /\ post[n].id = i \/ Alive(post[n].id)
        /\ post[n].op = "answer" => post[n].id = i /\ n = Len(post)

LEMMA OpensElements ==
    ASSUME NEW i \in Ids, NEW pre, Opens(pre, i)
    PROVE  /\ pre \in Seq(Writes)
           /\ Len(pre) \in {0, 1}
           /\ \A n \in DOMAIN pre :
                 /\ n = 1 /\ pre[n].id = i /\ pre[n].op \in {"create", "status"}
                 /\ pre[n].op = "create" => SourceKept(pre[n])
           /\ Alive(i) \/ (1 \in DOMAIN pre /\ pre[1].op = "create" /\ pre[1].id = i)
           /\ pre # <<>> => 1 \in DOMAIN pre
  <1>1. CASE pre = <<>> /\ Alive(i)
    BY <1>1
  <1>2. ASSUME NEW st \in {"active", "closing", "closed"},
               pre = Write("status", i, st), Alive(i)
        PROVE  /\ pre \in Seq(Writes)
               /\ Len(pre) \in {0, 1}
               /\ \A n \in DOMAIN pre :
                     /\ n = 1 /\ pre[n].id = i /\ pre[n].op \in {"create", "status"}
                     /\ pre[n].op = "create" => SourceKept(pre[n])
               /\ Alive(i) \/ (1 \in DOMAIN pre /\ pre[1].op = "create" /\ pre[1].id = i)
               /\ pre # <<>> => 1 \in DOMAIN pre
    <2> DEFINE w == [op |-> "status", id |-> i, arg |-> st]
    <2>1. w \in Writes /\ w.op = "status" /\ w.id = i
      BY DEF Writes
    <2>2. pre = <<w>>
      BY <1>2 DEF Write
    <2>3. /\ <<w>> \in Seq(Writes) /\ Len(<<w>>) = 1
          /\ \A n \in DOMAIN <<w>> : n = 1 /\ <<w>>[n] = w
          /\ 1 \in DOMAIN <<w>> /\ <<w>>[1] = w
      BY <2>1, OneAt
    <2> HIDE DEF w
    <2> QED
      BY <1>2, <2>1, <2>2, <2>3
  <1>3. ASSUME NEW f \in Files, pre = Write("create", i, f),
               SourceKept([op |-> "create", id |-> i, arg |-> f])
        PROVE  /\ pre \in Seq(Writes)
               /\ Len(pre) \in {0, 1}
               /\ \A n \in DOMAIN pre :
                     /\ n = 1 /\ pre[n].id = i /\ pre[n].op \in {"create", "status"}
                     /\ pre[n].op = "create" => SourceKept(pre[n])
               /\ Alive(i) \/ (1 \in DOMAIN pre /\ pre[1].op = "create" /\ pre[1].id = i)
               /\ pre # <<>> => 1 \in DOMAIN pre
    <2> DEFINE w == [op |-> "create", id |-> i, arg |-> f]
    <2>1. w \in Writes /\ w.op = "create" /\ w.id = i /\ SourceKept(w)
      BY <1>3 DEF Writes
    <2>2. pre = <<w>>
      BY <1>3 DEF Write
    <2>3. /\ <<w>> \in Seq(Writes) /\ Len(<<w>>) = 1
          /\ \A n \in DOMAIN <<w>> : n = 1 /\ <<w>>[n] = w
          /\ 1 \in DOMAIN <<w>> /\ <<w>>[1] = w
      BY <2>1, OneAt
    <2> HIDE DEF w
    <2> QED
      BY <1>3, <2>1, <2>2, <2>3
  <1> QED
    BY <1>1, <1>2, <1>3 DEF Opens

(* Three lists joined, by position.                                        *)
LEMMA ThreeJoined ==
    ASSUME NEW S, NEW a \in Seq(S), NEW b \in Seq(S), NEW c \in Seq(S),
           NEW u, u = a \o b \o c
    PROVE  /\ u \in Seq(S)
           /\ Len(a) \in Nat /\ Len(b) \in Nat /\ Len(c) \in Nat
           /\ Len(u) = Len(a) + Len(b) + Len(c)
           /\ DOMAIN u \subseteq Nat
           /\ \A n \in DOMAIN a : n \in DOMAIN u /\ u[n] = a[n]
           /\ \A n \in DOMAIN b :
                 Len(a) + n \in DOMAIN u /\ u[Len(a) + n] = b[n]
           /\ \A n \in DOMAIN u :
                 \/ n \in DOMAIN a
                 \/ /\ n - Len(a) \in DOMAIN b
                    /\ u[n] = b[n - Len(a)]
                 \/ /\ n - Len(a) - Len(b) \in DOMAIN c
                    /\ u[n] = c[n - Len(a) - Len(b)]
           /\ a # <<>> => 1 \in DOMAIN a
  <1> DEFINE d == a \o b
  <1>1. /\ d \in Seq(S)
        /\ Len(a) \in Nat /\ Len(b) \in Nat /\ Len(d) = Len(a) + Len(b)
        /\ \A n \in DOMAIN a : n \in DOMAIN d /\ d[n] = a[n]
        /\ \A n \in DOMAIN b : Len(a) + n \in DOMAIN d /\ d[Len(a) + n] = b[n]
        /\ \A n \in DOMAIN d :
              \/ n \in DOMAIN a
              \/ /\ n - Len(a) \in DOMAIN b /\ d[n] = b[n - Len(a)]
    BY JoinAt
  <1> HIDE DEF d
  <1>0. d \in Seq(S) /\ u = d \o c
    BY <1>1 DEF d
  <1>2. /\ u \in Seq(S)
        /\ Len(c) \in Nat /\ Len(u) = Len(d) + Len(c)
        /\ \A n \in DOMAIN d : n \in DOMAIN u /\ u[n] = d[n]
        /\ \A n \in DOMAIN u :
              \/ n \in DOMAIN d
              \/ /\ n - Len(d) \in DOMAIN c /\ u[n] = c[n - Len(d)]
    BY <1>0, JoinAt
  <1>3. DOMAIN u \subseteq Nat /\ (a # <<>> => 1 \in DOMAIN a)
    <2>1. DOMAIN u = 1 .. Len(u) /\ DOMAIN a = 1 .. Len(a)
      BY <1>2, LenProperties
    <2>2. a # <<>> => Len(a) # 0
      BY EmptySeq
    <2> QED
      BY <1>1, <2>1, <2>2
  <1>4. ASSUME NEW n \in DOMAIN u
        PROVE  \/ n \in DOMAIN a
               \/ /\ n - Len(a) \in DOMAIN b
                  /\ u[n] = b[n - Len(a)]
               \/ /\ n - Len(a) - Len(b) \in DOMAIN c
                  /\ u[n] = c[n - Len(a) - Len(b)]
    <2>1. n \in Nat /\ n - Len(d) = n - Len(a) - Len(b)
      BY <1>1, <1>3
    <2> QED
      BY <1>1, <1>2, <2>1
  <1>6. /\ Len(u) = Len(a) + Len(b) + Len(c)
        /\ \A n \in DOMAIN a : n \in DOMAIN u /\ u[n] = a[n]
        /\ \A n \in DOMAIN b :
              Len(a) + n \in DOMAIN u /\ u[Len(a) + n] = b[n]
    BY <1>1, <1>2
  <1> QED
    BY <1>1, <1>2, <1>3, <1>4, <1>6

LEMMA OpeningCall ==
    ASSUME NEW i \in Ids, NEW pre, NEW ev \in Seq(Writes), NEW post \in Seq(Writes),
           Opens(pre, i), Fresh(ev), Ends(post, i),
           \A n \in DOMAIN ev : ev[n].id = i \/ Alive(ev[n].id),
           (\E n \in DOMAIN post : post[n].op = "answer")
               /\ i \notin retired \union glued
               => Recordable(ev, i, SourceOf(pre, i))
    PROVE  TodoInv(pre \o ev \o post)
  <1> DEFINE u == pre \o ev \o post
             b == Len(pre)
  <1>1. /\ pre \in Seq(Writes) /\ b \in {0, 1}
        /\ \A n \in DOMAIN pre :
              /\ n = 1 /\ pre[n].id = i /\ pre[n].op \in {"create", "status"}
              /\ pre[n].op = "create" => SourceKept(pre[n])
        /\ Alive(i) \/ (1 \in DOMAIN pre /\ pre[1].op = "create" /\ pre[1].id = i)
        /\ pre # <<>> => 1 \in DOMAIN pre
    BY OpensElements
  <1>2. /\ u \in Seq(Writes)
        /\ Len(ev) \in Nat /\ Len(post) \in Nat
        /\ Len(u) = b + Len(ev) + Len(post)
        /\ DOMAIN u \subseteq Nat
        /\ \A n \in DOMAIN pre : n \in DOMAIN u /\ u[n] = pre[n]
        /\ \A n \in DOMAIN ev : b + n \in DOMAIN u /\ u[b + n] = ev[n]
        /\ \A n \in DOMAIN u :
              \/ n \in DOMAIN pre
              \/ n - b \in DOMAIN ev /\ u[n] = ev[n - b]
              \/ /\ n - b - Len(ev) \in DOMAIN post
                 /\ u[n] = post[n - b - Len(ev)]
    <2>1. pre \in Seq(Writes)
      BY <1>1
    <2>2. u = pre \o ev \o post
      OBVIOUS
    <2> HIDE DEF u, b
    <2>4. u \in Seq(Writes)
      BY <2>1, <2>2, ThreeJoined
    <2>5. Len(u) = Len(pre) + Len(ev) + Len(post)
      BY <2>1, <2>2, ThreeJoined
    <2>6. \A n \in DOMAIN pre : n \in DOMAIN u /\ u[n] = pre[n]
      BY <2>1, <2>2, ThreeJoined
    <2>7. \A n \in DOMAIN u :
              \/ n \in DOMAIN pre
              \/ n - Len(pre) \in DOMAIN ev /\ u[n] = ev[n - Len(pre)]
              \/ /\ n - Len(pre) - Len(ev) \in DOMAIN post
                 /\ u[n] = post[n - Len(pre) - Len(ev)]
      BY <2>1, <2>2, ThreeJoined
    <2>8. \A n \in DOMAIN ev :
             Len(pre) + n \in DOMAIN u /\ u[Len(pre) + n] = ev[n]
      BY <2>1, <2>2, ThreeJoined
    <2>9. Len(ev) \in Nat /\ Len(post) \in Nat /\ DOMAIN u \subseteq Nat
      BY <2>1, <2>2, ThreeJoined
    <2> QED
      BY <2>4, <2>5, <2>6, <2>7, <2>8, <2>9 DEF b
  <1> HIDE DEF u, b
  <1>3. \A n \in DOMAIN ev : ev[n].op = "event" /\ ~Has(ev[n].id, ev[n].arg)
    BY DEF Fresh
  <1>4. TodoShape(u)
    <2>1. ASSUME NEW n \in DOMAIN u
          PROVE  /\ u[n].op \in {"create", "save"} => n = 1
                 /\ u[n].op = "answer" => n = Len(u)
                 /\ u[n].op = "event" => ~Has(u[n].id, u[n].arg)
      <3>1. CASE n \in DOMAIN pre
        BY <1>1, <1>2, <3>1
      <3>2. CASE n - b \in DOMAIN ev /\ u[n] = ev[n - b]
        BY <1>3, <3>2
      <3>3. CASE n - b - Len(ev) \in DOMAIN post /\ u[n] = post[n - b - Len(ev)]
        <4>1. /\ u[n].op \in {"receipt", "link", "answer"}
              /\ u[n].op = "answer" => n - b - Len(ev) = Len(post)
          BY <3>3 DEF Ends
        <4>2. n \in Nat /\ b \in Nat
          BY <1>1, <1>2
        <4> QED
          BY <1>2, <4>1, <4>2
      <3> QED
        BY <1>2, <3>1, <3>2, <3>3
    <2>2. ASSUME NEW m \in DOMAIN u, NEW n \in DOMAIN u,
                 u[m].op = "event", u[m] = u[n]
          PROVE  m = n
      <3>1. \A k \in DOMAIN u :
               u[k].op = "event" => k - b \in DOMAIN ev /\ u[k] = ev[k - b]
        <4> SUFFICES ASSUME NEW k \in DOMAIN u, u[k].op = "event"
                     PROVE  k - b \in DOMAIN ev /\ u[k] = ev[k - b]
          OBVIOUS
        <4>1. k \notin DOMAIN pre
          BY <1>1, <1>2
        <4>2. CASE k - b - Len(ev) \in DOMAIN post /\ u[k] = post[k - b - Len(ev)]
          BY <4>2 DEF Ends
        <4> QED
          BY <1>2, <4>1, <4>2
      <3>2. m - b = n - b
        BY <2>2, <3>1 DEF Fresh
      <3>3. m \in Nat /\ n \in Nat /\ b \in Nat
        BY <1>1, <1>2
      <3> QED
        BY <3>2, <3>3
    <2> QED
      BY <2>1, <2>2 DEF TodoShape
  <1>5. ASSUME 1 \in DOMAIN pre
        PROVE  u[1] = pre[1]
    BY <1>2, <1>5
  <1>6. \A n \in DOMAIN u : u[n].id = i \/ Alive(u[n].id)
    <2>1. \A n \in DOMAIN post : post[n].id = i \/ Alive(post[n].id)
      BY DEF Ends
    <2>2. \A n \in DOMAIN pre : pre[n].id = i
      BY <1>1
    <2> QED
      BY <1>2, <2>1, <2>2
  <1>7. Ready(u)
    BY <1>1, <1>5, <1>6 DEF Ready, Makes
  <1>8. \A n \in DOMAIN u : u[n].op \in {"create", "save"} =>
                               n \in DOMAIN pre /\ u[n] = pre[n] /\ u[n].op = "create"
    <2>1. \A n \in DOMAIN post : post[n].op \notin {"create", "save"}
      BY DEF Ends
    <2> QED
      BY <1>1, <1>2, <1>3, <2>1
  <1>9. Sources(u)
    BY <1>1, <1>8 DEF Sources
  <1>10. Purges(u)
    <2>1. \A n \in DOMAIN post : post[n].op \notin {"dropEvents", "dropFile"}
      BY DEF Ends
    <2>2. \A n \in DOMAIN u : u[n].op \notin {"dropEvents", "dropFile"}
      BY <1>1, <1>2, <1>3, <2>1
    <2> QED
      BY <2>2 DEF Purges
  <1>11. Answers(u)
    <2> SUFFICES ASSUME NEW n \in DOMAIN u, u[n].op = "answer",
                        u[n].id \notin retired \union glued
                 PROVE  Recordable(u, u[n].id, SourceIn(u, u[n].id))
      BY DEF Answers
    <2>1. /\ n - b - Len(ev) \in DOMAIN post
          /\ u[n] = post[n - b - Len(ev)]
      BY <1>1, <1>2, <1>3
    <2>2. u[n].id = i /\ \E m \in DOMAIN post : post[m].op = "answer"
      BY <2>1 DEF Ends
    <2>3. Recordable(ev, i, SourceOf(pre, i))
      BY <2>2
    <2>4. SourceIn(u, i) = SourceOf(pre, i)
      <3>1. CASE pre # <<>>
        BY <1>1, <1>5, <3>1 DEF SourceIn, SourceOf, Makes
      <3>2. CASE pre = <<>>
        <4>1. ~Makes(u, i)
          <5>1. SUFFICES ASSUME u[1].op = "create" PROVE FALSE
            BY DEF Makes
          <5>2. 1 \in DOMAIN u
            <6>1. DOMAIN u = 1 .. Len(u) /\ Len(u) \in Nat
              BY <1>2, LenProperties
            <6> QED
              BY <6>1
          <5>3. 1 \in DOMAIN pre
            BY <1>8, <5>1, <5>2
          <5> QED
            BY <3>2, <5>3
        <4> QED
          BY <3>2, <4>1 DEF SourceIn, SourceOf
      <3> QED
        BY <3>1, <3>2
    <2>5. \A j, e : Owed(ev, j, e) => Owed(u, j, e)
      BY <1>2 DEF Owed, Pays
    <2> QED
      BY <2>2, <2>3, <2>4, <2>5 DEF Recordable
  <1> QED
    BY <1>4, <1>7, <1>9, <1>10, <1>11 DEF TodoInv, u

LEMMA EndsJoin ==
    ASSUME NEW i, NEW a \in Seq(Writes), NEW b \in Seq(Writes), Ends(a, i), Ends(b, i),
           \A n \in DOMAIN a : a[n].op # "answer"
    PROVE  Ends(a \o b, i)
  <1> DEFINE x == a \o b
  <1>1. /\ Len(x) = Len(a) + Len(b) /\ Len(a) \in Nat /\ Len(b) \in Nat
        /\ \A n \in DOMAIN a : x[n] = a[n]
        /\ \A n \in DOMAIN x :
              \/ n \in DOMAIN a
              \/ n - Len(a) \in DOMAIN b /\ x[n] = b[n - Len(a)]
    BY JoinAt
  <1>2. DOMAIN x \subseteq Nat
    <2>1. x \in Seq(Writes)
      BY Joined
    <2> HIDE DEF x
    <2> QED
      BY <2>1, LenProperties
  <1> HIDE DEF x
  <1> SUFFICES ASSUME NEW n \in DOMAIN x
               PROVE  /\ x[n].op \in {"receipt", "link", "answer"}
                      /\ x[n].id = i \/ Alive(x[n].id)
                      /\ x[n].op = "answer" => x[n].id = i /\ n = Len(x)
    BY DEF Ends, x
  <1>3. CASE n \in DOMAIN a
    BY <1>1, <1>3 DEF Ends
  <1>4. CASE n - Len(a) \in DOMAIN b /\ x[n] = b[n - Len(a)]
    <2>1. x[n].op = "answer" => n - Len(a) = Len(b)
      BY <1>4 DEF Ends
    <2>2. n \in Nat
      BY <1>2
    <2>3. x[n].op = "answer" => n = Len(x)
      BY <1>1, <2>1, <2>2
    <2> QED
      BY <1>4, <2>3 DEF Ends
  <1> QED
    BY <1>1, <1>3, <1>4

LEMMA EndsOne ==
    ASSUME NEW i, NEW x, NEW op \in {"receipt", "link", "answer"}, NEW arg,
           x = i \/ Alive(x), op = "answer" => x = i
    PROVE  Ends(Write(op, x, arg), i)
  BY DEF Write, Ends

LEMMA NoWrites == TodoInv(<<>>) /\ (\A i : Ends(<<>>, i)) /\ Fresh(<<>>)
  BY DEF TodoInv, TodoShape, Ready, Sources, Purges, Answers, Ends, Fresh

(* A call begins: files and logs are as they were.                         *)
LEMMA Begins ==
    ASSUME LogInv, OpeningInv', NEW u, todo' = u, TodoInv(u),
           UNCHANGED <<disk, history>>, Probes',
           \A i \in Ids : held'[i] # NoFile => held'[i] = held[i] \/ held'[i] = file[i]
    PROVE  LogInv'
  <1>1. /\ file' = file /\ retired' = retired /\ log' = log
        /\ answered' = answered /\ glued' = glued
    BY DEF disk, history
  <1>2. TodoInv(todo)'
    <2>1. TodoShape(todo)'
      BY <1>1 DEF TodoInv, TodoShape, Has
    <2>2. Ready(todo)'
      BY <1>1 DEF TodoInv, Ready, Alive, Exists, Makes
    <2>3. Sources(todo)'
      BY <1>1 DEF TodoInv, Sources, SourceKept, Alive, Exists
    <2>4. Purges(todo)'
      BY <1>1 DEF TodoInv, Purges, Exists
    <2>5. Answers(todo)'
      BY <1>1 DEF TodoInv, Answers, Recordable, SourceIn, Owed, Pays, Has, Makes
    <2> QED
      BY <2>1, <2>2, <2>3, <2>4, <2>5 DEF TodoInv
  <1>3. Lives'
    BY <1>1 DEF LogInv, Lives, Alive, Exists
  <1>4. EventsOnce' /\ AnsweredIsRecorded'
    BY <1>1 DEF LogInv, EventsOnce, AnsweredIsRecorded, Has
  <1> QED
    BY <1>2, <1>3, <1>4 DEF LogInv

(* A session that nobody knew has an empty log.                            *)
LEMMA UnknownIsEmpty ==
    ASSUME LogInv, NEW i \in Ids, ~Exists(i), i \notin retired, NEW e
    PROVE  ~Has(i, e) /\ Missing(i, e) = Append1(i, e)
  <1>1. log[i] = <<>>
    BY DEF LogInv, Lives, Alive
  <1>2. ~Has(i, e)
    BY <1>1 DEF Has
  <1> QED
    BY <1>2 DEF Missing

LEMMA EnsureRecords ==
    ASSUME NEW s \in Ids, NEW i \in Ids, NEW st, NEW from, from = s
    PROVE  Recordable(EnsureRecreationEvents(s, i, st), i, from)
  BY EnsureFresh DEF Recordable

LEMMA RecreateLog ==
    ASSUME LogInv, NEW s \in Ids, NEW k \in Keys, Recreate(s, k)
    PROVE  LogInv'
  <1> DEFINE i == DerivedId[<<s, k>>]
             r == receipt[<<s, k>>]
  <1>0. OpeningInv'
    BY RecreateWrites DEF LogInv
  <1>1. i \in Ids /\ Exists(s) /\ Alive(s)
    BY OpeningAssumption DEF Recreate, Closed, Alive
  <1>2. UNCHANGED <<disk, held, history>>
    BY DEF Recreate
  <1>3. \A x \in Ids : held'[x] # NoFile => held'[x] = held[x] \/ held'[x] = file[x]
    BY <1>2
  <1>4. ASSUME NEW x \in Ids, DerivedId[<<s, k>>] = x, Exists(x), NEW st,
               NEW post \in Seq(Writes), Ends(post, x),
               todo' = EnsureRecreationEvents(s, x, st) \o post, probing' = probing
        PROVE  LogInv'
    <2> DEFINE ev == EnsureRecreationEvents(s, x, st)
    <2>1. /\ ev \in Seq(Writes) /\ Fresh(ev)
          /\ \A n \in DOMAIN ev : ev[n].id \in {s, x}
      BY EnsureFresh
    <2>2. file[x].from = s
      BY <1>4 DEF LogInv, OpeningInv, Lineage, Exists
    <2>3. Recordable(ev, x, SourceOf(<<>>, x))
      BY <2>2, EnsureRecords DEF SourceOf
    <2>4. Opens(<<>>, x)
      BY <1>4 DEF Opens, Alive
    <2> HIDE DEF ev
    <2>5. TodoInv(<<>> \o ev \o post)
      BY <1>1, <1>4, <2>1, <2>3, <2>4, OpeningCall
    <2>6. <<>> \o ev = ev
      BY <2>1, ConcatEmptySeq
    <2>7. TodoInv(todo')
      BY <1>4, <2>5, <2>6 DEF ev
    <2>8. Probes'
      BY <1>2, <1>4 DEF LogInv, Probes, Alive, Exists, disk
    <2> QED
      BY <1>0, <1>2, <1>3, <2>7, <2>8, Begins
  <1>5. CASE r \in Ids /\ Exists(r) /\ probing' = probing
               /\ todo' = EnsureRecreationEvents(s, r, file[r].status)
                            \o Write("answer", r, NoId)
    <2>1. DerivedId[<<s, k>>] = r
      BY <1>5 DEF LogInv, OpeningInv
    <2>2. Write("answer", r, NoId) \in Seq(Writes)
      BY <1>5, PlainWrites, FitSeq
    <2>3. Ends(Write("answer", r, NoId), r)
      BY EndsOne
    <2> QED
      BY <1>4, <1>5, <2>1, <2>2, <2>3
  <1>6. CASE Exists(i) /\ probing' = probing
               /\ todo' = EnsureRecreationEvents(s, i, file[i].status)
                            \o Write("receipt", s, <<k, i>>) \o Write("answer", i, NoId)
    <2> DEFINE a == Write("receipt", s, <<k, i>>)
               b == Write("answer", i, NoId)
               ev == EnsureRecreationEvents(s, i, file[i].status)
    <2>1. a \in Seq(Writes) /\ b \in Seq(Writes) /\ ev \in Seq(Writes)
      BY <1>1, PlainWrites, ReceiptWrites, EnsureWrites, FitSeq
    <2>2. Ends(a, i) /\ Ends(b, i)
      BY <1>1, EndsOne
    <2>3. \A n \in DOMAIN a : a[n].op # "answer"
      BY DEF Write
    <2>4. todo' = ev \o a \o b
      BY <1>6
    <2> HIDE DEF a, b
    <2>5. Ends(a \o b, i) /\ a \o b \in Seq(Writes)
      BY <2>1, <2>2, <2>3, EndsJoin, Joined
    <2>6. todo' = ev \o (a \o b)
      <3> HIDE DEF ev
      <3> QED
        BY <2>1, <2>4, Regrouped
    <2> QED
      BY <1>1, <1>4, <1>6, <2>5, <2>6
  <1>7. CASE ~Exists(i) /\ todo' = <<>>
               /\ probing' = probing \union {<<s, k, file[s].carrier>>}
    <2>1. i # s
      BY <1>1, <1>7
    <2>2. Probes'
      <3> DEFINE q == <<s, k, file[s].carrier>>
      <3>1. q[1] = s /\ q[2] = k
        OBVIOUS
      <3>2. probing' = probing \union {q}
        BY <1>7
      <3> HIDE DEF q
      <3>3. Alive(q[1]) /\ DerivedId[<<q[1], q[2]>>] # q[1]
        BY <1>1, <2>1, <3>1
      <3>4. \A p \in probing' : Alive(p[1]) /\ DerivedId[<<p[1], p[2]>>] # p[1]
        BY <3>2, <3>3 DEF LogInv, Probes
      <3> QED
        BY <1>2, <3>4 DEF Probes, Alive, Exists, disk
    <2> QED
      BY <1>0, <1>2, <1>3, <1>7, <2>2, NoWrites, Begins
  <1> QED
    BY <1>5, <1>6, <1>7 DEF Recreate, Run

LEMMA RecreateProbedLog ==
    ASSUME LogInv, NEW p \in probing, RecreateProbed(p[1], p[2], p[3])
    PROVE  LogInv'
  <1> DEFINE s == p[1]
             k == p[2]
             i == DerivedId[<<s, k>>]
             f == [status |-> "created", from |-> s, carrier |-> p[3]]
             pre == Write("create", i, f)
             ev == EnsureRecreationEvents(s, i, "created")
             a == Write("receipt", s, <<k, i>>)
             b == Write("answer", i, NoId)
  <1>0. OpeningInv'
    BY RecreateProbedWrites DEF LogInv
  <1>1. s \in Ids /\ k \in Keys /\ p[3] \in BOOLEAN /\ i # NoId
    BY DEF LogInv, OpeningInv, OpeningTypeOK
  <1>2. f \in Files /\ f.from = s /\ i \in Ids
    BY <1>1, OpeningAssumption DEF Files
  <1>3. Alive(s) /\ i # s
    BY DEF LogInv, Probes
  <1>4. SourceKept([op |-> "create", id |-> i, arg |-> f])
    <2>1. Exists(i) => file[i].from = s
      BY <1>1, <1>2 DEF LogInv, OpeningInv, Lineage, Exists
    <2>2. \A r \in Requests : RequestId[r] # i
      BY <1>1, OpeningAssumption
    <2> QED
      BY <1>2, <1>3, <2>1, <2>2 DEF SourceKept
  <1>5. Opens(pre, i) /\ SourceOf(pre, i) = s
    <2>1. pre # <<>> /\ pre[1].op = "create" /\ pre[1].arg.from = s
      BY DEF Write
    <2>2. Opens(pre, i)
      BY <1>2, <1>4 DEF Opens
    <2> QED
      BY <2>1, <2>2 DEF SourceOf
  <1>6. /\ ev \in Seq(Writes) /\ Fresh(ev)
        /\ \A n \in DOMAIN ev : ev[n].id \in {s, i}
    BY <1>1, <1>2, EnsureFresh
  <1>7. Recordable(ev, i, SourceOf(pre, i))
    BY <1>1, <1>2, <1>5, EnsureRecords
  <1>8. /\ a \in Seq(Writes) /\ b \in Seq(Writes)
        /\ Ends(a, i) /\ Ends(b, i)
        /\ \A n \in DOMAIN a : a[n].op # "answer"
    <2>1. a \in Seq(Writes) /\ b \in Seq(Writes)
      BY <1>1, <1>2, PlainWrites, ReceiptWrites, FitSeq
    <2>2. Ends(a, i) /\ Ends(b, i)
      BY <1>3, EndsOne
    <2>3. \A n \in DOMAIN a : a[n].op # "answer"
      BY DEF Write
    <2> QED
      BY <2>1, <2>2, <2>3
  <1>9. todo' = pre \o ev \o a \o b
    BY DEF RecreateProbed, Run
  <1>10. pre \in Seq(Writes)
    BY <1>2, <1>5, OpensElements
  <1> HIDE DEF pre, ev, a, b, i, s, k, f
  <1>11. Ends(a \o b, i) /\ a \o b \in Seq(Writes)
    BY <1>8, EndsJoin, Joined
  <1>12. TodoInv(pre \o ev \o (a \o b))
    BY <1>2, <1>3, <1>5, <1>6, <1>7, <1>11, OpeningCall
  <1>13. todo' = pre \o ev \o (a \o b)
    <2>1. pre \o ev \in Seq(Writes)
      BY <1>6, <1>10, Joined
    <2> DEFINE c == pre \o ev
    <2>2. a \in Seq(Writes) /\ b \in Seq(Writes) /\ c \in Seq(Writes)
      BY <1>8, <2>1
    <2>3. todo' = c \o a \o b
      BY <1>9
    <2> HIDE DEF c
    <2>4. c \o a \o b = c \o (a \o b)
      BY <2>2, Regrouped
    <2> QED
      BY <2>3, <2>4 DEF c
  <1>14. UNCHANGED <<disk, held, history>> /\ probing' \subseteq probing
    BY DEF RecreateProbed
  <1>15. Probes'
    BY <1>14 DEF LogInv, Probes, Alive, Exists, disk
  <1> QED
    BY <1>0, <1>12, <1>13, <1>14, <1>15, Begins

LEMMA RequestLog ==
    ASSUME LogInv, NEW r \in Requests, CreateForRequest(r)
    PROVE  LogInv'
  <1> DEFINE i == RequestId[r]
             f == [status |-> "created", from |-> NoId, carrier |-> TRUE]
             pre == IF Exists(i) THEN <<>> ELSE Write("create", i, f)
             ev == Missing(i, Created(NoId))
             post == Write("answer", i, NoId)
  <1>0. OpeningInv'
    BY RequestWrites DEF LogInv
  <1>1. f \in Files /\ f.from = NoId /\ i \in Ids /\ NoId \notin Ids
    BY OpeningAssumption DEF Files
  <1>2. Opens(pre, i) /\ SourceOf(pre, i) = NoId
    <2>1. CASE Exists(i)
      <3>1. file[i].from = NoId
        BY <2>1 DEF LogInv, Lives
      <3>2. pre = <<>>
        BY <2>1
      <3> HIDE DEF pre
      <3> QED
        BY <2>1, <3>1, <3>2 DEF Opens, SourceOf, Alive
    <2>2. CASE ~Exists(i)
      <3>1. SourceKept([op |-> "create", id |-> i, arg |-> f])
        BY <1>1, <2>2 DEF SourceKept
      <3>2. pre = Write("create", i, f)
        BY <2>2
      <3>3. pre # <<>> /\ pre[1].op = "create" /\ pre[1].arg.from = NoId
        BY <3>2 DEF Write
      <3> HIDE DEF pre
      <3>4. Opens(pre, i)
        BY <1>1, <3>1, <3>2 DEF Opens
      <3> QED
        BY <3>3, <3>4 DEF SourceOf
    <2> QED
      BY <2>1, <2>2
  <1>3. Created(NoId) \in Events
    BY EventTypes
  <1>4. /\ ev \in Seq(Writes) /\ Fresh(ev)
        /\ \A n \in DOMAIN ev : ev[n] = Event(i, Created(NoId))
        /\ Owed(ev, i, Created(NoId))
    BY <1>1, <1>3, MissingFresh
  <1>5. post \in Seq(Writes) /\ Ends(post, i)
    BY <1>1, PlainWrites, FitSeq, EndsOne
  <1>6. todo' = pre \o ev \o post
    BY DEF CreateForRequest, Run
  <1>7. UNCHANGED <<disk, probing, held, history>>
    BY DEF CreateForRequest
  <1> HIDE DEF pre, ev, post, f
  <1>8. \A n \in DOMAIN ev : ev[n].id = i
    BY <1>4 DEF Event
  <1>9. Recordable(ev, i, SourceOf(pre, i))
    BY <1>1, <1>2, <1>4 DEF Recordable
  <1> HIDE DEF i
  <1>10. TodoInv(todo')
    BY <1>1, <1>2, <1>4, <1>5, <1>6, <1>8, <1>9, OpeningCall
  <1>11. Probes'
    BY <1>7 DEF LogInv, Probes, Alive, Exists, disk
  <1> QED
    BY <1>0, <1>7, <1>10, <1>11, Begins

LEMMA AutomaticLog ==
    ASSUME LogInv, NEW i, NEW s \in Ids \union {NoId}, s # NoId => Exists(s), NEW linked,
           OpenAutomatically(i, s, linked)
    PROVE  LogInv'
  <1> DEFINE f == [status |-> "active", from |-> s, carrier |-> FALSE]
             pre == Write("create", i, f)
             ev == IF s = NoId
                   THEN Append1(i, Created(NoId)) \o Append1(i, Active)
                   ELSE EnsureRecreationEvents(s, i, "active")
             post == IF linked THEN Write("link", i, NoId) ELSE <<>>
  <1>0. OpeningInv'
    BY AutomaticWrites DEF LogInv
  <1>1. /\ f \in Files /\ f.from = s /\ i \in Ids /\ NoId \notin Ids
        /\ ~Exists(i) /\ i \notin retired /\ s # i
        /\ \A r \in Requests : i # RequestId[r]
    BY OpeningAssumption DEF Files, OpenAutomatically
  <1>2. Opens(pre, i)
    <2>1. SourceKept([op |-> "create", id |-> i, arg |-> f])
      BY <1>1 DEF SourceKept
    <2> HIDE DEF f
    <2> QED
      BY <1>1, <2>1 DEF Opens
  <1>3. /\ ev \in Seq(Writes) /\ Fresh(ev)
        /\ \A n \in DOMAIN ev : ev[n].id = i \/ Alive(ev[n].id)
    <2>1. CASE s = NoId
      <3> DEFINE a == Missing(i, Created(NoId))
                 b == Missing(i, Active)
      <3>1. ev = a \o b
        BY <1>1, <2>1, UnknownIsEmpty
      <3>2. Created(NoId) \in Events /\ Active \in Events
        BY EventTypes
      <3>3. /\ a \in Seq(Writes) /\ Fresh(a)
            /\ \A n \in DOMAIN a : a[n] = Event(i, Created(NoId))
        BY <1>1, <3>2, MissingFresh
      <3>4. /\ b \in Seq(Writes) /\ Fresh(b)
            /\ \A n \in DOMAIN b : b[n] = Event(i, Active)
        BY <1>1, <3>2, MissingFresh
      <3> HIDE DEF a, b, ev
      <3>5. a \o b \in Seq(Writes)
        BY <3>3, <3>4, Joined
      <3>6. Fresh(a \o b)
        BY <3>3, <3>4, EventsDiffer, FreshJoin
      <3>7. \A n \in DOMAIN (a \o b) :
               (a \o b)[n] = Event(i, Created(NoId)) \/ (a \o b)[n] = Event(i, Active)
        BY <3>3, <3>4, JoinElements
      <3>8. Event(i, Created(NoId)).id = i /\ Event(i, Active).id = i
        BY DEF Event
      <3>9. \A n \in DOMAIN (a \o b) : (a \o b)[n].id = i
        BY <3>7, <3>8
      <3> QED
        BY <3>1, <3>5, <3>6, <3>9
    <2>2. CASE s # NoId
      <3>1. s \in Ids /\ Alive(s)
        BY <2>2 DEF Alive
      <3>2. ev = EnsureRecreationEvents(s, i, "active")
        BY <2>2
      <3> HIDE DEF ev
      <3> QED
        BY <1>1, <3>1, <3>2, EnsureFresh
    <2> QED
      BY <2>1, <2>2
  <1>4. /\ post \in Seq(Writes) /\ Ends(post, i)
        /\ \A n \in DOMAIN post : post[n].op # "answer"
    <2>1. CASE linked
      <3>1. post = Write("link", i, NoId)
        BY <2>1
      <3>2. \A n \in DOMAIN Write("link", i, NoId) :
               Write("link", i, NoId)[n].op # "answer"
        BY DEF Write
      <3> HIDE DEF post
      <3> QED
        BY <1>1, <3>1, <3>2, PlainWrites, FitSeq, EndsOne
    <2>2. CASE ~linked
      <3>1. post = <<>>
        BY <2>2
      <3>2. <<>> \in Seq(Writes) /\ \A n \in DOMAIN <<>> : FALSE
        OBVIOUS
      <3>3. Ends(<<>>, i)
        BY NoWrites
      <3> HIDE DEF post
      <3> QED
        BY <3>1, <3>2, <3>3
    <2> QED
      BY <2>1, <2>2
  <1>5. todo' = pre \o ev \o post
    BY DEF OpenAutomatically, Run
  <1>6. UNCHANGED <<disk, probing, held, history>>
    BY DEF OpenAutomatically
  <1> HIDE DEF pre, ev, post, f
  <1>7. TodoInv(todo')
    BY <1>1, <1>2, <1>3, <1>4, <1>5, OpeningCall
  <1>8. Probes'
    BY <1>6 DEF LogInv, Probes, Alive, Exists, disk
  <1> QED
    BY <1>0, <1>6, <1>7, <1>8, Begins

LEMMA ActivateLog ==
    ASSUME LogInv, NEW i \in Ids, Activate(i)
    PROVE  LogInv'
  <1> DEFINE pre == Write("status", i, "active")
             ev == Missing(i, Active)
  <1>0. OpeningInv'
    BY OtherWrites DEF LogInv
  <1>1. Alive(i)
    BY DEF Activate, Alive
  <1>2. Opens(pre, i)
    BY <1>1 DEF Opens
  <1>3. Active \in Events
    BY EventTypes
  <1>4. /\ ev \in Seq(Writes) /\ Fresh(ev)
        /\ \A n \in DOMAIN ev : ev[n] = Event(i, Active)
    BY <1>3, MissingFresh
  <1>5. todo' = pre \o ev
    BY DEF Activate, Run
  <1>6. UNCHANGED <<disk, probing, held, history>>
    BY DEF Activate
  <1> HIDE DEF pre, ev
  <1>7. \A n \in DOMAIN ev : ev[n].id = i
    BY <1>4 DEF Event
  <1>8. /\ <<>> \in Seq(Writes) /\ Ends(<<>>, i)
        /\ \A n \in DOMAIN <<>> : <<>>[n].op # "answer"
    BY NoWrites
  <1>9. TodoInv(pre \o ev \o <<>>)
    BY <1>2, <1>4, <1>7, <1>8, OpeningCall
  <1>10. pre \o ev \o <<>> = pre \o ev
    <2>1. pre \in Seq(Writes)
      BY <1>2, OpensElements
    <2>2. pre \o ev \in Seq(Writes)
      BY <1>4, <2>1, Joined
    <2> QED
      BY <2>2, ConcatEmptySeq
  <1>11. Probes'
    BY <1>6 DEF LogInv, Probes, Alive, Exists, disk
  <1> QED
    BY <1>0, <1>5, <1>6, <1>9, <1>10, <1>11, Begins

LEMMA CloseLog ==
    ASSUME LogInv, NEW i \in Ids, Close(i)
    PROVE  LogInv'
  <1> DEFINE a == Write("status", i, "closing")
             b == Write("status", i, "closed")
             u == a \o b
  <1>0. OpeningInv'
    BY OtherWrites DEF LogInv
  <1>1. a \in Seq(Writes) /\ b \in Seq(Writes)
    BY StatusWrites, FitSeq
  <1>2. /\ \A n \in DOMAIN a : a[n].op = "status" /\ a[n].id = i
        /\ \A n \in DOMAIN b : b[n].op = "status" /\ b[n].id = i
    BY DEF Write
  <1>3. todo' = u
    BY DEF Close, Run
  <1>4. UNCHANGED <<disk, probing, held, history>> /\ Alive(i)
    BY DEF Close, Alive
  <1> HIDE DEF a, b
  <1>5. \A n \in DOMAIN u : u[n].op = "status" /\ u[n].id = i
    BY <1>1, <1>2, JoinElements
  <1> HIDE DEF u
  <1>6. TodoInv(u)
    BY <1>4, <1>5 DEF TodoInv, TodoShape, Ready, Sources, Purges, Answers
  <1>7. Probes'
    BY <1>4 DEF LogInv, Probes, Alive, Exists, disk
  <1> QED
    BY <1>0, <1>3, <1>4, <1>6, <1>7, Begins

(* A session without descendants has no session recreated from it.         *)
LEMMA NoChildren ==
    ASSUME NEW i \in Ids, Descendants(i) = {}, Lives
    PROVE  \A j \in Ids : Exists(j) => file[j].from # i
  <1> SUFFICES ASSUME NEW j \in Ids, Exists(j), file[j].from = i
               PROVE  FALSE
    OBVIOUS
  <1>1. j # i
    BY DEF Lives
  <1>2. ASSUME NEW D \in SUBSET Ids, i \in D,
               \A d \in Ids : Exists(d) /\ file[d].from \in D => d \in D
        PROVE  j \in D
    BY <1>2
  <1>3. j \in Descendants(i)
    BY <1>1, <1>2 DEF Descendants
  <1> QED
    BY <1>3

LEMMA PurgeLog ==
    ASSUME LogInv, NEW i \in Ids, Purge(i)
    PROVE  LogInv'
  <1> DEFINE a == Write("retire", i, NoId)
             b == Write("dropEvents", i, NoId)
             c == Write("dropFile", i, NoId)
             u == a \o b \o c
  <1>0. OpeningInv'
    BY OtherWrites DEF LogInv
  <1>1. a \in Seq(Writes) /\ b \in Seq(Writes) /\ c \in Seq(Writes)
    BY PlainWrites, FitSeq
  <1>2. /\ \A n \in DOMAIN a : n = 1 /\ a[n].op = "retire" /\ a[n].id = i
        /\ \A n \in DOMAIN b : b[n].op = "dropEvents" /\ b[n].id = i
        /\ \A n \in DOMAIN c : c[n].op = "dropFile" /\ c[n].id = i
        /\ a # <<>>
    BY DEF Write
  <1>3. todo' = u
    BY DEF Purge, Run
  <1>4. UNCHANGED <<disk, probing, held, history>> /\ Alive(i) /\ Descendants(i) = {}
    BY DEF Purge, Closed, Alive
  <1>5. \A j \in Ids : Exists(j) => file[j].from # i
    BY <1>4, NoChildren DEF LogInv
  <1>6. u = a \o b \o c
    OBVIOUS
  <1> HIDE DEF a, b, c, u
  <1>7. /\ \A n \in DOMAIN a : n \in DOMAIN u /\ u[n] = a[n]
        /\ a # <<>> => 1 \in DOMAIN a
    BY <1>1, <1>6, ThreeJoined
  <1>8. \A n \in DOMAIN u :
           \/ n \in DOMAIN a
           \/ n - Len(a) \in DOMAIN b /\ u[n] = b[n - Len(a)]
           \/ /\ n - Len(a) - Len(b) \in DOMAIN c
              /\ u[n] = c[n - Len(a) - Len(b)]
    BY <1>1, <1>6, ThreeJoined
  <1>9. u[1].op = "retire" /\ u[1].id = i
    BY <1>2, <1>7
  <1>10. \A n \in DOMAIN u :
            u[n].op \in {"retire", "dropEvents", "dropFile"} /\ u[n].id = i
    BY <1>2, <1>7, <1>8
  <1>11. TodoShape(u) /\ Ready(u) /\ Sources(u) /\ Answers(u)
    BY <1>4, <1>10 DEF TodoShape, Ready, Sources, Answers
  <1>12. Purges(u)
    BY <1>5, <1>9, <1>10 DEF Purges
  <1>13. Probes'
    BY <1>4 DEF LogInv, Probes, Alive, Exists, disk
  <1> QED
    BY <1>0, <1>3, <1>4, <1>11, <1>12, <1>13, Begins DEF TodoInv

LEMMA HealthLog ==
    ASSUME LogInv, NEW i \in Ids, ReadForHealth(i) \/ SaveHealth(i) \/ HealthUnknown(i)
    PROVE  LogInv'
  <1>0. OpeningInv'
    BY OtherWrites DEF LogInv
  <1>1. UNCHANGED <<disk, probing, history>>
    BY DEF ReadForHealth, SaveHealth, HealthUnknown
  <1>2. \A x \in Ids : held'[x] # NoFile => held'[x] = held[x] \/ held'[x] = file[x]
    BY DEF ReadForHealth, SaveHealth, HealthUnknown, LogInv, OpeningInv, OpeningTypeOK
  <1>3. Probes'
    BY <1>1 DEF LogInv, Probes, Alive, Exists, disk
  <1>4. CASE todo' = <<>>
    BY <1>0, <1>1, <1>2, <1>3, <1>4, NoWrites, Begins
  <1>5. CASE SaveHealth(i)
    <2> DEFINE w == [op |-> "save", id |-> i, arg |-> held[i]]
    <2>1. todo' = <<w>>
      BY <1>5 DEF SaveHealth, Run, Write
    <2>2. w.op = "save" /\ w.id = i /\ w.arg = held[i]
      OBVIOUS
    <2>3. Alive(i) /\ (Exists(i) => held[i].from = file[i].from)
      BY <1>5 DEF SaveHealth, LogInv, Lives
    <2>4. \A n \in DOMAIN <<w>> : n = 1 /\ <<w>>[n] = w /\ Len(<<w>>) = 1
      OBVIOUS
    <2> HIDE DEF w
    <2>5. SourceKept(w)
      BY <2>2, <2>3 DEF SourceKept
    <2> DEFINE u == <<w>>
    <2> HIDE DEF u
    <2>6. \A n \in DOMAIN u : n = 1 /\ u[n] = w
      BY <2>4 DEF u
    <2>7. TodoShape(u) /\ Ready(u) /\ Sources(u) /\ Purges(u) /\ Answers(u)
      BY <2>2, <2>3, <2>5, <2>6 DEF TodoShape, Ready, Sources, Purges, Answers
    <2>8. todo' = u /\ TodoInv(u)
      BY <2>1, <2>7 DEF TodoInv, u
    <2> QED
      BY <1>0, <1>1, <1>2, <1>3, <2>8, Begins
  <1> QED
    BY <1>4, <1>5 DEF ReadForHealth, HealthUnknown, Run

-----------------------------------------------------------------------------
(* What a write w changes, as far as the invariant is concerned.           *)
FilesWrote(w) ==
    /\ \A i \in Ids : Alive(i) => Alive(i)'
    /\ \A i \in Ids : Exists(i)' =>
          \/ Exists(i) /\ file'[i].from = file[i].from
          \/ ~Alive(i) /\ w.op = "create" /\ w.id = i /\ file'[i] = w.arg
    /\ w.op = "create" => file'[w.id] # NoFile /\ file'[w.id].from = w.arg.from

LogWrote(w) ==
    /\ \A i \in Ids : \A e :
          i \notin retired' \union glued' /\ (Has(i, e) \/ w = Event(i, e)) => Has(i, e)'
    /\ \A i \in Ids : \A e : Has(i, e)' => Has(i, e) \/ w = Event(i, e)
    /\ \A i \in Ids : log'[i] # <<>> => log[i] # <<>> \/ Alive(i)
    /\ EventsOnce'

MarksWrote(w) ==
    /\ retired \subseteq retired' /\ glued \subseteq glued'
    /\ w.op = "retire" => w.id \in retired'
    /\ \A i \in answered' : i \in answered \/ (w.op = "answer" /\ w.id = i)

(* The first of the writes a call has left.                                *)
LEMMA FirstWrite ==
    ASSUME LogInv, todo # <<>>, NEW w, w = Head(todo)
    PROVE  /\ w = todo[1] /\ 1 \in DOMAIN todo /\ w \in Writes /\ w.id \in Ids
           /\ w.op \in {"create", "save"} => w.arg \in Files /\ SourceKept(w)
           /\ w.op \in {"dropEvents", "dropFile"} => w.id \in retired
           /\ w.op = "event" => ~Has(w.id, w.arg)
           /\ w.op # "create" => Alive(w.id)
  <1>1. todo \in Seq(Writes) /\ TodoInv(todo)
    BY DEF LogInv, OpeningInv, OpeningTypeOK
  <1>2. w = todo[1] /\ 1 \in DOMAIN todo /\ w \in Writes
    BY <1>1, TailAt
  <1>3. w.id \in Ids /\ (w.op \in {"create", "save"} => w.arg \in Files)
    BY <1>2 DEF Writes
  <1>4. w.op \in {"create", "save"} => SourceKept(w)
    BY <1>1, <1>2 DEF TodoInv, Sources
  <1>5. w.op \in {"dropEvents", "dropFile"} => w.id \in retired
    BY <1>1, <1>2 DEF TodoInv, Purges
  <1>6. w.op = "event" => ~Has(w.id, w.arg)
    BY <1>1, <1>2 DEF TodoInv, TodoShape
  <1>7. w.op # "create" => Alive(w.id)
    BY <1>1, <1>2 DEF TodoInv, Ready, Makes
  <1> QED
    BY <1>2, <1>3, <1>4, <1>5, <1>6, <1>7

LEMMA MarksOfStep ==
    ASSUME Step, NEW w, w = Head(todo)
    PROVE  MarksWrote(w)
  <1>1. retired' \in {retired, retired \union {w.id}} /\ glued \subseteq glued'
    BY DEF Step, AppendEvent, disk
  <1>2. w.op = "retire" => retired' = retired \union {w.id}
    BY DEF Step
  <1>3. answered' = answered \/ (w.op = "answer" /\ answered' = answered \union {w.id})
    BY DEF Step, disk
  <1> QED
    BY <1>1, <1>2, <1>3 DEF MarksWrote

LEMMA LogOfStep ==
    ASSUME LogInv, Step, NEW w, w = Head(todo)
    PROVE  LogWrote(w)
  <1>1. /\ w \in Writes /\ w.id \in Ids
        /\ Alive(w.id) \/ w.op = "create"
        /\ w.op = "dropEvents" => w.id \in retired
        /\ w.op = "event" => ~Has(w.id, w.arg) /\ w.op # "create"
    BY FirstWrite DEF Step
  <1>2. log \in [Ids -> Seq(Events)] /\ EventsOnce
    BY DEF LogInv, OpeningInv, OpeningTypeOK
  <1>3. retired \subseteq retired' /\ glued \subseteq glued'
    BY MarksOfStep DEF MarksWrote
  <1>4. CASE w.op = "event"
    <2>1. w = Event(w.id, w.arg) /\ w.arg \in Events
      BY <1>1, <1>4 DEF Writes, Event
    <2>2. AppendEvent(w.id, w.arg)
      BY <1>4 DEF Step
    <2>3. PICK x \in Ids, y \in Events :
                w = Event(x, y) /\ AppendEvent(x, y) /\ ~Has(x, y) /\ Alive(x)
      BY <1>1, <1>4, <2>1, <2>2
    <2>4. \A i, e : w = Event(i, e) => i = x /\ e = y
      BY <2>3 DEF Event
    <2>5. CASE x \in torn
      <3>1. log' = log /\ x \in glued'
        BY <2>3, <2>5 DEF AppendEvent
      <3> QED
        BY <1>2, <2>4, <3>1 DEF LogWrote, Has, EventsOnce
    <2>6. CASE x \notin torn
      <3>1. log' = [log EXCEPT ![x] = Append(@, y)]
        BY <2>3, <2>6 DEF AppendEvent
      <3> DEFINE a == log[x]
                 b == Append(a, y)
      <3>2. a \in Seq(Events) /\ log'[x] = b /\ \A i \in Ids \ {x} : log'[i] = log[i]
        BY <1>2, <2>3, <3>1
      <3>3. /\ Len(a) \in Nat /\ DOMAIN a = 1 .. Len(a)
            /\ DOMAIN b = 1 .. (Len(a) + 1) /\ b[Len(a) + 1] = y
            /\ \A n \in DOMAIN a : b[n] = a[n]
        <4>1. /\ b \in Seq(Events) /\ Len(b) = Len(a) + 1
              /\ \A n \in 1 .. Len(a) : b[n] = a[n]
              /\ b[Len(b)] = y
          BY <2>3, <3>2, AppendProperties
        <4>2. Len(a) \in Nat /\ DOMAIN a = 1 .. Len(a) /\ DOMAIN b = 1 .. Len(b)
          BY <3>2, <4>1, LenProperties
        <4> QED
          BY <4>1, <4>2
      <3>4. \A n \in DOMAIN a : a[n] # y
        BY <2>3 DEF Has
      <3>5. \A m, n \in DOMAIN a : a[m] = a[n] => m = n
        BY <1>2, <2>3 DEF EventsOnce
      <3> HIDE DEF a, b
      <3>6. \A m, n \in DOMAIN b : b[m] = b[n] => m = n
        BY <3>3, <3>4, <3>5
      <3>7. EventsOnce'
        BY <1>2, <3>2, <3>6 DEF EventsOnce
      <3>8. ASSUME NEW e
            PROVE  Has(x, e)' <=> Has(x, e) \/ e = y
        <4>1. Has(x, e)' <=> \E n \in DOMAIN b : b[n] = e
          BY <3>2 DEF Has
        <4>2. Has(x, e) <=> \E n \in DOMAIN a : a[n] = e
          BY DEF Has, a
        <4>3. Has(x, e) => Has(x, e)'
          BY <3>3, <4>1, <4>2
        <4>4. e = y => Has(x, e)'
          BY <3>3, <4>1
        <4>5. Has(x, e)' => Has(x, e) \/ e = y
          BY <3>3, <4>1, <4>2
        <4> QED
          BY <4>3, <4>4, <4>5
      <3>9. \A i \in Ids \ {x} : \A e : Has(i, e)' <=> Has(i, e)
        BY <3>2 DEF Has
      <3>10. \A i \in Ids : log'[i] # <<>> => log[i] # <<>> \/ Alive(i)
        BY <2>3, <3>2
      <3> QED
        BY <2>3, <2>4, <3>7, <3>8, <3>9, <3>10 DEF LogWrote
    <2> QED
      BY <2>5, <2>6
  <1>5. CASE w.op # "event"
    <2>1. \A i, e : w # Event(i, e)
      BY <1>5 DEF Event
    <2>2. CASE log' = log
      BY <1>2, <2>1, <2>2 DEF LogWrote, Has, EventsOnce
    <2>3. CASE w.op = "dropEvents"
      <3>1. PICK x \in Ids : x \in retired' /\ log' = [log EXCEPT ![x] = <<>>]
        BY <1>1, <1>3, <2>3 DEF Step
      <3>2. log'[x] = <<>> /\ \A i \in Ids \ {x} : log'[i] = log[i]
        BY <1>2, <3>1
      <3>3. \A i \in Ids \ {x} : \A e : Has(i, e)' <=> Has(i, e)
        BY <3>2 DEF Has
      <3>4. \A e : ~Has(x, e)'
        BY <3>2 DEF Has
      <3>5. EventsOnce'
        BY <1>2, <3>2 DEF EventsOnce
      <3>6. \A i \in Ids : log'[i] # <<>> => log[i] # <<>> \/ Alive(i)
        BY <3>2
      <3> QED
        BY <2>1, <3>1, <3>3, <3>4, <3>5, <3>6 DEF LogWrote
    <2> QED
      BY <1>5, <2>2, <2>3 DEF Step, disk
  <1> QED
    BY <1>4, <1>5

LEMMA FilesOfStep ==
    ASSUME LogInv, Step, NEW w, w = Head(todo)
    PROVE  \/ FilesWrote(w)
           \/ todo' = <<>> /\ UNCHANGED <<disk, history>>
  <1>1. /\ w \in Writes /\ w.id \in Ids
        /\ w.op \in {"create", "save"} => w.arg \in Files /\ SourceKept(w)
        /\ w.op = "dropFile" => w.id \in retired
    BY FirstWrite DEF Step
  <1>2. file \in [Ids -> Files \union {NoFile}] /\ NoFile \notin Files
    BY OpeningAssumption DEF LogInv, OpeningInv, OpeningTypeOK
  <1>3. retired \subseteq retired'
    BY MarksOfStep DEF MarksWrote
  <1>4. CASE w.op \in {"create", "save"}
    <2>1. CASE MayPersist(w.id)
      <3>0. PICK x \in Ids, f \in Files : x = w.id /\ f = w.arg
        BY <1>1, <1>4
      <3>1. file' = [file EXCEPT ![x] = f] /\ retired' = retired
        BY <1>4, <2>1, <3>0 DEF Step
      <3>2. /\ x \in Ids /\ f \in Files /\ f # NoFile
            /\ Exists(x) => f.from = file[x].from
            /\ w.op = "save" => Alive(x)
            /\ Exists(x) \/ x \notin retired
        BY <1>1, <1>2, <1>4, <2>1, <3>0 DEF SourceKept, MayPersist
      <3>3. file'[x] = f /\ \A i \in Ids \ {x} : file'[i] = file[i]
        BY <1>2, <3>1, <3>2
      <3>4. \A i \in Ids : Alive(i) => Alive(i)'
        BY <3>1, <3>2, <3>3 DEF Alive, Exists
      <3>5. \A i \in Ids : Exists(i)' =>
               \/ Exists(i) /\ file'[i].from = file[i].from
               \/ ~Alive(i) /\ w.op = "create" /\ x = i /\ file'[i] = f
        BY <1>4, <3>2, <3>3 DEF Alive, Exists
      <3>6. file'[x] # NoFile /\ file'[x].from = f.from
        BY <3>2, <3>3 DEF Exists
      <3> QED
        BY <3>0, <3>4, <3>5, <3>6 DEF FilesWrote
    <2>2. CASE ~MayPersist(w.id)
      BY <1>4, <2>2 DEF Step, disk, history
    <2> QED
      BY <2>1, <2>2
  <1>5. CASE w.op = "status"
    <2>1. retired' = retired
      BY <1>5 DEF Step
    <2>2. CASE Exists(w.id)
      <3>0. PICK x, f : x = w.id /\ f = [file[x] EXCEPT !.status = w.arg]
        OBVIOUS
      <3>1. file' = [file EXCEPT ![x] = f]
        BY <1>5, <2>2, <3>0 DEF Step
      <3>2. f \in Files /\ f.from = file[x].from /\ f # NoFile /\ x \in Ids /\ Exists(x)
        <4>1. w.arg \in {"active", "closing", "closed"}
          BY <1>1, <1>5 DEF Writes
        <4>2. file[x] \in Files
          BY <1>1, <1>2, <2>2, <3>0 DEF Exists
        <4>3. f \in Files /\ f.from = file[x].from
          BY <3>0, <4>1, <4>2 DEF Files
        <4> QED
          BY <1>1, <1>2, <2>2, <3>0, <4>3
      <3>3. file'[x] = f /\ \A i \in Ids \ {x} : file'[i] = file[i]
        BY <1>2, <3>1, <3>2
      <3>4. \A i \in Ids : Alive(i) => Alive(i)'
        BY <2>1, <3>2, <3>3 DEF Alive, Exists
      <3>5. \A i \in Ids : Exists(i)' => Exists(i) /\ file'[i].from = file[i].from
        BY <3>2, <3>3 DEF Exists
      <3> QED
        BY <1>5, <3>4, <3>5 DEF FilesWrote
    <2>3. CASE ~Exists(w.id)
      <3>1. file' = file
        BY <1>5, <2>3 DEF Step
      <3> QED
        BY <1>5, <2>1, <3>1 DEF FilesWrote, Alive, Exists
    <2> QED
      BY <2>2, <2>3
  <1>6. CASE w.op = "dropFile"
    <2>1. PICK x \in Ids : file' = [file EXCEPT ![x] = NoFile] /\ x \in retired'
      BY <1>1, <1>3, <1>6 DEF Step
    <2>2. file'[x] = NoFile /\ \A i \in Ids \ {x} : file'[i] = file[i]
      BY <1>2, <2>1
    <2>3. \A i \in Ids : Alive(i) => Alive(i)'
      BY <1>3, <2>1, <2>2 DEF Alive, Exists
    <2>4. \A i \in Ids : Exists(i)' => Exists(i) /\ file'[i].from = file[i].from
      BY <2>2 DEF Exists
    <2> QED
      BY <1>6, <2>3, <2>4 DEF FilesWrote
  <1>7. CASE w.op \notin {"create", "save", "status", "dropFile"}
    <2>1. file' = file
      BY <1>7 DEF Step, disk
    <2> QED
      BY <1>3, <1>7, <2>1 DEF FilesWrote, Alive, Exists
  <1> QED
    BY <1>4, <1>5, <1>6, <1>7

(* What the call still owes after the first of its writes.                 *)
LEMMA Paid ==
    ASSUME LogInv, todo # <<>>, NEW w, w = Head(todo), LogWrote(w),
           todo' = Tail(todo),
           NEW i \in Ids, i \notin retired' \union glued', NEW e,
           Owed(todo, i, e)
    PROVE  Owed(todo, i, e)'
  <1>1. todo \in Seq(Writes)
    BY DEF LogInv, OpeningInv, OpeningTypeOK
  <1>2. CASE Has(i, e) \/ w = Event(i, e)
    BY <1>2 DEF LogWrote, Owed
  <1>3. ASSUME NEW n \in DOMAIN todo, todo[n] = Event(i, e), w # Event(i, e)
        PROVE  Owed(todo, i, e)'
    <2>1. w = todo[1]
      BY <1>1, TailAt
    <2>2. n - 1 \in DOMAIN Tail(todo) /\ Tail(todo)[n - 1] = todo[n]
      BY <1>1, <1>3, <2>1, TailAt
    <2>3. Pays(Tail(todo), i, e)
      BY <1>3, <2>2 DEF Pays
    <2> QED
      BY <2>3 DEF Owed, Pays, Event
  <1> QED
    BY <1>2, <1>3 DEF Owed, Pays

LEMMA WrittenLog ==
    ASSUME LogInv, OpeningInv', todo # <<>>, todo' = Tail(todo), NEW w, w = Head(todo),
           FilesWrote(w), LogWrote(w), MarksWrote(w), UNCHANGED <<probing, held>>
    PROVE  LogInv'
  <1>1. todo \in Seq(Writes) /\ TodoInv(todo)
    BY DEF LogInv, OpeningInv, OpeningTypeOK
  <1>2. /\ w = todo[1] /\ 1 \in DOMAIN todo /\ w \in Writes /\ w.id \in Ids
        /\ w.op \in {"create", "save"} => w.arg \in Files /\ SourceKept(w)
        /\ w.op # "create" => Alive(w.id)
    BY FirstWrite
  <1>3. PICK t : t = Tail(todo)
    OBVIOUS
  <1>4. /\ Len(todo) \in Nat /\ Len(t) = Len(todo) - 1
        /\ \A n \in DOMAIN t :
              n \in Nat /\ n + 1 \in DOMAIN todo /\ n + 1 # 1 /\ t[n] = todo[n + 1]
    BY <1>1, <1>3, TailAt
  <1>5. \A n \in DOMAIN t : t[n] \in Writes /\ t[n].id \in Ids
    <2>1. \A n \in DOMAIN todo : todo[n] \in Writes
      BY <1>1, ElementOfSeq
    <2> QED
      BY <1>4, <2>1 DEF Writes
  <1>6. \A n \in DOMAIN t : t[n].op \notin {"create", "save"}
    BY <1>1, <1>4 DEF TodoInv, TodoShape
  <1>7. \A i \in Ids : Alive(i) => Alive(i)'
    BY DEF FilesWrote
  <1>8. \A n \in DOMAIN t : Alive(t[n].id)'
    <2> SUFFICES ASSUME NEW n \in DOMAIN t
                 PROVE  Alive(t[n].id)'
      OBVIOUS
    <2>1. Alive(t[n].id) \/ (w.op = "create" /\ w.id = t[n].id)
      BY <1>1, <1>2, <1>4 DEF TodoInv, Ready, Makes
    <2>2. CASE Alive(t[n].id)
      BY <1>5, <1>7, <2>2
    <2>3. CASE w.op = "create" /\ w.id = t[n].id
      BY <2>3 DEF FilesWrote, Alive, Exists
    <2> QED
      BY <2>1, <2>2, <2>3
  <1>9. TodoShape(t)'
    <2>1. ASSUME NEW n \in DOMAIN t
          PROVE  /\ t[n].op = "answer" => n = Len(t)
                 /\ t[n].op = "event" => ~Has(t[n].id, t[n].arg)'
      <3>1. t[n].op = "answer" => n = Len(t)
        <4>1. t[n].op = "answer" => n + 1 = Len(todo)
          BY <1>1, <1>4 DEF TodoInv, TodoShape
        <4> QED
          BY <1>4, <4>1
      <3>2. ASSUME t[n].op = "event", Has(t[n].id, t[n].arg)'
            PROVE  FALSE
        <4>1. ~Has(t[n].id, t[n].arg)
          BY <1>1, <1>4, <3>2 DEF TodoInv, TodoShape
        <4>2. w = Event(t[n].id, t[n].arg)
          BY <1>5, <3>2, <4>1 DEF LogWrote
        <4>3. t[n] = Event(t[n].id, t[n].arg)
          BY <1>5, <3>2 DEF Writes, Event
        <4>4. w.op = "event" /\ w = todo[n + 1]
          BY <1>4, <3>2, <4>2, <4>3
        <4> QED
          BY <1>1, <1>2, <1>4, <4>4 DEF TodoInv, TodoShape
      <3> QED
        BY <3>1, <3>2
    <2>2. ASSUME NEW m \in DOMAIN t, NEW n \in DOMAIN t, t[m].op = "event", t[m] = t[n]
          PROVE  m = n
      <3>1. m + 1 = n + 1
        BY <1>1, <1>4, <2>2 DEF TodoInv, TodoShape
      <3> QED
        BY <1>4, <3>1
    <2> QED
      BY <1>6, <2>1, <2>2 DEF TodoShape
  <1>10. Ready(t)'
    BY <1>8 DEF Ready
  <1>11. Sources(t)'
    BY <1>6 DEF Sources
  <1>12. Purges(t)'
    <2> SUFFICES ASSUME NEW n \in DOMAIN t
                 PROVE  /\ t[n].op \in {"dropEvents", "dropFile"} => t[n].id \in retired'
                        /\ t[n].op = "dropFile" =>
                              \A j \in Ids : Exists(j)' => file'[j].from # t[n].id
      BY <1>6 DEF Purges
    <2>1. t[n].op \in {"dropEvents", "dropFile"} =>
             t[n].id \in retired \/ (w.op = "retire" /\ w.id = t[n].id)
      BY <1>1, <1>2, <1>4 DEF TodoInv, Purges
    <2>2. t[n].op \in {"dropEvents", "dropFile"} => t[n].id \in retired'
      BY <2>1 DEF MarksWrote
    <2>3. ASSUME t[n].op = "dropFile", NEW j \in Ids, Exists(j)'
          PROVE  file'[j].from # t[n].id
      <3>1. w.op # "create" /\ \A x \in Ids : Exists(x) => file[x].from # t[n].id
        BY <1>1, <1>2, <1>4, <2>3 DEF TodoInv, Purges
      <3> QED
        BY <2>3, <3>1 DEF FilesWrote
    <2> QED
      BY <2>2, <2>3
  <1>13. Answers(t)'
    <2> SUFFICES ASSUME NEW n \in DOMAIN t, t[n].op = "answer",
                        t[n].id \notin retired' \union glued'
                 PROVE  Recordable(t, t[n].id, SourceIn(t, t[n].id))'
      BY DEF Answers
    <2>1. PICK i \in Ids : i = t[n].id
      BY <1>5
    <2>2. i \notin retired \union glued /\ i \notin retired' \union glued'
      BY <2>1 DEF MarksWrote
    <2>3. Recordable(todo, i, SourceIn(todo, i))
      BY <1>1, <1>4, <2>1, <2>2 DEF TodoInv, Answers
    <2>4. SourceIn(todo, i) = file'[i].from
      <3>1. CASE w.op = "create" /\ w.id = i
        BY <1>2, <3>1 DEF FilesWrote, SourceIn, Makes
      <3>2. CASE ~(w.op = "create" /\ w.id = i)
        <4>1. SourceIn(todo, i) = file[i].from
          BY <1>2, <3>2 DEF SourceIn, Makes
        <4>2. Exists(i)'
          BY <1>8, <2>1, <2>2 DEF Alive
        <4> QED
          BY <3>2, <4>1, <4>2 DEF FilesWrote
      <3> QED
        BY <3>1, <3>2
    <2>5. \A e : Owed(todo, i, e) => Owed(t, i, e)'
      BY <1>3, <2>2, Paid DEF Owed, Pays
    <2>6. ASSUME NEW s \in Ids, s \notin retired' \union glued', NEW e, Owed(todo, s, e)
          PROVE  Owed(t, s, e)'
      BY <1>3, <2>6, Paid DEF Owed, Pays
    <2>7. retired \subseteq retired' /\ glued \subseteq glued'
      BY DEF MarksWrote
    <2>8. PICK s : s = file'[i].from
      OBVIOUS
    <2>9. Owed(t, i, Created(s))' /\ (s \in Ids \ (retired' \union glued') => Owed(t, s, Recreated(i))')
      BY <2>3, <2>4, <2>5, <2>6, <2>7, <2>8 DEF Recordable
    <2>10. ~Makes(t, i)
      <3>1. 1 \in DOMAIN t
        <4>1. t \in Seq(Writes)
          BY <1>1, <1>3, Rest
        <4>2. DOMAIN t = 1 .. Len(t) /\ Len(t) \in Nat
          BY <4>1, LenProperties
        <4> QED
          BY <4>2
      <3> QED
        BY <1>6, <3>1 DEF Makes
    <2>11. SourceIn(t, i)' = s
      BY <2>8, <2>10 DEF SourceIn, Makes
    <2> QED
      BY <2>1, <2>9, <2>11 DEF Recordable
  <1>14. TodoInv(todo)'
    BY <1>3, <1>9, <1>10, <1>11, <1>12, <1>13
       DEF TodoInv, TodoShape, Ready, Sources, Purges, Answers, SourceKept, Makes,
           Recordable, SourceIn, Owed, Pays
  <1>15. Lives'
    <2>1. \A i \in answered' : i \in answered \/ Alive(i)
      BY <1>2 DEF MarksWrote
    <2>2. \A i \in Ids : log'[i] # <<>> \/ held'[i] # NoFile \/ i \in answered' => Alive(i)
      BY <2>1 DEF LogInv, Lives, LogWrote
    <2>3. \A i \in Ids : log'[i] # <<>> \/ held'[i] # NoFile \/ i \in answered' => Alive(i)'
      BY <1>7, <2>2
    <2>4. ASSUME NEW i \in Ids, Exists(i)'
          PROVE  /\ held'[i] # NoFile => held'[i].from = file'[i].from
                 /\ file'[i].from # i
                 /\ \A r \in Requests : i = RequestId[r] => file'[i].from = NoId
      <3>1. CASE Exists(i) /\ file'[i].from = file[i].from
        BY <3>1 DEF LogInv, Lives
      <3>2. CASE ~Alive(i) /\ w.op = "create" /\ w.id = i /\ file'[i] = w.arg
        <4>1. held'[i] = NoFile
          BY <3>2 DEF LogInv, Lives
        <4>2. SourceKept(w)
          BY <1>2, <3>2
        <4> QED
          BY <3>2, <4>1, <4>2 DEF SourceKept
      <3> QED
        BY <2>4, <3>1, <3>2 DEF FilesWrote
    <2>5. \A r \in Requests : RequestId[r] \in Ids
      BY OpeningAssumption
    <2> QED
      BY <2>3, <2>4, <2>5 DEF Lives
  <1>16. Probes'
    <2>1. \A p \in probing : p[1] \in Ids
      BY DEF LogInv, OpeningInv, OpeningTypeOK
    <2> QED
      BY <1>7, <2>1 DEF LogInv, Probes
  <1>17. AnsweredIsRecorded'
    <2> SUFFICES ASSUME NEW i \in answered', i \notin retired' \union glued', NEW s, s = file'[i].from
                 PROVE  /\ Has(i, Created(s))'
                        /\ s \in Ids \ (retired' \union glued') => Has(s, Recreated(i))'
      BY DEF AnsweredIsRecorded
    <2>1. /\ i \notin retired \union glued
          /\ s \in Ids \ (retired' \union glued') => s \in Ids \ (retired \union glued)
      BY DEF MarksWrote
    <2>2. i \in Ids /\ Exists(i)
      <3>1. answered \subseteq Ids
        BY DEF LogInv, OpeningInv, OpeningTypeOK
      <3>2. i \in Ids /\ Alive(i)
        BY <1>2, <3>1 DEF MarksWrote, LogInv, Lives
      <3> QED
        BY <2>1, <3>2 DEF Alive
    <2>3. s = file[i].from
      <3>1. Exists(i)'
        BY <1>7, <2>2 DEF Alive
      <3> QED
        BY <2>2, <3>1 DEF FilesWrote, Alive
    <2>4. Has(i, Created(s)) /\ (s \in Ids \ (retired \union glued) => Has(s, Recreated(i)))
      <3>1. CASE i \in answered
        BY <2>1, <2>3, <3>1 DEF LogInv, AnsweredIsRecorded
      <3>2. CASE w.op = "answer" /\ w.id = i
        <4>1. 1 = Len(todo) /\ DOMAIN todo = {1}
          <5>1. 1 = Len(todo)
            <6>1. \A n \in DOMAIN todo : todo[n].op = "answer" => n = Len(todo)
              BY <1>1 DEF TodoInv, TodoShape
            <6>2. todo[1].op = "answer" /\ 1 \in DOMAIN todo
              BY <1>2, <3>2
            <6> QED
              BY <6>1, <6>2
          <5>2. DOMAIN todo = 1 .. Len(todo)
            BY <1>1, LenProperties
          <5> QED
            BY <5>1, <5>2
        <4>2. SourceIn(todo, i) = s
          BY <1>2, <2>3, <3>2 DEF SourceIn, Makes
        <4>3. Recordable(todo, i, s)
          BY <1>1, <1>2, <2>1, <3>2, <4>2 DEF TodoInv, Answers
        <4>4. \A x, e : ~Pays(todo, x, e)
          BY <1>2, <3>2, <4>1 DEF Pays, Event
        <4> QED
          BY <4>3, <4>4 DEF Recordable, Owed
      <3> QED
        BY <3>1, <3>2 DEF MarksWrote
    <2> QED
      BY <2>1, <2>2, <2>4 DEF LogWrote
  <1> QED
    BY <1>14, <1>15, <1>16, <1>17 DEF LogInv, LogWrote

LEMMA StepLog ==
    ASSUME LogInv, Step
    PROVE  LogInv'
  <1>1. PICK w : w = Head(todo)
    OBVIOUS
  <1>2. OpeningInv'
    BY StepInv DEF LogInv
  <1>3. todo # <<>> /\ UNCHANGED <<probing, held>> /\ todo' \in {Tail(todo), <<>>}
    BY DEF Step
  <1>4. CASE todo' = <<>> /\ UNCHANGED <<disk, history>>
    <2>1. Probes'
      BY <1>3, <1>4 DEF LogInv, Probes, Alive, Exists, disk
    <2> QED
      BY <1>2, <1>3, <1>4, <2>1, NoWrites, Begins
  <1>5. CASE FilesWrote(w) /\ todo' = Tail(todo)
    <2>1. LogWrote(w) /\ MarksWrote(w)
      BY <1>1, LogOfStep, MarksOfStep
    <2> QED
      BY <1>1, <1>2, <1>3, <1>5, <2>1, WrittenLog
  <1>6. CASE todo' # Tail(todo)
    <2>1. UNCHANGED <<disk, history>>
      BY <1>6 DEF Step, disk, history
    <2> QED
      BY <1>3, <1>4, <1>6, <2>1
  <1> QED
    BY <1>1, <1>4, <1>5, <1>6, FilesOfStep

(* A failing write and a crash leave files, logs and answers as they were. *)
LEMMA CutLog ==
    ASSUME LogInv, Fault \/ Crash, OpeningInv'
    PROVE  LogInv'
  <1>1. /\ UNCHANGED <<file, retired, log, answered, glued>> /\ todo' = <<>>
        /\ probing' \subseteq probing
        /\ \A i \in Ids : held'[i] = held[i] \/ held'[i] = NoFile
    BY InterruptedInv DEF LogInv, Fault, Crash
  <1>2. TodoInv(todo)'
    BY <1>1 DEF TodoInv, TodoShape, Ready, Sources, Purges, Answers
  <1>3. Lives'
    BY <1>1 DEF LogInv, Lives, Alive, Exists
  <1>4. Probes'
    BY <1>1 DEF LogInv, Probes, Alive, Exists
  <1>5. EventsOnce' /\ AnsweredIsRecorded'
    BY <1>1 DEF LogInv, EventsOnce, AnsweredIsRecorded, Has
  <1> QED
    BY <1>2, <1>3, <1>4, <1>5 DEF LogInv

LEMMA InitLog == Init => LogInv
  <1> SUFFICES ASSUME Init
               PROVE  LogInv
    OBVIOUS
  <1>1. OpeningInv
    BY InitInv
  <1>2. TodoInv(todo)
    BY NoWrites DEF Init
  <1>3. Lives /\ Probes
    <2>1. \A r \in Requests : RequestId[r] \in Ids
      BY OpeningAssumption
    <2> QED
      BY <2>1 DEF Init, Lives, Probes, Exists
  <1>4. EventsOnce /\ AnsweredIsRecorded
    BY DEF Init, EventsOnce, AnsweredIsRecorded
  <1> QED
    BY <1>1, <1>2, <1>3, <1>4 DEF LogInv

LEMMA NextLog == LogInv /\ [Next]_vars => LogInv'
  <1> SUFFICES ASSUME LogInv, [Next]_vars
               PROVE  LogInv'
    OBVIOUS
  <1>1. OpeningInv'
    BY NextInv DEF LogInv
  <1>2. CASE \E s \in Ids, k \in Keys : Recreate(s, k)
    BY <1>2, RecreateLog
  <1>3. ASSUME NEW p \in probing, NotRebuildable(p)
        PROVE  LogInv'
    <2>1. UNCHANGED <<disk, todo, held, history>> /\ probing' \subseteq probing
      BY <1>3 DEF NotRebuildable
    <2>2. Probes'
      BY <2>1 DEF LogInv, Probes, Alive, Exists, disk
    <2> QED
      BY <1>1, <2>1, <2>2, Begins DEF LogInv
  <1>4. CASE \E p \in probing : RecreateProbed(p[1], p[2], p[3])
    BY <1>4, RecreateProbedLog
  <1>5. CASE \E r \in Requests : CreateForRequest(r)
    BY <1>5, RequestLog
  <1>6. ASSUME NEW i \in RandomIds, OpenLegacy(i) \/ OpenForConversionTerminal(i)
        PROVE  LogInv'
    <2>1. NoId \notin Ids
      BY OpeningAssumption
    <2>2. \E s \in Ids \union {NoId}, linked \in BOOLEAN :
             (s # NoId => Exists(s)) /\ OpenAutomatically(i, s, linked)
      BY <1>6 DEF OpenLegacy, OpenForConversionTerminal, Legacy
    <2> QED
      BY <2>2, AutomaticLog
  <1>7. ASSUME NEW i \in Ids,
               \/ Activate(i) \/ Close(i) \/ Purge(i)
               \/ ReadForHealth(i) \/ SaveHealth(i) \/ HealthUnknown(i)
        PROVE  LogInv'
    BY <1>7, ActivateLog, CloseLog, PurgeLog, HealthLog
  <1>8. CASE UNCHANGED vars
    <2>1. UNCHANGED <<disk, todo, probing, held, history>>
      BY <1>8 DEF vars, calls
    <2>2. Probes'
      BY <2>1 DEF LogInv, Probes, Alive, Exists, disk
    <2> QED
      BY <1>1, <2>1, <2>2, Begins DEF LogInv
  <1>9. CASE Step
    BY <1>9, StepLog
  <1>10. CASE Fault \/ Crash
    BY <1>1, <1>10, CutLog
  <1> QED
    BY <1>2, <1>3, <1>4, <1>5, <1>6, <1>7, <1>8, <1>9, <1>10 DEF Next, Refuse

LEMMA LogInvHolds == Spec => []LogInv
  BY InitLog, NextLog, PTL DEF Spec

(* No replay and no repair records a lineage event twice                   *)
(* (ensureRecreationEvents, ensureReviewRequestCreatedEvent).              *)
THEOREM LineageIsRecordedOnce == Spec => []EventsOnce
  <1>1. LogInv => EventsOnce
    BY DEF LogInv
  <1> QED
    BY <1>1, LogInvHolds, PTL

(* What a recreation or a request was answered with has its lineage in the *)
(* event log, on both sides, whatever failed before the answer.            *)
THEOREM AnsweredHasLineage == Spec => []AnsweredIsRecorded
  <1>1. LogInv => AnsweredIsRecorded
    BY DEF LogInv
  <1> QED
    BY <1>1, LogInvHolds, PTL

(* A purge takes a session only when no session recreated from it is there *)
(* (recreationDescendantIds and the purge route).                          *)
THEOREM PurgesFromTheLeaf == Spec => PurgedFromTheLeaf
  <1> DEFINE Leaf == \A i \in Ids : Exists(i) /\ file'[i] = NoFile
                                    => \A j \in Ids : Exists(j) => file[j].from # i
  <1>1. LogInv /\ [Next]_vars => [Leaf]_vars
    <2> SUFFICES ASSUME LogInv, Next, NEW i \in Ids, Exists(i), file'[i] = NoFile,
                        NEW j \in Ids, Exists(j)
                 PROVE  file[j].from # i
      OBVIOUS
    <2>1. file' # file
      BY DEF Exists
    <2>2. Step
      <3>1. ~Fault /\ ~Crash
        BY <2>1, InterruptedInv DEF Fault, Crash, LogInv
      <3> QED
        BY <2>1, <3>1
           DEF Next, Recreate, NotRebuildable, RecreateProbed, CreateForRequest,
               OpenLegacy, OpenForConversionTerminal, OpenAutomatically, Activate,
               Close, Purge, ReadForHealth, SaveHealth, HealthUnknown, Refuse, vars, disk
    <2>3. PICK w : w = Head(todo)
      OBVIOUS
    <2>4. /\ w = todo[1] /\ 1 \in DOMAIN todo /\ w \in Writes /\ w.id \in Ids
          /\ w.op \in {"create", "save"} => w.arg \in Files
      BY <2>2, <2>3, FirstWrite DEF Step
    <2>5. file \in [Ids -> Files \union {NoFile}] /\ NoFile \notin Files
      BY OpeningAssumption DEF LogInv, OpeningInv, OpeningTypeOK
    <2>6. w.op \in {"create", "save", "status", "dropFile"}
      BY <2>1, <2>2, <2>3 DEF Step, disk
    <2>7. w.op \notin {"create", "save"}
      <3> SUFFICES ASSUME w.op \in {"create", "save"}
                   PROVE  FALSE
        OBVIOUS
      <3>1. file' = file \/ file' = [file EXCEPT ![w.id] = w.arg]
        BY <2>2, <2>3 DEF Step
      <3> QED
        BY <2>1, <2>4, <2>5, <3>1 DEF Exists
    <2>8. w.op # "status"
      <3> SUFFICES ASSUME w.op = "status"
                   PROVE  FALSE
        OBVIOUS
      <3>1. /\ Exists(w.id)
            /\ file' = [file EXCEPT ![w.id].status = w.arg]
            /\ w.arg \in {"active", "closing", "closed"}
        BY <2>1, <2>2, <2>3, <2>4 DEF Step, Writes
      <3>2. [file[w.id] EXCEPT !.status = w.arg] \in Files
        BY <2>4, <2>5, <3>1 DEF Exists, Files
      <3> QED
        BY <2>4, <2>5, <3>1, <3>2 DEF Exists
    <2>9. w.op = "dropFile" /\ file' = [file EXCEPT ![w.id] = NoFile]
      BY <2>2, <2>3, <2>6, <2>7, <2>8 DEF Step
    <2>10. w.id = i
      BY <2>4, <2>5, <2>9 DEF Exists
    <2> QED
      BY <2>4, <2>9, <2>10 DEF LogInv, TodoInv, Purges
  <1> QED
    BY <1>1, LogInvHolds, PTL DEF Spec, PurgedFromTheLeaf

=============================================================================
