--------------------------- MODULE SessionOpening ---------------------------
(***************************************************************************)
(* Entering a review session for one ready model (reviewSessionOpening,    *)
(* opening.ts) over the session store (sessionStore.ts): recreating a      *)
(* closed session, opening one for the model, the automatic open when its  *)
(* conversion ends, and what ends a session: close and purge.              *)
(*                                                                         *)
(* A call yields only where it probes the artifacts; what follows the      *)
(* probe runs to its end, as a sequence of writes to files (todo).  A      *)
(* failing write ends its call, a crash ends every call.  Session files    *)
(* are replaced by rename; an event line or a receipt may be cut off.      *)
(*                                                                         *)
(* A session id is random, or is a digest of what asks for the session:    *)
(* of the source and the key of a recreation, of the id of a request.      *)
(***************************************************************************)
EXTENDS Integers, Sequences, FiniteSets

CONSTANTS
    Ids, NoId,
    RandomIds,      \* ids of automatic opens
    Keys,           \* digests of Idempotency-Key headers
    DerivedId,      \* <<source, key>> -> id, NoId outside the bound
    Requests,
    RequestId,      \* request -> id
    NoFile,
    CutOff,         \* what an interrupted write leaves of a receipt
    MaxSessions,    \* bound: ids ever used
    MaxHeld,        \* bound: stream-config calls at their probe
    MaxTroubles     \* bound: failing writes and crashes

(* What a session file tells.                                              *)
Files ==
    [status : {"created", "active", "closing", "closed"},
     from : Ids \union {NoId},  \* recreated_from_session_id
     carrier : BOOLEAN]         \* carries a review request

(* A digest belongs to one pre-image.                                      *)
ASSUME OpeningAssumption ==
    /\ NoId \notin Ids /\ CutOff \notin Ids /\ CutOff # NoId
    /\ NoFile \notin Files
    /\ RandomIds \subseteq Ids
    /\ DerivedId \in [Ids \X Keys -> (Ids \ RandomIds) \union {NoId}]
    /\ RequestId \in [Requests -> Ids \ RandomIds]
    /\ \A p, q \in Ids \X Keys :
          DerivedId[p] = DerivedId[q] => p = q \/ DerivedId[p] = NoId
    /\ \A p \in Ids \X Keys, r \in Requests : DerivedId[p] # RequestId[r]
    /\ MaxTroubles \in Nat

VARIABLES
    file,       \* id -> session file, NoFile
    retired,    \* ids with a mark of their purge
    log,        \* id -> readable lineage events
    torn,       \* ids whose event file ends within a line
    receipt,    \* <<source, key>> -> recreation receipt
    link,       \* the session recorded in the model's IFC-ready job
    todo,       \* writes left of the call that runs
    probing,    \* <<source, key, carrier>> of recreations at the probe
    held,       \* id -> session file a stream-config call has read
    answered,   \* ids a recreation or a request has been answered with
    glued,      \* ids with an event appended to a torn line
    troubles    \* failing writes and crashes so far

disk == <<file, retired, log, torn, receipt, link>>
calls == <<todo, probing, held>>
history == <<answered, glued, troubles>>
vars == <<disk, calls, history>>

-----------------------------------------------------------------------------
Exists(i) == file[i] # NoFile
Open(i) == Exists(i) /\ file[i].status \in {"created", "active"}
Closed(i) == Exists(i) /\ file[i].status = "closed"

Created(from) == [type |-> "sessionCreated", of |-> from]
Recreated(i) == [type |-> "sessionRecreated", of |-> i]
Active == [type |-> "sessionActive", of |-> NoId]

Events == {Active} \union
    [type : {"sessionCreated", "sessionRecreated"}, of : Ids \union {NoId}]

Has(i, e) == \E n \in DOMAIN log[i] : log[i][n] = e

Write(op, i, arg) == <<[op |-> op, id |-> i, arg |-> arg]>>
Append1(i, e) == Write("event", i, e)

(* Mutant: what is there is not looked at.                                 *)
MutMissing(i, e) == Append1(i, e)

Missing(i, e) == IF Has(i, e) THEN <<>> ELSE Append1(i, e)

(* Mutant: the source's side is repaired with the session's own only.      *)
MutEnsureRecreationEvents(s, i, status) ==
    (IF Has(i, Created(s)) THEN <<>>
     ELSE Append1(i, Created(s)) \o Append1(s, Recreated(i)))
        \o (IF status = "active" THEN Missing(i, Active) ELSE <<>>)

(* ensureRecreationEvents, for a session i recreated from s.               *)
EnsureRecreationEvents(s, i, status) ==
    Missing(i, Created(s)) \o Missing(s, Recreated(i))
        \o (IF status = "active" THEN Missing(i, Active) ELSE <<>>)

(* The bound on sessions.                                                  *)
Room == Cardinality(retired \union {i \in Ids : Exists(i)}) < MaxSessions

(* How a call that may write begins: what it writes if nothing fails.      *)
Run(writes) == todo = <<>> /\ todo' = writes

Init ==
    /\ file = [i \in Ids |-> NoFile]
    /\ retired = {}
    /\ log = [i \in Ids |-> <<>>]
    /\ torn = {}
    /\ receipt = [p \in Ids \X Keys |-> NoId]
    /\ link = NoId
    /\ todo = <<>>
    /\ probing = {}
    /\ held = [i \in Ids |-> NoFile]
    /\ answered = {}
    /\ glued = {}
    /\ troubles = 0

-----------------------------------------------------------------------------
(* Recreation of a closed session.                                         *)

(* recreateOnce as far as the probe: an earlier answer is repeated, from   *)
(* the receipt or from the derived id; a retired id is refused.            *)
Recreate(s, k) ==
    LET i == DerivedId[<<s, k>>]
        r == receipt[<<s, k>>]
    IN  /\ i # NoId
        /\ \A carrier \in BOOLEAN : <<s, k, carrier>> \notin probing
        /\ Closed(s)
        /\ \/ /\ r \in Ids /\ Exists(r)
              /\ Run(EnsureRecreationEvents(s, r, file[r].status)
                        \o Write("answer", r, NoId))
              /\ UNCHANGED probing
           \/ /\ ~(r \in Ids /\ Exists(r))
              /\ Exists(i)
              /\ Run(EnsureRecreationEvents(s, i, file[i].status)
                        \o Write("receipt", s, <<k, i>>)
                        \o Write("answer", i, NoId))
              /\ UNCHANGED probing
           \/ /\ ~(r \in Ids /\ Exists(r)) /\ ~Exists(i) /\ i \notin retired
              /\ Run(<<>>)
              /\ probing' = probing \union {<<s, k, file[s].carrier>>}
        /\ UNCHANGED <<disk, held, history>>

(* The probe fails.                                                        *)
NotRebuildable(p) ==
    /\ todo = <<>>
    /\ probing' = probing \ {p}
    /\ UNCHANGED <<disk, todo, held, history>>

(* Mutant: where a recreated session comes from is left to the event log.  *)
MutRecreateProbed(s, k, carrier) ==
    LET i == DerivedId[<<s, k>>]
    IN  /\ Room
        /\ probing' = probing \ {<<s, k, carrier>>}
        /\ Run(Write("create", i, [status |-> "created", from |-> NoId,
                                   carrier |-> carrier])
                \o EnsureRecreationEvents(s, i, "created")
                \o Write("receipt", s, <<k, i>>)
                \o Write("answer", i, NoId))
        /\ UNCHANGED <<disk, held, history>>

(* recreateOnce from the probe on.  Of the source it uses what it read     *)
(* before the probe; whether it is still there is not asked.               *)
RecreateProbed(s, k, carrier) ==
    LET i == DerivedId[<<s, k>>]
    IN  /\ Room
        /\ probing' = probing \ {<<s, k, carrier>>}
        /\ Run(Write("create", i, [status |-> "created", from |-> s,
                                   carrier |-> carrier])
                \o EnsureRecreationEvents(s, i, "created")
                \o Write("receipt", s, <<k, i>>)
                \o Write("answer", i, NoId))
        /\ UNCHANGED <<disk, held, history>>

-----------------------------------------------------------------------------
(* Opening a session for the ready model, its bundle resolved and probed.  *)

(* createForRequest (createOrGetReviewRequest): one session per request.   *)
CreateForRequest(r) ==
    LET i == RequestId[r]
    IN  /\ Exists(i) \/ (i \notin retired /\ Room)
        /\ Run((IF Exists(i)
                   THEN <<>>
                   ELSE Write("create", i, [status |-> "created",
                                            from |-> NoId, carrier |-> TRUE]))
                \o Missing(i, Created(NoId))
                \o Write("answer", i, NoId))
        /\ UNCHANGED <<disk, probing, held, history>>

(* openAutomatically where no session is reused: an active session, its    *)
(* Kit instance allocated, that replaces the closed session s if any.      *)
OpenAutomatically(i, s, linked) ==
    /\ i \in RandomIds
    /\ ~Exists(i) /\ i \notin retired /\ Room
    /\ Run(Write("create", i, [status |-> "active", from |-> s,
                               carrier |-> FALSE])
            \o (IF s = NoId
                   THEN Append1(i, Created(NoId)) \o Append1(i, Active)
                   ELSE EnsureRecreationEvents(s, i, "active"))
            \o (IF linked THEN Write("link", i, NoId) ELSE <<>>))
    /\ UNCHANGED <<disk, probing, held, history>>

(* The model's sessions of the legacy path.                                *)
Legacy == {i \in Ids : Exists(i) /\ ~file[i].carrier}

(* openLegacy: a new session only where none is open or still closing.     *)
OpenLegacy(i) ==
    /\ \A j \in Legacy : Closed(j)
    /\ IF Legacy = {} THEN OpenAutomatically(i, NoId, FALSE)
                      ELSE \E s \in Legacy : OpenAutomatically(i, s, FALSE)

(* openForConversionTerminal and its observer: the session recorded in the *)
(* job is reused while its file exists.                                    *)
OpenForConversionTerminal(i) ==
    /\ ~(link \in Ids /\ Exists(link))
    /\ OpenAutomatically(i, NoId, TRUE)

-----------------------------------------------------------------------------
(* What else happens to sessions.                                          *)

(* The first claim of a viewer lease activates a created session.          *)
Activate(i) ==
    /\ Exists(i) /\ file[i].status = "created"
    /\ Run(Write("status", i, "active") \o Missing(i, Active))
    /\ UNCHANGED <<disk, probing, held, history>>

(* A close, or the recovery of an interrupted one (see SessionClose).      *)
Close(i) ==
    /\ Exists(i) /\ ~Closed(i)
    /\ Run(Write("status", i, "closing") \o Write("status", i, "closed"))
    /\ UNCHANGED <<disk, probing, held, history>>

(* Mutant: only the session itself is looked at.                           *)
MutDescendants(i) == {}

(* recreationDescendantIds: the sessions recreated from i, and so on: all  *)
(* that are in every set that has i and, with a session, those recreated   *)
(* from it.                                                                *)
Descendants(i) ==
    {j \in Ids \ {i} :
        \A D \in SUBSET Ids :
            /\ i \in D
            /\ \A d \in Ids : Exists(d) /\ file[d].from \in D => d \in D
            => j \in D}

(* The purge route: the mark first, the session file last.                 *)
Purge(i) ==
    /\ Closed(i)
    /\ Run(Write("retire", i, NoId) \o Write("dropEvents", i, NoId)
            \o Write("dropFile", i, NoId))
    /\ Descendants(i) = {}
    /\ UNCHANGED <<disk, probing, held, history>>

(* refreshArtifactHealthForSessionBestEffort, of a session no job is       *)
(* linked to: the session is read, its artifacts are probed, and what was  *)
(* read is saved with the outcome.                                         *)
ReadForHealth(i) ==
    /\ Exists(i) /\ link # i
    /\ held[i] = NoFile
    /\ Cardinality({j \in Ids : held[j] # NoFile}) < MaxHeld
    /\ Run(<<>>)
    /\ held' = [held EXCEPT ![i] = file[i]]
    /\ UNCHANGED <<disk, probing, history>>

SaveHealth(i) ==
    /\ held[i] # NoFile
    /\ Run(Write("save", i, held[i]))
    /\ held' = [held EXCEPT ![i] = NoFile]
    /\ UNCHANGED <<disk, probing, history>>

HealthUnknown(i) ==
    /\ held[i] # NoFile
    /\ Run(<<>>)
    /\ held' = [held EXCEPT ![i] = NoFile]
    /\ UNCHANGED <<disk, probing, history>>

(* A call that is refused, that only reads, or that joins another.         *)
Refuse == Run(<<>>) /\ UNCHANGED vars

-----------------------------------------------------------------------------
(* The writes of a call, one at a time.                                    *)

(* Mutant: the mark of a purge is not looked for.                          *)
MutMayPersist(i) == TRUE

(* persistSession: no new file for a retired id.                           *)
MayPersist(i) == Exists(i) \/ i \notin retired

(* The effect of a write on the event file and what is known of it: the    *)
(* reader skips an event that continues a torn line.                       *)
AppendEvent(i, e) ==
    IF i \in torn
    THEN /\ torn' = torn \ {i}
         /\ glued' = glued \union {i}
         /\ UNCHANGED log
    ELSE /\ log' = [log EXCEPT ![i] = Append(@, e)]
         /\ UNCHANGED <<torn, glued>>

Step ==
    /\ todo # <<>>
    /\ LET w == Head(todo)
           Put(f) ==
             IF MayPersist(w.id)
             THEN /\ file' = [file EXCEPT ![w.id] = f]
                  /\ todo' = Tail(todo)
             ELSE todo' = <<>> /\ UNCHANGED file
       IN  \/ /\ w.op \in {"create", "save"}
              /\ Put(w.arg)
              /\ UNCHANGED <<retired, log, torn, receipt, link, answered, glued>>
           \/ /\ w.op = "status"
              /\ IF Exists(w.id)
                 THEN file' = [file EXCEPT ![w.id].status = w.arg]
                 ELSE UNCHANGED file
              /\ todo' = Tail(todo)
              /\ UNCHANGED <<retired, log, torn, receipt, link, answered, glued>>
           \/ /\ w.op = "event"
              /\ AppendEvent(w.id, w.arg)
              /\ todo' = Tail(todo)
              /\ UNCHANGED <<file, retired, receipt, link, answered>>
           \/ /\ w.op = "receipt"
              /\ LET p == <<w.id, w.arg[1]>>
                 IN  IF receipt[p] \in {NoId, w.arg[2]}
                     THEN /\ receipt' = [receipt EXCEPT ![p] = w.arg[2]]
                          /\ todo' = Tail(todo)
                     ELSE todo' = <<>> /\ UNCHANGED receipt
              /\ UNCHANGED <<file, retired, log, torn, link, answered, glued>>
           \/ /\ w.op = "answer"
              /\ answered' = answered \union {w.id}
              /\ todo' = Tail(todo)
              /\ UNCHANGED <<disk, glued>>
           \/ /\ w.op = "link"
              /\ link' = w.id
              /\ todo' = Tail(todo)
              /\ UNCHANGED <<file, retired, log, torn, receipt, answered, glued>>
           \/ /\ w.op = "retire"
              /\ retired' = retired \union {w.id}
              /\ todo' = Tail(todo)
              /\ UNCHANGED <<file, log, torn, receipt, link, answered, glued>>
           \/ /\ w.op = "dropEvents"
              /\ log' = [log EXCEPT ![w.id] = <<>>]
              /\ torn' = torn \ {w.id}
              /\ todo' = Tail(todo)
              /\ UNCHANGED <<file, retired, receipt, link, answered, glued>>
           \/ /\ w.op = "dropFile"
              /\ file' = [file EXCEPT ![w.id] = NoFile]
              /\ todo' = Tail(todo)
              /\ UNCHANGED <<retired, log, torn, receipt, link, answered, glued>>
    /\ UNCHANGED <<probing, held, troubles>>

(* What an interrupted write leaves: nothing, a line that is cut off, or a *)
(* receipt that names nobody.                                              *)
Interrupted ==
    \/ UNCHANGED disk
    \/ /\ todo # <<>> /\ Head(todo).op = "event"
       /\ torn' = torn \union {Head(todo).id}
       /\ UNCHANGED <<file, retired, log, receipt, link>>
    \/ /\ todo # <<>> /\ Head(todo).op = "receipt"
       /\ LET p == <<Head(todo).id, Head(todo).arg[1]>>
          IN  /\ receipt[p] = NoId
              /\ receipt' = [receipt EXCEPT ![p] = CutOff]
       /\ UNCHANGED <<file, retired, log, torn, link>>

Fault ==
    /\ troubles < MaxTroubles
    /\ todo # <<>>
    /\ todo' = <<>>
    /\ troubles' = troubles + 1
    /\ Interrupted
    /\ UNCHANGED <<probing, held, answered, glued>>

Crash ==
    /\ troubles < MaxTroubles
    /\ todo' = <<>>
    /\ probing' = {}
    /\ held' = [i \in Ids |-> NoFile]
    /\ troubles' = troubles + 1
    /\ Interrupted
    /\ UNCHANGED <<answered, glued>>

Next ==
    \/ \E s \in Ids, k \in Keys : Recreate(s, k)
    \/ \E p \in probing : NotRebuildable(p) \/ RecreateProbed(p[1], p[2], p[3])
    \/ \E r \in Requests : CreateForRequest(r)
    \/ \E i \in RandomIds : OpenLegacy(i) \/ OpenForConversionTerminal(i)
    \/ \E i \in Ids :
          \/ Activate(i) \/ Close(i) \/ Purge(i)
          \/ ReadForHealth(i) \/ SaveHealth(i) \/ HealthUnknown(i)
    \/ Refuse
    \/ Step
    \/ Fault
    \/ Crash

Spec == Init /\ [][Next]_vars

-----------------------------------------------------------------------------
(* The writes of todo, by what they carry.                                 *)
Writes ==
    [op : {"create", "save"}, id : Ids, arg : Files]
        \union [op : {"status"}, id : Ids, arg : {"active", "closing", "closed"}]
        \union [op : {"event"}, id : Ids, arg : Events]
        \union [op : {"receipt"}, id : Ids, arg : Keys \X Ids]
        \union [op : {"answer", "link", "retire", "dropEvents", "dropFile"},
                id : Ids, arg : {NoId}]

(* Types of the variables.                                                 *)
OpeningTypeOK ==
    /\ file \in [Ids -> Files \union {NoFile}]
    /\ retired \subseteq Ids
    /\ log \in [Ids -> Seq(Events)]
    /\ torn \subseteq Ids
    /\ receipt \in [Ids \X Keys -> Ids \union {NoId, CutOff}]
    /\ link \in Ids \union {NoId}
    /\ todo \in Seq(Writes)
    /\ probing \subseteq Ids \X Keys \X BOOLEAN
    /\ held \in [Ids -> Files \union {NoFile}]
    /\ answered \subseteq Ids
    /\ glued \subseteq Ids
    /\ troubles \in 0 .. MaxTroubles

(***************************************************************************)
(* Two errors that recreateOnce throws never occur: a session with the     *)
(* digest of a source and a key as its id was recreated from that source,  *)
(* and the receipt of the two names no other session.                      *)
(***************************************************************************)
IdTellsLineage ==
    \A s \in Ids, k \in Keys :
        LET i == DerivedId[<<s, k>>]
        IN  i # NoId => /\ Exists(i) => file[i].from = s
                        /\ receipt[<<s, k>>] \in {i, NoId, CutOff}

(***************************************************************************)
(* A purged id never comes back: neither a recreation that awaited its     *)
(* probe, nor a request, nor a call that still holds what it had read of   *)
(* the session brings its file back.                                       *)
(***************************************************************************)
RetiredStaysGone ==
    [][\A i \in Ids : i \in retired /\ ~Exists(i)
                         => i \in retired' /\ file'[i] = NoFile]_vars

(***************************************************************************)
(* A purge takes a session only after all that were recreated from it,     *)
(* through failing purges and restarts: the lineage of a session that is   *)
(* there is cut by no purge that starts after it was recreated.            *)
(***************************************************************************)
PurgedFromTheLeaf ==
    [][\A i \in Ids : Exists(i) /\ file'[i] = NoFile
                         => \A j \in Ids : Exists(j) => file[j].from # i]_vars

(***************************************************************************)
(* A session a recreation or a request was answered with has its lineage   *)
(* in the event log, on its own side and on the source's, whatever crash   *)
(* or failing write came before the answer: a replay repairs what they     *)
(* left half written.  (Not where an appended line was lost to a torn one: *)
(* then it takes a second replay.)                                         *)
(***************************************************************************)
AnsweredIsRecorded ==
    \A i \in answered \ (retired \union glued) :
        LET s == file[i].from
        IN  /\ Has(i, Created(s))
            /\ s \in Ids \ (retired \union glued) => Has(s, Recreated(i))

(***************************************************************************)
(* Replays and repairs never record a lineage event twice.                 *)
(***************************************************************************)
EventsOnce ==
    \A i \in Ids : \A m, n \in DOMAIN log[i] : log[i][m] = log[i][n] => m = n

(***************************************************************************)
(* What the contract of the intents says of a session                      *)
(* (ready-review-session-intent.md): closed is terminal.                   *)
(***************************************************************************)
ClosedStaysClosed ==
    [][\A i \in Ids : Closed(i) => file'[i] = NoFile \/ Closed(i)']_vars

=============================================================================
