------------------------------- MODULE CfdJobs -------------------------------
(***************************************************************************)
(* The CFD job service of the streaming host (CfdJobService and its store, *)
(* cfd_job_service.py, with the direction loop of cfd_pipeline/case_run):  *)
(* requests create and cancel runs, one worker thread takes them from a    *)
(* queue and runs a solver container per wind direction, and a restarted   *)
(* service brings the stored runs back to a consistent state.              *)
(*                                                                         *)
(* Stored documents and containers outlive the service; the queue, the     *)
(* worker and the calls do not.  The stages of a run that is worked on are *)
(* one status here, as nothing but its failure code depends on them.       *)
(***************************************************************************)
EXTENDS Integers, Sequences, FiniteSets

CONSTANTS
    Keys,           \* idempotency keys
    Directions,     \* wind directions of a run
    NoName,         \* no container
    MaxRuns,        \* bound: runs
    MaxPosts,       \* bound: concurrent POSTs with one key
    MaxCancels,     \* bound: cancel calls
    MaxCrashes      \* bound: crashes of the service

ASSUME JobAssumption ==
    /\ Directions \in Nat \ {0}
    /\ MaxRuns \in Nat /\ MaxPosts \in Nat /\ MaxCancels \in Nat /\ MaxCrashes \in Nat
    /\ NoName \notin (1 .. MaxRuns) \X (1 .. Directions) \X {1, 2}

VARIABLES
    runs,       \* the stored runs, oldest first
    live,       \* running containers
    queue,      \* ids the worker is to take
    worker,     \* what the worker does, on which run and direction
    posts,      \* key -> POSTs past validation
    created,    \* runs stored and not enqueued yet
    cancels,    \* cancel calls
    restart,    \* runs a starting service still has to reconcile
    ahead,      \* run -> runs that waited in the queue when it was created
    cancelled,  \* cancel calls so far
    crashes     \* crashes so far

store == <<runs, live>>
service == <<queue, worker, posts, created, cancels, restart>>
bounds == <<cancelled, crashes>>
vars == <<store, service, ahead, bounds>>

Ids == 1 .. MaxRuns
Names == Ids \X (1 .. Directions) \X {1, 2}     \* container names
Statuses == {"queued", "running", "ready", "failed", "cancelled"}
Terminal == {"ready", "failed", "cancelled"}

Run == [key : Keys, status : Statuses, cancel : BOOLEAN, container : Names \union {NoName}]

(* The steps of process_run and of the direction loop.                     *)
Stages == {"idle", "claim", "preprocess", "check", "mesh", "start", "solve", "exited", "post"}

Idle == [at |-> "idle", run |-> 0, dir |-> 0, pass |-> 0, exit |-> "ok", ready |-> FALSE]

Init ==
    /\ runs = <<>>
    /\ live = {}
    /\ queue = <<>>
    /\ worker = Idle
    /\ posts = [k \in Keys |-> 0]
    /\ created = {}
    /\ cancels = {}
    /\ restart = {}
    /\ ahead = [i \in Ids |-> {}]
    /\ cancelled = 0
    /\ crashes = 0

Known(k) == \E i \in DOMAIN runs : runs[i].key = k

-----------------------------------------------------------------------------
(* create_run.                                                             *)

(* A request for a new run, up to the preflight.                           *)
Post(k) ==
    /\ restart = {}
    /\ ~Known(k)
    /\ posts[k] < MaxPosts
    /\ posts' = [posts EXCEPT ![k] = @ + 1]
    /\ UNCHANGED <<store, queue, worker, created, cancels, restart, ahead, bounds>>

(* The preflight fails, or what is submitted exceeds a limit.              *)
Refuse(k) ==
    /\ posts[k] > 0
    /\ posts' = [posts EXCEPT ![k] = @ - 1]
    /\ UNCHANGED <<store, queue, worker, created, cancels, restart, ahead, bounds>>

(* Mutant: the key is not looked up again under the lock.                  *)
MutReplayed(k) == FALSE

(* The lookup under the create lock.                                       *)
Replayed(k) == Known(k)

(* The run is stored unless another call with the key was faster.          *)
Create(k) ==
    /\ posts[k] > 0
    /\ posts' = [posts EXCEPT ![k] = @ - 1]
    /\ IF Replayed(k)
       THEN UNCHANGED <<runs, created, ahead>>
       ELSE LET id == Len(runs) + 1
            IN  /\ Len(runs) < MaxRuns
                /\ runs' = Append(runs, [key |-> k, status |-> "queued",
                                         cancel |-> FALSE, container |-> NoName])
                /\ created' = created \union {id}
                /\ ahead' = [ahead EXCEPT ![id] =
                     {i \in DOMAIN runs : runs[i].status = "queued" /\ i \notin created}]
    /\ UNCHANGED <<live, queue, worker, cancels, restart, bounds>>

Enqueue(i) ==
    /\ i \in created
    /\ created' = created \ {i}
    /\ queue' = Append(queue, i)
    /\ UNCHANGED <<store, worker, posts, cancels, restart, ahead, bounds>>

-----------------------------------------------------------------------------
(* cancel_run.                                                             *)

(* The run is read and is not over.                                        *)
CancelCall(i) ==
    /\ restart = {}
    /\ cancelled < MaxCancels
    /\ runs[i].status \notin Terminal
    /\ cancelled' = cancelled + 1
    /\ cancels' = cancels \union {[at |-> "queued", run |-> i, container |-> NoName]}
    /\ UNCHANGED <<store, queue, worker, posts, created, restart, ahead, crashes>>

(* Mutant: what was read is acted upon, whatever the worker did since.     *)
MutCancelQueued(c) ==
    /\ c.at = "queued"
    /\ runs' = [runs EXCEPT ![c.run].status = "cancelled", ![c.run].cancel = TRUE]
    /\ cancels' = cancels \ {c}
    /\ UNCHANGED <<live, queue, worker, posts, created, restart, ahead, bounds>>

(* compare_and_set_status from queued to cancelled.                        *)
CancelQueued(c) ==
    /\ c.at = "queued"
    /\ IF runs[c.run].status = "queued"
       THEN /\ runs' = [runs EXCEPT ![c.run].status = "cancelled", ![c.run].cancel = TRUE]
            /\ cancels' = cancels \ {c}
       ELSE /\ cancels' = (cancels \ {c}) \union {[c EXCEPT !.at = "running"]}
            /\ UNCHANGED runs
    /\ UNCHANGED <<live, queue, worker, posts, created, restart, ahead, bounds>>

(* The flag; the container is the one in the document that it returns.     *)
CancelRunning(c) ==
    /\ c.at = "running"
    /\ runs' = [runs EXCEPT ![c.run].cancel = TRUE]
    /\ cancels' = (cancels \ {c})
         \union {[c EXCEPT !.at = "kill", !.container = runs[c.run].container]}
    /\ UNCHANGED <<live, queue, worker, posts, created, restart, ahead, bounds>>

(* kill_container, a no-op where no such container runs.                   *)
CancelKill(c) ==
    /\ c.at = "kill"
    /\ live' = live \ {c.container}
    /\ cancels' = cancels \ {c}
    /\ UNCHANGED <<runs, queue, worker, posts, created, restart, ahead, bounds>>

-----------------------------------------------------------------------------
(* The worker (process_run and the runner).                                *)

Here == runs[worker.run]
Name == <<worker.run, worker.dir, worker.pass>>

(* A step of the worker that leaves the calls alone.                       *)
Goes(w) ==
    /\ worker' = w
    /\ UNCHANGED <<posts, created, cancels, restart, ahead, bounds>>

(* _drain takes a run, and process_run reads it.                           *)
Take ==
    /\ worker.at = "idle"
    /\ queue # <<>>
    /\ queue' = Tail(queue)
    /\ Goes(IF runs[Head(queue)].status = "queued"
               THEN [Idle EXCEPT !.at = "claim", !.run = Head(queue)]
               ELSE Idle)
    /\ UNCHANGED store

(* The claim, by compare_and_set_status.                                   *)
Claim ==
    /\ worker.at = "claim"
    /\ IF Here.status # "queued"
       THEN Goes(Idle) /\ UNCHANGED runs
       ELSE IF Here.cancel
       THEN /\ runs' = [runs EXCEPT ![worker.run].status = "cancelled"]
            /\ Goes(Idle)
       ELSE /\ runs' = [runs EXCEPT ![worker.run].status = "running"]
            /\ Goes([worker EXCEPT !.at = "preprocess"])
    /\ UNCHANGED <<live, queue>>

(* Mutant: a run that ends leaves its container alone.                     *)
MutEnd(status) ==
    /\ runs' = [runs EXCEPT ![worker.run].status = status,
                            ![worker.run].container = NoName]
    /\ Goes(Idle)
    /\ UNCHANGED <<live, queue>>

(* The run ends: the container its document names is killed first.         *)
End(status) ==
    /\ live' = live \ {Here.container}
    /\ runs' = [runs EXCEPT ![worker.run].status = status,
                            ![worker.run].container = NoName]
    /\ Goes(Idle)
    /\ UNCHANGED queue

Preprocess ==
    /\ worker.at = "preprocess"
    /\ Goes([worker EXCEPT !.at = "check", !.dir = 1])
    /\ UNCHANGED <<store, queue>>

PreprocessFails == worker.at = "preprocess" /\ End("failed")

(* The checks before a direction and its case; the case is being written.  *)
Check ==
    /\ worker.at = "check"
    /\ IF Here.cancel
       THEN End("cancelled")
       ELSE Goes([worker EXCEPT !.at = "mesh"]) /\ UNCHANGED <<store, queue>>

(* The name of the container is stored before docker is called.            *)
NameContainer(pass) ==
    /\ runs' = [runs EXCEPT ![worker.run].container = <<worker.run, worker.dir, pass>>]
    /\ Goes([worker EXCEPT !.at = "start", !.pass = pass])
    /\ UNCHANGED <<live, queue>>

(* The case is written.                                                    *)
Mesh ==
    /\ worker.at = "mesh"
    /\ IF Here.cancel THEN End("cancelled") ELSE NameContainer(1)

MeshFails == worker.at = "mesh" /\ End("failed")

(* docker run.                                                             *)
Start ==
    /\ worker.at = "start"
    /\ live' = live \union {Name}
    /\ Goes([worker EXCEPT !.at = "solve"])
    /\ UNCHANGED <<runs, queue>>

(* run_case polls: the container has gone, or it is killed because the run *)
(* is cancelled or its time is up.                                         *)
Solve ==
    /\ worker.at = "solve"
    /\ \/ /\ Name \in live
          /\ live' = live \ {Name}
          /\ \/ Goes([worker EXCEPT !.at = "exited", !.exit = "ok"])
             \/ Goes([worker EXCEPT !.at = "exited", !.exit = "bad"])
             \/ Here.cancel /\ Goes([worker EXCEPT !.at = "exited", !.exit = "stopped"])
       \/ /\ Name \notin live
          /\ Goes([worker EXCEPT !.at = "exited", !.exit = "bad"])
          /\ UNCHANGED live
    /\ UNCHANGED <<runs, queue>>

(* The runner raises: docker cannot be started, a callback of run_case     *)
(* raises while the container runs, or its summary cannot be written.      *)
RunnerFails == worker.at \in {"start", "solve", "exited"} /\ End("failed")

(* run_case_with_extension: a solver that did not converge goes on once.   *)
Extend ==
    /\ worker.at = "exited" /\ worker.exit = "ok" /\ worker.pass = 1
    /\ ~Here.cancel
    /\ NameContainer(2)

(* The direction is done; the run is over after the last one.              *)
DirectionDone(ready) ==
    IF worker.dir < Directions
    THEN /\ runs' = [runs EXCEPT ![worker.run].container = NoName]
         /\ Goes([worker EXCEPT !.at = "check", !.dir = @ + 1, !.pass = 0, !.ready = ready])
         /\ UNCHANGED <<live, queue>>
    ELSE End(IF ready THEN "ready" ELSE "failed")

(* solver_finished, and what solve_case makes of the exit.                 *)
Exited ==
    /\ worker.at = "exited"
    /\ IF worker.exit = "stopped" \/ Here.cancel
       THEN End("cancelled")
       ELSE IF worker.exit = "bad"
       THEN DirectionDone(worker.ready)
       ELSE /\ runs' = [runs EXCEPT ![worker.run].container = NoName]
            /\ Goes([worker EXCEPT !.at = "post"])
            /\ UNCHANGED <<live, queue>>

Postprocess == worker.at = "post" /\ DirectionDone(TRUE)
PostprocessFails == worker.at = "post" /\ End("failed")

-----------------------------------------------------------------------------
(* Crash and restart.                                                      *)

(* Mutant: only the runs that were worked on are looked at.                *)
MutUnfinished == {i \in DOMAIN runs : runs[i].status = "running"}

(* What reconcile_on_start lists: the stored runs that are not over.       *)
Unfinished == {i \in DOMAIN runs : runs[i].status \notin Terminal}

(* The service dies and starts again.                                      *)
Crash ==
    /\ crashes < MaxCrashes
    /\ crashes' = crashes + 1
    /\ queue' = <<>>
    /\ worker' = Idle
    /\ posts' = [k \in Keys |-> 0]
    /\ created' = {}
    /\ cancels' = {}
    /\ restart' = Unfinished
    /\ UNCHANGED <<store, ahead, cancelled>>

(* A container that nobody waits for ends.                                 *)
OrphanEnds(n) ==
    /\ n \in live
    /\ ~(worker.at = "solve" /\ Name = n)
    /\ live' = live \ {n}
    /\ UNCHANGED <<runs, service, ahead, bounds>>

(* Mutant: the container of a run that was worked on is forgotten.         *)
MutReconcile(i) ==
    /\ \A j \in restart : j <= i
    /\ restart' = restart \ {i}
    /\ IF runs[i].status = "queued"
       THEN queue' = Append(queue, i) /\ UNCHANGED store
       ELSE /\ runs' = [runs EXCEPT ![i].status = "failed", ![i].container = NoName]
            /\ UNCHANGED <<live, queue>>
    /\ UNCHANGED <<worker, posts, created, cancels, ahead, bounds>>

(* One run of reconcile_on_start, the newest first: a queued one is        *)
(* enqueued (the worker starts at once), any other has lost its worker.    *)
Reconcile(i) ==
    /\ \A j \in restart : j <= i
    /\ restart' = restart \ {i}
    /\ IF runs[i].status = "queued"
       THEN queue' = Append(queue, i) /\ UNCHANGED store
       ELSE /\ live' = live \ {runs[i].container}
            /\ runs' = [runs EXCEPT ![i].status = "failed", ![i].container = NoName]
            /\ UNCHANGED queue
    /\ UNCHANGED <<worker, posts, created, cancels, ahead, bounds>>

Work ==
    \/ Take \/ Claim
    \/ Preprocess \/ PreprocessFails
    \/ Check
    \/ Mesh \/ MeshFails
    \/ Start \/ Solve \/ RunnerFails
    \/ Extend \/ Exited
    \/ Postprocess \/ PostprocessFails

Next ==
    \/ \E k \in Keys : Post(k) \/ Refuse(k) \/ Create(k)
    \/ \E i \in DOMAIN runs : Enqueue(i) \/ CancelCall(i)
    \/ \E c \in cancels : CancelQueued(c) \/ CancelRunning(c) \/ CancelKill(c)
    \/ Work
    \/ Crash
    \/ \E n \in live : OrphanEnds(n)
    \/ \E i \in restart : Reconcile(i)

Spec == Init /\ [][Next]_vars

(* The worker thread runs, a starting service reconciles, and a POST that  *)
(* stored its run goes on to enqueue it.  A container ends by itself or by *)
(* its timeout.                                                            *)
FairSpec ==
    /\ Spec
    /\ WF_vars(Work)
    /\ WF_vars(\E i \in restart : Reconcile(i))
    /\ WF_vars(\E i \in DOMAIN runs : Enqueue(i))

-----------------------------------------------------------------------------
(* Types of the variables.                                                 *)
JobTypeOK ==
    /\ runs \in Seq(Run) /\ Len(runs) <= MaxRuns
    /\ live \subseteq Names
    /\ queue \in Seq(DOMAIN runs)
    /\ worker \in [at : Stages, run : 0 .. Len(runs), dir : 0 .. Directions,
                   pass : 0 .. 2, exit : {"ok", "bad", "stopped"}, ready : BOOLEAN]
    /\ posts \in [Keys -> Nat]
    /\ created \subseteq DOMAIN runs
    /\ cancels \subseteq [at : {"queued", "running", "kill"}, run : DOMAIN runs,
                          container : Names \union {NoName}]
    /\ restart \subseteq DOMAIN runs
    /\ ahead \in [Ids -> SUBSET Ids]
    /\ cancelled \in Nat /\ crashes \in Nat

(***************************************************************************)
(* POSTs with one key, concurrent, repeated or repeated after a restart,   *)
(* make one run.                                                           *)
(***************************************************************************)
OneRunPerKey ==
    \A i, j \in DOMAIN runs : runs[i].key = runs[j].key => i = j

(***************************************************************************)
(* No solver outlives its run: a container that runs is the one named by   *)
(* the stored document of a run that is not over, so that whoever ends the *)
(* run, the worker or the next start of the service, can kill it.          *)
(***************************************************************************)
SolverIsNamed ==
    \A n \in live : /\ n[1] \in DOMAIN runs
                    /\ runs[n[1]].status = "running"
                    /\ runs[n[1]].container = n

(***************************************************************************)
(* One solver at a time, once a starting service has looked at every run   *)
(* it found.                                                               *)
(***************************************************************************)
OneSolver == restart = {} => Cardinality(live) <= 1

(***************************************************************************)
(* A run that is over stays as it ended: neither a cancel that read it     *)
(* earlier, nor the worker that took it from the queue, nor a restart      *)
(* changes the outcome.                                                    *)
(***************************************************************************)
OverIsOver ==
    [][\A i \in DOMAIN runs :
          runs[i].status \in Terminal => runs'[i].status = runs[i].status]_vars

(***************************************************************************)
(* Every run that was stored comes to an end, through crashes at any step. *)
(***************************************************************************)
EveryRunEnds ==
    \A i \in Ids : i \in DOMAIN runs ~> i \in DOMAIN runs /\ runs[i].status \in Terminal

(***************************************************************************)
(* The FIFO queue that the module promises (cfd_job_service.py:17): when   *)
(* the worker claims a run, none that waited in the queue before it was    *)
(* created is still waiting.                                               *)
(***************************************************************************)
FirstComeFirstServed ==
    [][\A i \in DOMAIN runs :
          runs[i].status = "queued" /\ runs'[i].status = "running"
             => \A j \in ahead[i] : runs[j].status # "queued"]_vars

=============================================================================
