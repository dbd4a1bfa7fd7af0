------------------------------ MODULE CfdProofs ------------------------------
(***************************************************************************)
(* Theorems about the CFD job service, for any number of keys, directions, *)
(* runs, concurrent calls and crashes: the types of its variables, one run *)
(* per key, one solver, and the outcome of a run that is over; and about   *)
(* the findings of a run, for any findings, evaluations and failures: one  *)
(* annotation per finding, and a ledger that tells of what is there.       *)
(***************************************************************************)
EXTENDS CfdJobs, CfdFindings, FiniteSetTheorems, SequenceTheorems, TLAPS

(* The worker has claimed the run it holds.                                *)
Busy == worker.at \notin {"idle", "claim"}

(* What the steps of the worker know of the direction and the pass.        *)
StageNumbers ==
    /\ worker.at \in {"check", "mesh", "start", "solve", "exited", "post"}
          => worker.dir \in 1 .. Directions
    /\ worker.at \in {"start", "solve", "exited"} => worker.pass \in {1, 2}

(* The worker holds a stored run, and one that it has claimed is running.  *)
WorkerHolds ==
    /\ worker.at # "idle" => worker.run \in DOMAIN runs \ restart
    /\ Busy => Here.status = "running"

(* A solver of the run is only there while the worker waits for it, and    *)
(* then it is the one that the document names.                             *)
SolverIsAwaited ==
    /\ worker.at \in {"start", "solve"} => Here.container = Name
    /\ Busy /\ worker.at # "solve" => \A n \in live : n[1] # worker.run

(* Only a running run has a container, and somebody will end it.           *)
RunningIsCarried ==
    \A i \in DOMAIN runs :
       IF runs[i].status = "running"
       THEN i \in restart \/ (Busy /\ worker.run = i)
       ELSE runs[i].container = NoName

(* The service takes no call before it has looked at every stored run, and *)
(* it has queued none of those it has not looked at.                       *)
RestartGoesFirst ==
    /\ restart # {} => cancels = {} /\ created = {} /\ \A k \in Keys : posts[k] = 0
    /\ \A i \in restart : runs[i].status \notin Terminal
    /\ \A j \in DOMAIN queue : queue[j] \notin restart

JobInv ==
    /\ JobTypeOK
    /\ StageNumbers
    /\ WorkerHolds
    /\ SolverIsAwaited
    /\ SolverIsNamed
    /\ RunningIsCarried
    /\ RestartGoesFirst

(* What an assignment to one stored document leaves of the store.          *)
LEMMA StoredAsBefore ==
    ASSUME NEW t, t = [j \in DOMAIN runs |-> t[j]], runs \in Seq(Run),
           \A j \in DOMAIN runs : t[j] \in Run
    PROVE  t \in Seq(Run) /\ Len(t) = Len(runs) /\ DOMAIN t = DOMAIN runs
  OBVIOUS

(* Documents are added, and none goes.                                     *)
LEMMA StepStored ==
    ASSUME JobInv, [Next]_vars
    PROVE  /\ runs' \in Seq(Run) /\ Len(runs') <= MaxRuns
           /\ DOMAIN runs \subseteq DOMAIN runs' /\ Len(runs) <= Len(runs')
<1>. DEFINE Rewritten == /\ runs' = [j \in DOMAIN runs |-> runs'[j]]
                         /\ \A j \in DOMAIN runs : runs'[j] \in Run
<1>t. /\ runs \in Seq(Run) /\ Len(runs) <= MaxRuns
      /\ \A j \in DOMAIN runs : runs[j] \in Run
      /\ worker.at # "idle" => worker.run \in DOMAIN runs
      /\ worker.dir \in Nat
  BY DEF JobInv, JobTypeOK, WorkerHolds
<1>n. ASSUME NEW pass \in {1, 2}, worker.at \in {"mesh", "exited"}, NameContainer(pass)
      PROVE  Rewritten
  <2>1. worker.run \in Ids /\ worker.dir \in 1 .. Directions
    BY <1>t, <1>n, JobAssumption DEF JobInv, StageNumbers, Ids
  <2>2. <<worker.run, worker.dir, pass>> \in Names
    BY <2>1 DEF Names
  <2>. QED
    BY <1>t, <1>n, <2>2 DEF NameContainer, Run
<1>e. ASSUME NEW status \in Statuses, worker.at # "idle", End(status)
      PROVE  Rewritten
  BY <1>t, <1>e DEF End, Run
<1>d. ASSUME NEW ready, worker.at # "idle", DirectionDone(ready)
      PROVE  Rewritten
  <2>1. CASE runs' = [runs EXCEPT ![worker.run].container = NoName]
    BY <1>t, <1>d, <2>1 DEF Run
  <2>2. CASE End("ready") \/ End("failed")
    BY <1>d, <1>e, <2>2 DEF Statuses
  <2>. QED
    BY <1>d, <2>1, <2>2 DEF DirectionDone
<1>1. ASSUME NEW k \in Keys, Create(k)
      PROVE  \/ UNCHANGED runs
             \/ /\ Len(runs) < MaxRuns
                /\ \E r \in Run : runs' = Append(runs, r)
  BY <1>1 DEF Create, Run, Statuses
<1>2. ASSUME NEW c \in cancels, CancelQueued(c) \/ CancelRunning(c)
      PROVE  Rewritten \/ UNCHANGED runs
  <2>1. c.run \in DOMAIN runs
    BY DEF JobInv, JobTypeOK
  <2>2. CASE CancelQueued(c)
    BY <2>1, <2>2, <1>t DEF CancelQueued, Run, Statuses
  <2>3. CASE CancelRunning(c)
    BY <2>1, <2>3, <1>t DEF CancelRunning, Run
  <2>. QED  BY <1>2, <2>2, <2>3
<1>3. CASE Claim
  <2>. Rewritten \/ UNCHANGED runs
    <3>1. CASE UNCHANGED runs
      BY <3>1
    <3>2. CASE runs' = [runs EXCEPT ![worker.run].status = "cancelled"]
      BY <3>2, <1>3, <1>t DEF Claim, Run, Statuses
    <3>3. CASE runs' = [runs EXCEPT ![worker.run].status = "running"]
      BY <3>3, <1>3, <1>t DEF Claim, Run, Statuses
    <3>. QED  BY <1>3, <3>1, <3>2, <3>3 DEF Claim
  <2>. QED  BY <1>t, StoredAsBefore
<1>4. ASSUME \/ PreprocessFails \/ Check \/ Mesh \/ MeshFails \/ RunnerFails
             \/ Extend \/ Exited \/ Postprocess \/ PostprocessFails
      PROVE  Rewritten \/ UNCHANGED runs
  <2>1. CASE Exited
    <3>1. CASE runs' = [runs EXCEPT ![worker.run].container = NoName]
      BY <3>1, <2>1, <1>t DEF Exited, Run
    <3>. QED  BY <3>1, <2>1, <1>e, <1>d DEF Exited, Statuses
  <2>. QED
    BY <2>1, <1>4, <1>n, <1>e, <1>d
       DEF PreprocessFails, Check, Mesh, MeshFails, RunnerFails, Extend, Postprocess,
           PostprocessFails, store, Statuses
<1>5. ASSUME NEW i \in restart, Reconcile(i)
      PROVE  Rewritten \/ UNCHANGED runs
  <2>1. i \in DOMAIN runs
    BY DEF JobInv, JobTypeOK
  <2>2. \/ UNCHANGED runs
        \/ runs' = [runs EXCEPT ![i].status = "failed", ![i].container = NoName]
    BY <1>5 DEF Reconcile, store
  <2>3. runs[i] \in Run
    BY <2>1, <1>t
  <2>4. [runs[i] EXCEPT !.status = "failed", !.container = NoName] \in Run
    BY <2>3 DEF Run, Statuses
  <2>. QED
    BY <2>1, <2>2, <2>4, <1>t
<1>6. CASE Rewritten \/ UNCHANGED runs
  BY <1>6, <1>t, StoredAsBefore
<1>7. CASE \E k \in Keys : Create(k)
  BY <1>7, <1>1, <1>t, JobAssumption
<1>. QED
  BY <1>1, <1>2, <1>3, <1>4, <1>5, <1>6, <1>7
     DEF Next, Work, Post, Refuse, Enqueue, CancelCall, CancelKill, Take, Preprocess, Start,
         Solve, Crash, OrphanEnds, vars, store

(* The worker's record, before a step and after it.                        *)
Held(w, n) ==
    /\ w \in [at : Stages, run : 0 .. n, dir : 0 .. Directions, pass : 0 .. 2,
              exit : {"ok", "bad", "stopped"}, ready : BOOLEAN]
    /\ w.at \in {"check", "mesh", "start", "solve", "exited", "post"} => w.dir \in 1 .. Directions
    /\ w.at \in {"start", "solve", "exited"} => w.pass \in {1, 2}

LEMMA RecordHeld ==
    ASSUME NEW n, NEW at \in Stages, NEW run \in 0 .. n, NEW dir \in 0 .. Directions,
           NEW pass \in 0 .. 2, NEW exit \in {"ok", "bad", "stopped"}, NEW ready \in BOOLEAN,
           at \in {"check", "mesh", "start", "solve", "exited", "post"} => dir \in 1 .. Directions,
           at \in {"start", "solve", "exited"} => pass \in {1, 2}
    PROVE  Held([at |-> at, run |-> run, dir |-> dir, pass |-> pass,
                 exit |-> exit, ready |-> ready], n)
  BY DEF Held

LEMMA StepWorkerTypes ==
    ASSUME JobInv, [Next]_vars
    PROVE  Held(worker', Len(runs'))
<1>s. Len(runs') \in Nat /\ Len(runs) \in Nat /\ Len(runs) <= Len(runs')
  BY StepStored DEF JobInv, JobTypeOK
<1>h. Held(worker, Len(runs))
  BY DEF JobInv, JobTypeOK, StageNumbers, Held
<1>b. Directions \in Nat /\ Directions > 0
  BY JobAssumption
<1>r. worker.at \in Stages /\ worker.run \in 0 .. Len(runs) /\ worker.dir \in 0 .. Directions
      /\ worker.pass \in 0 .. 2 /\ worker.exit \in {"ok", "bad", "stopped"} /\ worker.ready \in BOOLEAN
      /\ worker.run \in 0 .. Len(runs')
  BY <1>h, <1>s DEF Held
<1>w. worker = [at |-> worker.at, run |-> worker.run, dir |-> worker.dir, pass |-> worker.pass,
                exit |-> worker.exit, ready |-> worker.ready]
  BY <1>h DEF Held
<1>k. UNCHANGED worker => Held(worker', Len(runs'))
  BY <1>s, <1>h DEF Held
<1>i. worker' = Idle => Held(worker', Len(runs'))
  BY <1>s, JobAssumption DEF Held, Idle, Stages
<1>e. ASSUME NEW status, End(status) PROVE Held(worker', Len(runs'))
  BY <1>e, <1>i DEF End, Goes
<1>d. ASSUME NEW ready \in BOOLEAN, DirectionDone(ready)
      PROVE Held(worker', Len(runs'))
  <2>1. CASE worker.dir < Directions
    <3>1. worker' = [at |-> "check", run |-> worker.run, dir |-> worker.dir + 1, pass |-> 0,
                     exit |-> worker.exit, ready |-> ready]
      BY <2>1, <1>d, <1>w DEF DirectionDone, Goes
    <3>2. /\ worker.dir + 1 \in 1 .. Directions /\ worker.dir + 1 \in 0 .. Directions
          /\ 0 \in 0 .. 2 /\ "check" \in Stages
      BY <2>1, <1>b, <1>r DEF Stages
    <3>. QED  BY <3>1, <3>2, <1>r, RecordHeld
  <2>. QED  BY <2>1, <1>d, <1>e DEF DirectionDone
<1>n. ASSUME NEW pass \in {1, 2}, NameContainer(pass), worker.dir \in 1 .. Directions
      PROVE Held(worker', Len(runs'))
  <2>1. worker' = [at |-> "start", run |-> worker.run, dir |-> worker.dir, pass |-> pass,
                   exit |-> worker.exit, ready |-> worker.ready]
    BY <1>n, <1>w DEF NameContainer, Goes
  <2>2. pass \in 0 .. 2 /\ "start" \in Stages
    BY DEF Stages
  <2>. QED  BY <1>n, <2>1, <2>2, <1>r, RecordHeld
<1> USE <1>s, <1>h, <1>k, <1>i
<1>1. CASE Take
  <2>1. Head(queue) \in 0 .. Len(runs)
    BY <1>1 DEF Take, JobInv, JobTypeOK
  <2>2. \/ worker' = Idle
        \/ worker' = [at |-> "claim", run |-> Head(queue), dir |-> 0, pass |-> 0,
                      exit |-> "ok", ready |-> FALSE]
    BY <1>1 DEF Take, Goes, Idle
  <2>3. 0 \in 0 .. Directions /\ 0 \in 0 .. 2 /\ "claim" \in Stages
    BY <1>b DEF Stages
  <2>4. Head(queue) \in 0 .. Len(runs')
    BY <2>1, <1>s
  <2>. QED  BY <2>2, <2>3, <2>4, RecordHeld
<1>2. CASE Claim
  BY <1>2 DEF Claim, Goes, Held, Stages
<1>3. CASE Preprocess
  <2>1. worker' = [at |-> "check", run |-> worker.run, dir |-> 1, pass |-> worker.pass,
                   exit |-> worker.exit, ready |-> worker.ready]
    BY <1>3, <1>w DEF Preprocess, Goes
  <2>2. 1 \in 0 .. Directions /\ 1 \in 1 .. Directions /\ "check" \in Stages
    BY <1>b DEF Stages
  <2>. QED  BY <2>1, <2>2, <1>r, RecordHeld
<1>4. CASE Check
  BY <1>4, <1>e DEF Check, Goes, Held, Stages
<1>5. CASE Mesh
  BY <1>5, <1>e, <1>n DEF Mesh, Held
<1>6. CASE Start
  BY <1>6 DEF Start, Goes, Held, Stages
<1>7. CASE Solve
  BY <1>7 DEF Solve, Goes, Held, Stages
<1>8. CASE Extend
  BY <1>8, <1>n DEF Extend, Held
<1>9. CASE Exited
  BY <1>9, <1>e, <1>d DEF Exited, Goes, Held, Stages
<1>10. CASE Postprocess \/ PostprocessFails
  BY <1>10, <1>e, <1>d DEF Postprocess, PostprocessFails
<1>11. CASE PreprocessFails \/ MeshFails \/ RunnerFails
  BY <1>11, <1>e DEF PreprocessFails, MeshFails, RunnerFails
<1>12. CASE Crash
  BY <1>12 DEF Crash
<1>. QED
  BY <1>1, <1>2, <1>3, <1>4, <1>5, <1>6, <1>7, <1>8, <1>9, <1>10, <1>11, <1>12
     DEF Next, Work, Post, Refuse, Create, Enqueue, CancelCall, CancelQueued, CancelRunning,
         CancelKill, OrphanEnds, Reconcile, vars, service

LEMMA StepTypes ==
    ASSUME JobInv, [Next]_vars
    PROVE  JobTypeOK' /\ StageNumbers'
<1>s. /\ runs' \in Seq(Run) /\ Len(runs') <= MaxRuns
      /\ DOMAIN runs \subseteq DOMAIN runs'
  BY StepStored
<1>w. Held(worker', Len(runs'))
  BY StepWorkerTypes
<1>t. JobTypeOK
  BY DEF JobInv
<1>n. worker.at \in {"start", "solve"} => Name \in Names
  <2>1. worker.at \in {"start", "solve"} => worker.run \in Ids
    BY <1>t, JobAssumption DEF JobInv, JobTypeOK, WorkerHolds, Ids
  <2>. QED  BY <2>1 DEF JobInv, StageNumbers, Name, Names
<1>1. live' \subseteq Names
  BY <1>t, <1>n
     DEF JobTypeOK, Next, Work, Post, Refuse, Create, Enqueue, CancelCall, CancelQueued,
         CancelRunning, CancelKill, Take, Claim, Preprocess, PreprocessFails, Check, Mesh,
         MeshFails, Start, RunnerFails, Solve, Extend, Exited, Postprocess, PostprocessFails,
         End, DirectionDone, NameContainer, Crash, OrphanEnds, Reconcile, vars, store
<1>2. queue' \in Seq(DOMAIN runs')
  <2>1. queue \in Seq(DOMAIN runs')
    BY <1>t, <1>s DEF JobTypeOK
  <2>2. ASSUME NEW i \in DOMAIN runs, Enqueue(i) PROVE queue' \in Seq(DOMAIN runs')
    BY <2>1, <2>2, <1>s DEF Enqueue
  <2>3. CASE Take
    BY <2>1, <2>3 DEF Take
  <2>4. ASSUME NEW i \in restart, Reconcile(i) PROVE queue' \in Seq(DOMAIN runs')
    <3>1. i \in DOMAIN runs'
      BY <1>s, <1>t DEF JobTypeOK
    <3>2. queue' = Append(queue, i) \/ queue' = queue
      BY <2>4 DEF Reconcile
    <3>. QED  BY <3>1, <3>2, <2>1
  <2>5. CASE Crash
    BY <2>5 DEF Crash
  <2>. QED
    BY <2>1, <2>2, <2>3, <2>4, <2>5
       DEF Next, Work, Post, Refuse, Create, CancelCall, CancelQueued,
           CancelRunning, CancelKill, Claim, Preprocess, PreprocessFails, Check, Mesh,
           MeshFails, Start, RunnerFails, Solve, Extend, Exited, Postprocess, PostprocessFails,
           End, DirectionDone, NameContainer, OrphanEnds, vars, service
<1>3. created' \subseteq DOMAIN runs'
  <2>. SUFFICES ASSUME NEW k \in Keys, Create(k), ~Replayed(k)
                PROVE  Len(runs) + 1 \in DOMAIN runs'
    BY <1>s, <1>t
       DEF JobTypeOK, Next, Work, Post, Refuse, Create, Enqueue, CancelCall, CancelQueued,
           CancelRunning, CancelKill, Take, Claim, Preprocess, PreprocessFails, Check, Mesh,
           MeshFails, Start, RunnerFails, Solve, Extend, Exited, Postprocess, PostprocessFails,
           End, DirectionDone, NameContainer, Goes, Crash, OrphanEnds, Reconcile, vars, service
  <2>. QED  BY <1>s, <1>t DEF Create, JobTypeOK
<1>4. restart' \subseteq DOMAIN runs'
  BY <1>s, <1>t
     DEF JobTypeOK, Next, Work, Post, Refuse, Create, Enqueue, CancelCall, CancelQueued,
         CancelRunning, CancelKill, Take, Claim, Preprocess, PreprocessFails, Check, Mesh,
         MeshFails, Start, RunnerFails, Solve, Extend, Exited, Postprocess, PostprocessFails,
         End, DirectionDone, NameContainer, Goes, Crash, Unfinished, OrphanEnds, Reconcile,
         vars, service
<1>5. cancels' \subseteq [at : {"queued", "running", "kill"}, run : DOMAIN runs',
                          container : Names \union {NoName}]
  <2>. DEFINE CancelCalls == [at : {"queued", "running", "kill"}, run : DOMAIN runs',
                        container : Names \union {NoName}]
  <2>1. cancels \subseteq CancelCalls
    BY <1>s, <1>t DEF JobTypeOK
  <2>2. ASSUME NEW i \in DOMAIN runs, CancelCall(i)  PROVE cancels' \subseteq CancelCalls
    <3>1. [at |-> "queued", run |-> i, container |-> NoName] \in CancelCalls
      BY <1>s
    <3>. QED  BY <2>1, <2>2, <3>1 DEF CancelCall
  <2>3. ASSUME NEW c \in cancels, CancelQueued(c)  PROVE cancels' \subseteq CancelCalls
    <3>1. [c EXCEPT !.at = "running"] \in CancelCalls
      BY <2>1
    <3>. QED  BY <2>1, <2>3, <3>1 DEF CancelQueued
  <2>4. ASSUME NEW c \in cancels, CancelRunning(c)  PROVE cancels' \subseteq CancelCalls
    <3>1. c.run \in DOMAIN runs /\ \A i \in DOMAIN runs : runs[i] \in Run
      BY <1>t DEF JobTypeOK
    <3>2. runs[c.run].container \in Names \union {NoName}
      BY <3>1 DEF Run
    <3>3. [c EXCEPT !.at = "kill", !.container = runs[c.run].container] \in CancelCalls
      BY <2>1, <3>2
    <3>. QED  BY <2>1, <2>4, <3>3 DEF CancelRunning
  <2>. HIDE DEF CancelCalls
  <2>. SUFFICES cancels' \subseteq CancelCalls
    BY DEF CancelCalls
  <2>5. cancels' \subseteq cancels => cancels' \subseteq CancelCalls
    BY <2>1
  <2>. QED
    BY <2>2, <2>3, <2>4, <2>5
       DEF Next, Work, Post, Refuse, Create, Enqueue, CancelKill, Take, Claim, Preprocess,
           PreprocessFails, Check, Mesh, MeshFails, Start, RunnerFails, Solve, Extend, Exited,
           Postprocess, PostprocessFails, End, DirectionDone, NameContainer, Goes, Crash,
           OrphanEnds, Reconcile, vars, service
<1>6. posts' \in [Keys -> Nat]
  <2>1. ASSUME NEW k \in Keys, Post(k) \/ Refuse(k) \/ Create(k)  PROVE posts' \in [Keys -> Nat]
    <3>1. posts \in [Keys -> Nat]
      BY <1>t DEF JobTypeOK
    <3>. QED  BY <2>1, <3>1 DEF Post, Refuse, Create
  <2>2. CASE UNCHANGED posts \/ posts' = [k \in Keys |-> 0]
    BY <2>2, <1>t DEF JobTypeOK
  <2>. QED
    BY <2>1, <2>2
       DEF Next, Work, Enqueue, CancelCall, CancelQueued,
           CancelRunning, CancelKill, Take, Claim, Preprocess, PreprocessFails, Check, Mesh,
           MeshFails, Start, RunnerFails, Solve, Extend, Exited, Postprocess, PostprocessFails,
           End, DirectionDone, NameContainer, Goes, Crash, OrphanEnds, Reconcile, vars, service
<1>7. ahead' \in [Ids -> SUBSET Ids]
  <2>1. ASSUME NEW k \in Keys, Create(k)  PROVE ahead' \in [Ids -> SUBSET Ids]
    <3>1. DOMAIN runs \subseteq Ids
      BY <1>t, JobAssumption DEF JobTypeOK, Ids
    <3>2. \A i \in DOMAIN runs : i \in Ids
      BY <3>1
    <3>3. {i \in DOMAIN runs : runs[i].status = "queued" /\ i \notin created} \in SUBSET Ids
      BY <3>2
    <3>4. ahead \in [Ids -> SUBSET Ids]
      BY <1>t DEF JobTypeOK
    <3>. QED  BY <2>1, <3>3, <3>4 DEF Create
  <2>. QED
    BY <2>1, <1>t
       DEF JobTypeOK, Next, Work, Post, Refuse, Enqueue, CancelCall, CancelQueued,
           CancelRunning, CancelKill, Take, Claim, Preprocess, PreprocessFails, Check, Mesh,
           MeshFails, Start, RunnerFails, Solve, Extend, Exited, Postprocess, PostprocessFails,
           End, DirectionDone, NameContainer, Goes, Crash, OrphanEnds, Reconcile, vars
<1>8. cancelled' \in Nat /\ crashes' \in Nat
  <2>1. cancelled \in Nat /\ crashes \in Nat
    BY <1>t DEF JobTypeOK
  <2>2. ASSUME NEW i \in DOMAIN runs, CancelCall(i)
        PROVE  cancelled' \in Nat /\ crashes' \in Nat
    BY <2>1, <2>2 DEF CancelCall
  <2>3. CASE Crash
    BY <2>1, <2>3 DEF Crash
  <2>. QED
    BY <2>1, <2>2, <2>3
       DEF Next, Work, Post, Refuse, Create, Enqueue, CancelQueued,
           CancelRunning, CancelKill, Take, Claim, Preprocess, PreprocessFails, Check, Mesh,
           MeshFails, Start, RunnerFails, Solve, Extend, Exited, Postprocess, PostprocessFails,
           End, DirectionDone, NameContainer, Goes, OrphanEnds, Reconcile, vars, bounds
<1>. QED
  BY <1>1, <1>2, <1>3, <1>4, <1>5, <1>6, <1>7, <1>8, <1>s, <1>w
     DEF JobTypeOK, StageNumbers, Held

(* What a step writes into one document, as far as JobInv looks at it.     *)
Rewrites(i, status, container) ==
    /\ DOMAIN runs' = DOMAIN runs
    /\ \A j \in DOMAIN runs \ {i} : runs'[j] = runs[j]
    /\ runs'[i].status = status /\ runs'[i].container = container

(* The parts of JobInv other than the types.                               *)
Together ==
    WorkerHolds /\ SolverIsAwaited /\ SolverIsNamed /\ RunningIsCarried /\ RestartGoesFirst

(* What JobInv says of the types, as far as the steps below need it.       *)
LEMMA KnownTypes ==
    ASSUME JobInv
    PROVE  /\ Together
           /\ runs \in Seq(Run) /\ DOMAIN runs = 1 .. Len(runs)
           /\ \A i \in DOMAIN runs : runs[i] = [key |-> runs[i].key, status |-> runs[i].status,
                                               cancel |-> runs[i].cancel,
                                               container |-> runs[i].container]
           /\ live \subseteq Names /\ NoName \notin Names
           /\ queue \in Seq(DOMAIN runs) /\ restart \subseteq DOMAIN runs
           /\ created \subseteq DOMAIN runs /\ \A c \in cancels : c.run \in DOMAIN runs
           /\ worker = [at |-> worker.at, run |-> worker.run, dir |-> worker.dir,
                        pass |-> worker.pass, exit |-> worker.exit, ready |-> worker.ready]
<1>1. runs \in Seq(Run) /\ DOMAIN runs = 1 .. Len(runs) /\ \A i \in DOMAIN runs : runs[i] \in Run
  BY DEF JobInv, JobTypeOK
<1>2. \A i \in DOMAIN runs : runs[i] = [key |-> runs[i].key, status |-> runs[i].status,
                                       cancel |-> runs[i].cancel,
                                       container |-> runs[i].container]
  BY <1>1 DEF Run
<1>3. live \subseteq Names /\ NoName \notin Names
  BY JobAssumption DEF JobInv, JobTypeOK, Names, Ids
<1>. QED
  BY <1>1, <1>2, <1>3 DEF JobInv, JobTypeOK, Together

(* Steps that leave the documents and the worker alone.                    *)
LEMMA CallsKeep ==
    ASSUME Together, UNCHANGED <<runs, worker, restart, queue>>, live' \subseteq live,
           restart = {} \/ UNCHANGED <<posts, created, cancels>>
    PROVE  Together'
<1>1. WorkerHolds' /\ SolverIsNamed'
  BY DEF Together, WorkerHolds, SolverIsNamed, Busy, Here
<1>2. SolverIsAwaited'
  BY DEF Together, SolverIsAwaited, Busy, Here, Name
<1>3. RunningIsCarried'
  BY DEF Together, RunningIsCarried, Busy
<1>4. RestartGoesFirst'
  BY DEF Together, RestartGoesFirst
<1>. QED  BY <1>1, <1>2, <1>3, <1>4 DEF Together

(* The worker goes on without touching a document.                         *)
LEMMA WorkerGoesOn ==
    ASSUME JobInv, UNCHANGED <<runs, queue, posts, created, cancels, restart>>, Busy,
           worker'.run = worker.run, worker'.at \notin {"idle", "claim"},
           live' \subseteq live,
           worker'.at \in {"start", "solve"} => Here.container = Name',
           worker'.at # "solve" => \A n \in live' : n[1] # worker.run
    PROVE  Together'
<1>1. WorkerHolds'
  BY DEF JobInv, WorkerHolds, Busy, Here
<1>2. SolverIsAwaited'
  BY DEF SolverIsAwaited, Busy, Here, Name
<1>3. SolverIsNamed'
  BY DEF JobInv, SolverIsNamed
<1>4. RunningIsCarried'
  BY DEF JobInv, RunningIsCarried, Busy
<1>5. RestartGoesFirst'
  BY DEF JobInv, RestartGoesFirst
<1>. QED  BY <1>1, <1>2, <1>3, <1>4, <1>5 DEF Together

(* The run that the worker holds gets another container, or none.          *)
LEMMA WorkerNames ==
    ASSUME JobInv, UNCHANGED <<live, queue, posts, created, cancels, restart>>, Busy,
           worker.at # "solve", NEW container, Rewrites(worker.run, "running", container),
           worker'.run = worker.run, worker'.at \notin {"idle", "claim", "solve"},
           worker'.at = "start" => container = Name'
    PROVE  Together'
<1>w. worker.run \in DOMAIN runs \ restart
  BY DEF JobInv, WorkerHolds, Busy
<1>1. WorkerHolds'
  BY <1>w DEF WorkerHolds, Busy, Here, Rewrites
<1>2. SolverIsAwaited'
  BY DEF JobInv, SolverIsAwaited, Busy, Here, Name, Rewrites
<1>3. SolverIsNamed'
  BY DEF JobInv, SolverIsNamed, SolverIsAwaited, Rewrites
<1>4. RunningIsCarried'
  BY DEF JobInv, RunningIsCarried, Busy, Rewrites
<1>5. RestartGoesFirst'
  BY <1>w DEF JobInv, JobTypeOK, RestartGoesFirst, Rewrites
<1>. QED  BY <1>1, <1>2, <1>3, <1>4, <1>5 DEF Together

(* The run that the worker holds is over.                                  *)
LEMMA WorkerEnds ==
    ASSUME JobInv, Busy, NEW status \in Terminal, End(status)
    PROVE  Together' /\ Rewrites(worker.run, status, NoName)
<1>w. worker.run \in DOMAIN runs \ restart
  BY DEF JobInv, WorkerHolds, Busy
<1>r. Rewrites(worker.run, status, NoName)
  BY <1>w, KnownTypes DEF End, Rewrites
<1>i. /\ worker'.at = "idle" /\ live' = live \ {runs[worker.run].container}
      /\ UNCHANGED <<queue, posts, created, cancels, restart>>
  BY DEF End, Goes, Idle, Here
<1>1. WorkerHolds' /\ SolverIsAwaited'
  BY <1>i DEF WorkerHolds, SolverIsAwaited, Busy
<1>3. SolverIsNamed'
  BY <1>r, <1>i DEF JobInv, SolverIsNamed, Rewrites
<1>4. RunningIsCarried'
  BY <1>r, <1>i DEF JobInv, RunningIsCarried, Rewrites, Terminal
<1>5. RestartGoesFirst'
  BY <1>r, <1>i, <1>w DEF JobInv, JobTypeOK, RestartGoesFirst, Rewrites
<1>. QED  BY <1>1, <1>3, <1>4, <1>5, <1>r DEF Together

LEMMA StepTogether ==
    ASSUME JobInv, [Next]_vars
    PROVE  Together'
<1>t. /\ Together
      /\ runs \in Seq(Run) /\ DOMAIN runs = 1 .. Len(runs)
      /\ \A i \in DOMAIN runs : runs[i] = [key |-> runs[i].key, status |-> runs[i].status,
                                          cancel |-> runs[i].cancel,
                                          container |-> runs[i].container]
      /\ live \subseteq Names /\ NoName \notin Names
      /\ queue \in Seq(DOMAIN runs) /\ restart \subseteq DOMAIN runs
      /\ created \subseteq DOMAIN runs /\ \A c \in cancels : c.run \in DOMAIN runs
      /\ worker = [at |-> worker.at, run |-> worker.run, dir |-> worker.dir,
                   pass |-> worker.pass, exit |-> worker.exit, ready |-> worker.ready]
  BY KnownTypes
<1>e. ASSUME NEW status, status \in Terminal, Busy, End(status)  PROVE Together'
  BY <1>e, WorkerEnds
<1>n. ASSUME NEW pass, worker.at \in {"mesh", "exited"}, NameContainer(pass)  PROVE Together'
  <2>1. Busy /\ worker.run \in DOMAIN runs /\ runs[worker.run].status = "running"
    BY <1>n DEF JobInv, WorkerHolds, Busy, Here
  <2>2. worker' = [worker EXCEPT !.at = "start", !.pass = pass]
    BY <1>n DEF NameContainer, Goes
  <2>3. Rewrites(worker.run, "running", Name')
    BY <1>n, <1>t, <2>1, <2>2 DEF NameContainer, Rewrites, Name
  <2>. QED
    BY <1>n, <1>t, <2>1, <2>2, <2>3, WorkerNames DEF NameContainer, Goes
<1>c. ASSUME worker.at \in {"exited", "post"}, worker'.at \in {"check", "post"},
             worker'.run = worker.run,
             UNCHANGED <<live, queue, posts, created, cancels, restart>>,
             runs' = [runs EXCEPT ![worker.run].container = NoName]
      PROVE  Together'
  <2>1. Busy /\ worker.run \in DOMAIN runs /\ runs[worker.run].status = "running"
    BY <1>c DEF JobInv, WorkerHolds, Busy, Here
  <2>2. Rewrites(worker.run, "running", NoName)
    BY <1>c, <1>t, <2>1 DEF Rewrites
  <2>. QED
    BY <1>c, <2>1, <2>2, WorkerNames
<1>d. ASSUME worker.at \in {"exited", "post"}, NEW ready \in BOOLEAN, DirectionDone(ready)
      PROVE  Together'
  <2>1. CASE worker.dir < Directions
    <3>1. /\ runs' = [runs EXCEPT ![worker.run].container = NoName]
          /\ worker' = [worker EXCEPT !.at = "check", !.dir = @ + 1, !.pass = 0, !.ready = ready]
          /\ UNCHANGED <<live, queue, posts, created, cancels, restart>>
      BY <2>1, <1>d DEF DirectionDone, Goes
    <3>2. worker'.run = worker.run /\ worker'.at = "check"
      BY <3>1, <1>t
    <3>. QED  BY <3>1, <3>2, <1>c, <1>d
  <2>2. CASE ~(worker.dir < Directions)
    BY <2>2, <1>d, <1>e DEF DirectionDone, Terminal, Busy
  <2>. QED  BY <2>1, <2>2
<1>1. ASSUME NEW k \in Keys, Post(k) \/ Refuse(k)  PROVE Together'
  <2>1. restart = {}
    BY <1>1, <1>t DEF Post, Refuse, Together, RestartGoesFirst
  <2>. QED  BY <1>1, <1>t, <2>1, CallsKeep DEF Post, Refuse, store
<1>2. ASSUME NEW k \in Keys, Create(k)  PROVE Together'
  <2>1. restart = {}
    BY <1>2, <1>t DEF Create, Together, RestartGoesFirst
  <2>2. CASE UNCHANGED runs
    BY <1>2, <1>t, <2>1, <2>2, CallsKeep DEF Create
  <2>3. CASE runs' = Append(runs, [key |-> k, status |-> "queued",
                                   cancel |-> FALSE, container |-> NoName])
    <3>1. /\ DOMAIN runs' = DOMAIN runs \union {Len(runs) + 1} /\ Len(runs) + 1 \notin DOMAIN runs
          /\ \A i \in DOMAIN runs : runs'[i] = runs[i]
          /\ runs'[Len(runs) + 1].status = "queued" /\ runs'[Len(runs) + 1].container = NoName
      BY <2>3, <1>t
    <3>2. UNCHANGED <<live, queue, worker, cancels, restart>>
      BY <1>2 DEF Create
    <3>3. WorkerHolds' /\ SolverIsAwaited' /\ SolverIsNamed'
      BY <3>1, <3>2, <1>t
         DEF Together, WorkerHolds, SolverIsAwaited, SolverIsNamed, Busy, Here, Name
    <3>4. RunningIsCarried'
      BY <3>1, <3>2, <1>t DEF Together, RunningIsCarried, Busy
    <3>5. RestartGoesFirst'
      BY <3>2, <2>1 DEF RestartGoesFirst
    <3>. QED  BY <3>3, <3>4, <3>5 DEF Together
  <2>. QED  BY <1>2, <2>2, <2>3 DEF Create
<1>3. ASSUME NEW i \in DOMAIN runs, Enqueue(i)  PROVE Together'
  <2>1. restart = {}
    BY <1>3, <1>t DEF Enqueue, Together, RestartGoesFirst
  <2>2. WorkerHolds' /\ SolverIsAwaited' /\ SolverIsNamed'
    BY <1>3, <1>t DEF Enqueue, store, Together, WorkerHolds, SolverIsAwaited, SolverIsNamed, Busy, Here, Name
  <2>3. RunningIsCarried'
    BY <1>3, <1>t DEF Enqueue, store, Together, RunningIsCarried, Busy
  <2>4. RestartGoesFirst'
    BY <1>3, <2>1 DEF Enqueue, RestartGoesFirst
  <2>. QED  BY <2>2, <2>3, <2>4 DEF Together
<1>4. ASSUME NEW i \in DOMAIN runs, CancelCall(i)  PROVE Together'
  BY <1>4, <1>t, CallsKeep DEF CancelCall, store
<1>5. ASSUME NEW c \in cancels, CancelQueued(c) \/ CancelRunning(c)  PROVE Together'
  <2>1. restart = {} /\ UNCHANGED <<live, queue, worker, restart>>
    BY <1>5, <1>t DEF CancelQueued, CancelRunning, Together, RestartGoesFirst
  <2>2. /\ DOMAIN runs' = DOMAIN runs
        /\ \A j \in DOMAIN runs :
              /\ runs'[j].container = runs[j].container
              /\ \/ runs'[j].status = runs[j].status
                 \/ runs[j].status = "queued" /\ runs'[j].status = "cancelled"
    <3>1. CASE CancelQueued(c)
      <4>1. c.run \in DOMAIN runs
        BY <1>t
      <4>2. CASE /\ runs[c.run].status = "queued"
                 /\ runs' = [runs EXCEPT ![c.run].status = "cancelled", ![c.run].cancel = TRUE]
        BY <4>1, <4>2, <1>t
      <4>. QED  BY <3>1, <4>2 DEF CancelQueued
    <3>2. CASE CancelRunning(c)
      BY <3>2, <1>t DEF CancelRunning
    <3>. QED  BY <1>5, <3>1, <3>2
  <2>3. WorkerHolds'
    BY <2>1, <2>2, <1>t DEF Together, WorkerHolds, Busy, Here
  <2>4. SolverIsAwaited'
    BY <2>1, <2>2, <1>t DEF Together, WorkerHolds, SolverIsAwaited, Busy, Here, Name
  <2>5. SolverIsNamed'
    <3>1. SolverIsNamed
      BY <1>t DEF Together
    <3>. QED  BY <3>1, <2>1, <2>2 DEF SolverIsNamed
  <2>6. RunningIsCarried'
    BY <2>1, <2>2, <1>t DEF Together, RunningIsCarried, Busy
  <2>7. RestartGoesFirst'
    BY <2>1 DEF RestartGoesFirst
  <2>. QED  BY <2>3, <2>4, <2>5, <2>6, <2>7 DEF Together
<1>6. ASSUME NEW c \in cancels, CancelKill(c)  PROVE Together'
  <2>1. restart = {}
    BY <1>6, <1>t DEF Together, RestartGoesFirst
  <2>. QED  BY <1>6, <2>1, <1>t, CallsKeep DEF CancelKill
<1>7. CASE Take
  <2>1. /\ UNCHANGED <<runs, live, posts, created, cancels, restart>>
        /\ ~Busy /\ worker'.at \in {"idle", "claim"}
        /\ worker'.at = "claim" => worker'.run \in DOMAIN runs \ restart
    BY <1>7, <1>t DEF Take, Goes, Idle, store, Busy, Together, RestartGoesFirst
  <2>2. WorkerHolds' /\ SolverIsAwaited' /\ SolverIsNamed'
    BY <2>1, <1>t DEF Together, WorkerHolds, SolverIsAwaited, SolverIsNamed, Busy
  <2>3. RunningIsCarried'
    BY <2>1, <1>t DEF Together, RunningIsCarried, Busy
  <2>4. RestartGoesFirst'
    <3>1. queue # <<>> /\ queue' = Tail(queue)
      BY <1>7 DEF Take
    <3>2. \A j \in DOMAIN queue' : j + 1 \in DOMAIN queue /\ queue'[j] = queue[j + 1]
      BY <3>1, <1>t
    <3>. QED  BY <3>2, <2>1, <1>t DEF Together, RestartGoesFirst
  <2>. QED  BY <2>2, <2>3, <2>4 DEF Together
<1>8. CASE Claim
  <2>1. /\ UNCHANGED <<live, queue, posts, created, cancels, restart>>
        /\ worker.run \in DOMAIN runs \ restart /\ ~Busy
    BY <1>8, <1>t DEF Claim, Goes, Together, WorkerHolds, Busy
  <2>2. CASE UNCHANGED runs /\ worker' = Idle
    <3>1. WorkerHolds' /\ SolverIsAwaited' /\ SolverIsNamed'
      BY <2>1, <2>2, <1>t
         DEF Together, WorkerHolds, SolverIsAwaited, SolverIsNamed, Busy, Idle
    <3>2. RunningIsCarried' /\ RestartGoesFirst'
      BY <2>1, <2>2, <1>t DEF Together, RunningIsCarried, RestartGoesFirst, Busy, Idle
    <3>. QED  BY <3>1, <3>2 DEF Together
  <2>3. CASE /\ Here.status = "queued"
             /\ \/ /\ runs' = [runs EXCEPT ![worker.run].status = "cancelled"]
                   /\ worker' = Idle
                \/ /\ runs' = [runs EXCEPT ![worker.run].status = "running"]
                   /\ worker' = [worker EXCEPT !.at = "preprocess"]
    <3>1. \E status \in {"cancelled", "running"} :
             /\ Rewrites(worker.run, status, NoName)
             /\ IF status = "running"
                THEN worker'.at = "preprocess" /\ worker'.run = worker.run
                ELSE worker'.at = "idle"
      BY <2>1, <2>3, <1>t DEF Rewrites, Here, Idle, Together, RunningIsCarried
    <3>2. \A n \in live : n[1] # worker.run
      BY <2>1, <2>3, <1>t DEF Together, SolverIsNamed, Here
    <3>3. WorkerHolds'
      BY <3>1, <2>1 DEF WorkerHolds, Busy, Here, Rewrites
    <3>4. SolverIsAwaited' /\ SolverIsNamed'
      BY <3>1, <3>2, <2>1, <1>t
         DEF Together, SolverIsAwaited, SolverIsNamed, Busy, Rewrites
    <3>5. RunningIsCarried'
      BY <3>1, <2>1, <1>t DEF Together, RunningIsCarried, Busy, Rewrites
    <3>6. RestartGoesFirst'
      BY <3>1, <2>1, <1>t DEF Together, RestartGoesFirst, Rewrites
    <3>. QED  BY <3>3, <3>4, <3>5, <3>6 DEF Together
  <2>. QED  BY <1>8, <2>2, <2>3 DEF Claim, Goes
<1>9. CASE Preprocess
  BY <1>9, <1>t, WorkerGoesOn DEF Preprocess, Goes, store, Busy, Together, SolverIsAwaited
<1>10. CASE PreprocessFails \/ MeshFails \/ RunnerFails \/ PostprocessFails
  BY <1>10, <1>e DEF PreprocessFails, MeshFails, RunnerFails, PostprocessFails, Terminal, Busy
<1>11. CASE Check
  <2>1. CASE End("cancelled")
    BY <1>11, <2>1, <1>e DEF Check, Terminal, Busy
  <2>2. CASE Goes([worker EXCEPT !.at = "mesh"]) /\ UNCHANGED <<store, queue>>
    BY <1>11, <2>2, <1>t, WorkerGoesOn DEF Check, Goes, store, Busy, Together, SolverIsAwaited
  <2>. QED  BY <1>11, <2>1, <2>2 DEF Check
<1>12. CASE Mesh
  BY <1>12, <1>e, <1>n DEF Mesh, Terminal, Busy
<1>13. CASE Start
  <2>1. /\ UNCHANGED <<runs, queue, posts, created, cancels, restart>>
        /\ worker.at = "start" /\ live' = live \union {Name}
        /\ worker' = [worker EXCEPT !.at = "solve"]
    BY <1>13 DEF Start, Goes
  <2>2. /\ Name = Here.container /\ Name[1] = worker.run /\ Here.status = "running"
        /\ worker.run \in DOMAIN runs \ restart
    BY <2>1, <1>t DEF Together, SolverIsAwaited, WorkerHolds, Busy, Name
  <2>3. WorkerHolds' /\ SolverIsAwaited'
    BY <2>1, <2>2, <1>t DEF WorkerHolds, SolverIsAwaited, Busy, Here, Name
  <2>4. SolverIsNamed'
    BY <2>1, <2>2, <1>t DEF Together, SolverIsNamed, Here
  <2>5. RunningIsCarried'
    BY <2>1, <1>t DEF Together, RunningIsCarried, Busy
  <2>6. RestartGoesFirst'
    BY <2>1, <1>t DEF Together, RestartGoesFirst
  <2>. QED  BY <2>3, <2>4, <2>5, <2>6 DEF Together
<1>14. CASE Solve
  <2>1. /\ UNCHANGED <<runs, queue, posts, created, cancels, restart>>
        /\ worker.at = "solve" /\ live' = live \ {Name}
        /\ worker'.at = "exited" /\ worker'.run = worker.run
    BY <1>14, <1>t DEF Solve, Goes
  <2>2. Name = Here.container /\ \A n \in live : n[1] = worker.run => n = Name
    BY <2>1, <1>t DEF Together, SolverIsAwaited, SolverIsNamed, Here
  <2>. QED  BY <2>1, <2>2, WorkerGoesOn DEF Busy
<1>15. CASE Extend
  BY <1>15, <1>n DEF Extend
<1>16. CASE Exited
  <2>1. CASE End("cancelled")
    BY <1>16, <2>1, <1>e DEF Exited, Terminal, Busy
  <2>2. CASE DirectionDone(worker.ready)
    <3>1. worker.at = "exited" /\ worker.ready \in BOOLEAN
      BY <1>16 DEF Exited, JobInv, JobTypeOK
    <3>. QED  BY <3>1, <2>2, <1>d
  <2>3. CASE /\ runs' = [runs EXCEPT ![worker.run].container = NoName]
             /\ Goes([worker EXCEPT !.at = "post"]) /\ UNCHANGED <<live, queue>>
    <3>1. /\ worker'.run = worker.run /\ worker'.at = "post"
          /\ UNCHANGED <<live, queue, posts, created, cancels, restart>>
      BY <2>3, <1>t DEF Goes
    <3>. QED  BY <1>16, <2>3, <3>1, <1>c DEF Exited
  <2>. QED  BY <1>16, <2>1, <2>2, <2>3 DEF Exited
<1>17. CASE Postprocess
  <2>1. worker.at = "post" /\ \E ready \in BOOLEAN : DirectionDone(ready)
    BY <1>17, Zenon DEF Postprocess
  <2>. QED  BY <2>1, <1>d
<1>18. CASE Crash
  <2>1. /\ UNCHANGED <<runs, live>> /\ queue' = <<>> /\ worker'.at = "idle"
        /\ posts' = [k \in Keys |-> 0] /\ created' = {} /\ cancels' = {}
        /\ restart' = {i \in DOMAIN runs : runs[i].status \notin Terminal}
    BY <1>18 DEF Crash, store, Idle, Unfinished
  <2>2. WorkerHolds' /\ SolverIsAwaited' /\ SolverIsNamed'
    BY <2>1, <1>t DEF Together, WorkerHolds, SolverIsAwaited, SolverIsNamed, Busy
  <2>3. RunningIsCarried'
    BY <2>1, <1>t DEF Together, RunningIsCarried, Terminal
  <2>4. RestartGoesFirst'
    BY <2>1 DEF RestartGoesFirst
  <2>. QED  BY <2>2, <2>3, <2>4 DEF Together
<1>19. ASSUME NEW n \in live, OrphanEnds(n)  PROVE Together'
  BY <1>19, <1>t, CallsKeep DEF OrphanEnds, service
<1>20. ASSUME NEW i \in restart, Reconcile(i)  PROVE Together'
  <2>1. /\ UNCHANGED <<worker, posts, created, cancels>> /\ restart' = restart \ {i}
        /\ i \in DOMAIN runs /\ worker.at # "idle" => worker.run # i
    BY <1>20, <1>t DEF Reconcile, Together, WorkerHolds
  <2>2. CASE runs[i].status = "queued"
    <3>1. queue' = Append(queue, i) /\ UNCHANGED <<runs, live>>
      BY <1>20, <2>2 DEF Reconcile, store
    <3>2. WorkerHolds' /\ SolverIsAwaited' /\ SolverIsNamed'
      BY <3>1, <2>1, <1>t
         DEF Together, WorkerHolds, SolverIsAwaited, SolverIsNamed, Busy, Here, Name
    <3>3. RunningIsCarried'
      BY <3>1, <2>1, <2>2, <1>t DEF Together, RunningIsCarried, Busy
    <3>4. RestartGoesFirst'
      <4>1. \A j \in DOMAIN queue' : queue'[j] = i \/ (j \in DOMAIN queue /\ queue'[j] = queue[j])
        BY <3>1, <1>t
      <4>. QED  BY <4>1, <3>1, <2>1, <1>t DEF Together, RestartGoesFirst
    <3>. QED  BY <3>2, <3>3, <3>4 DEF Together
  <2>3. CASE runs[i].status # "queued"
    <3>1. /\ Rewrites(i, "failed", NoName) /\ live' = live \ {runs[i].container}
          /\ UNCHANGED queue
      BY <1>20, <2>1, <2>3, <1>t DEF Reconcile, Rewrites
    <3>2. WorkerHolds' /\ SolverIsAwaited'
      BY <3>1, <2>1, <1>t
         DEF Together, WorkerHolds, SolverIsAwaited, Busy, Here, Name, Rewrites
    <3>3. SolverIsNamed'
      BY <3>1, <1>t DEF Together, SolverIsNamed, Rewrites
    <3>4. RunningIsCarried'
      BY <3>1, <2>1, <1>t DEF Together, RunningIsCarried, Busy, Rewrites
    <3>5. RestartGoesFirst'
      BY <3>1, <2>1, <1>t DEF Together, RestartGoesFirst, Rewrites
    <3>. QED  BY <3>2, <3>3, <3>4, <3>5 DEF Together
  <2>. QED  BY <2>2, <2>3
<1>21. CASE UNCHANGED vars
  BY <1>21, <1>t, CallsKeep DEF vars, store, service
<1>. QED
  BY <1>1, <1>2, <1>3, <1>4, <1>5, <1>6, <1>7, <1>8, <1>9, <1>10, <1>11, <1>12, <1>13, <1>14,
     <1>15, <1>16, <1>17, <1>18, <1>19, <1>20, <1>21 DEF Next, Work

LEMMA InitJob == Init => JobInv /\ OneRunPerKey
<1>. SUFFICES ASSUME Init PROVE JobInv /\ OneRunPerKey
  OBVIOUS
<1>1. JobTypeOK
  <2>1. /\ worker = [at |-> "idle", run |-> 0, dir |-> 0, pass |-> 0, exit |-> "ok", ready |-> FALSE]
        /\ Len(runs) = 0 /\ DOMAIN runs = {}
    BY DEF Init, Idle
  <2>. QED  BY <2>1, JobAssumption DEF Init, JobTypeOK, Stages
<1>2. StageNumbers /\ Together
  BY DEF Init, Idle, StageNumbers, Together, WorkerHolds, SolverIsAwaited, SolverIsNamed,
         RunningIsCarried, RestartGoesFirst, Busy
<1>3. OneRunPerKey
  BY DEF Init, OneRunPerKey
<1>. QED  BY <1>1, <1>2, <1>3 DEF JobInv, Together

LEMMA JobInvariant == Spec => []JobInv
<1>1. Init => JobInv
  BY InitJob
<1>2. JobInv /\ [Next]_vars => JobInv'
  BY StepTypes, StepTogether DEF JobInv, Together
<1>. QED  BY <1>1, <1>2, PTL DEF Spec

(***************************************************************************)
(* The variables of the job service keep their types.                      *)
(***************************************************************************)
THEOREM JobTypeCorrect == Spec => []JobTypeOK
  BY JobInvariant, PTL DEF JobInv

(***************************************************************************)
(* A container that runs is named by the document of a running run,        *)
(* whatever crashes, cancels or fails.                                     *)
(***************************************************************************)
THEOREM SolverAlwaysNamed == Spec => []SolverIsNamed
  BY JobInvariant, PTL DEF JobInv

(***************************************************************************)
(* There is one solver, once a starting service has gone through what it   *)
(* found: a run that is running has the worker or waits for the restart.   *)
(***************************************************************************)
THEOREM OneSolverAtATime == Spec => []OneSolver
<1>1. JobInv => OneSolver
  <2>. SUFFICES ASSUME JobInv, restart = {}  PROVE Cardinality(live) <= 1
    BY DEF OneSolver
  <2>1. \A m, n \in live : m = n
    BY DEF JobInv, SolverIsNamed, RunningIsCarried
  <2>2. CASE live = {}
    BY <2>2, FS_EmptySet
  <2>3. ASSUME NEW n \in live  PROVE Cardinality(live) <= 1
    <3>1. live = {n}
      BY <2>1
    <3>. QED  BY <3>1, FS_Singleton
  <2>. QED  BY <2>2, <2>3
<1>. QED  BY <1>1, JobInvariant, PTL

(* A step adds the document of a new key, or keeps keys and outcomes.      *)
LEMMA DocumentsChange ==
    ASSUME JobInv, [Next]_vars
    PROVE  \/ /\ DOMAIN runs' = DOMAIN runs
              /\ \A i \in DOMAIN runs :
                    /\ runs'[i].key = runs[i].key
                    /\ runs[i].status \in Terminal => runs'[i].status = runs[i].status
           \/ \E k \in Keys : /\ \A i \in DOMAIN runs : runs[i].key # k
                             /\ runs' = Append(runs, [key |-> k, status |-> "queued",
                                                     cancel |-> FALSE, container |-> NoName])
<1>. DEFINE Kept == /\ DOMAIN runs' = DOMAIN runs
                    /\ \A i \in DOMAIN runs :
                          /\ runs'[i].key = runs[i].key
                          /\ runs[i].status \in Terminal => runs'[i].status = runs[i].status
<1>t. /\ DOMAIN runs = 1 .. Len(runs)
      /\ \A i \in DOMAIN runs : runs[i] = [key |-> runs[i].key, status |-> runs[i].status,
                                          cancel |-> runs[i].cancel,
                                          container |-> runs[i].container]
      /\ restart \subseteq DOMAIN runs /\ \A c \in cancels : c.run \in DOMAIN runs
  BY KnownTypes
<1>u. UNCHANGED runs => Kept
  OBVIOUS
<1>w. /\ worker.at # "idle" => worker.run \in DOMAIN runs
      /\ Busy => runs[worker.run].status \notin Terminal
  BY DEF JobInv, WorkerHolds, Here, Terminal
<1>e. ASSUME NEW status, Busy, End(status)  PROVE Kept
  BY <1>e, <1>t, <1>w DEF End, Busy
<1>n. ASSUME NEW pass, worker.at # "idle", NameContainer(pass)  PROVE Kept
  BY <1>n, <1>t, <1>w DEF NameContainer
<1>c. ASSUME worker.at # "idle", runs' = [runs EXCEPT ![worker.run].container = NoName]
      PROVE  Kept
  BY <1>c, <1>t, <1>w
<1>d. ASSUME Busy, NEW ready, DirectionDone(ready)  PROVE Kept
  BY <1>c, <1>d, <1>e DEF DirectionDone, Busy
<1>1. ASSUME NEW k \in Keys, Create(k), runs' # runs
      PROVE  /\ \A i \in DOMAIN runs : runs[i].key # k
             /\ runs' = Append(runs, [key |-> k, status |-> "queued",
                                     cancel |-> FALSE, container |-> NoName])
  BY <1>1 DEF Create, Replayed, Known
<1>2. ASSUME NEW c \in cancels, CancelQueued(c)  PROVE Kept
  <2>1. CASE /\ runs[c.run].status = "queued"
             /\ runs' = [runs EXCEPT ![c.run].status = "cancelled", ![c.run].cancel = TRUE]
    BY <2>1, <1>t DEF Terminal
  <2>. QED  BY <2>1, <1>2, <1>u DEF CancelQueued
<1>3. ASSUME NEW c \in cancels, CancelRunning(c)  PROVE Kept
  BY <1>3, <1>t DEF CancelRunning
<1>4. CASE Claim
  <2>1. CASE /\ runs[worker.run].status = "queued" /\ worker.run \in DOMAIN runs
             /\ \/ runs' = [runs EXCEPT ![worker.run].status = "cancelled"]
                \/ runs' = [runs EXCEPT ![worker.run].status = "running"]
    BY <2>1, <1>t DEF Terminal
  <2>. QED  BY <2>1, <1>4, <1>u, <1>w DEF Claim, Here
<1>5. CASE \/ PreprocessFails \/ Check \/ Mesh \/ MeshFails \/ RunnerFails
           \/ Extend \/ Exited \/ PostprocessFails
  <2>. SUFFICES Kept
    OBVIOUS
  <2>. QED
    BY <1>5, <1>u, <1>e, <1>n, <1>c, <1>d
       DEF PreprocessFails, Check, Mesh, MeshFails, RunnerFails, Extend, Exited,
           PostprocessFails, store, Busy
<1>6. CASE Postprocess
  <2>1. Busy /\ \E ready \in BOOLEAN : DirectionDone(ready)
    <3>1. \E ready \in BOOLEAN : DirectionDone(ready)
      BY <1>6, Zenon DEF Postprocess
    <3>. QED  BY <1>6, <3>1 DEF Postprocess, Busy
  <2>. QED  BY <2>1, <1>d
<1>7. ASSUME NEW i \in restart, Reconcile(i)  PROVE Kept
  <2>1. i \in DOMAIN runs /\ runs[i].status \notin Terminal
    BY <1>t DEF JobInv, RestartGoesFirst
  <2>2. CASE runs' = [runs EXCEPT ![i].status = "failed", ![i].container = NoName]
    BY <2>1, <2>2, <1>t
  <2>. QED  BY <2>2, <1>7, <1>u DEF Reconcile, store
<1>. QED
  BY <1>u, <1>1, <1>2, <1>3, <1>4, <1>5, <1>6, <1>7
     DEF Next, Work, Post, Refuse, Enqueue, CancelCall, CancelKill, Take, Preprocess, Start,
         Solve, Crash, OrphanEnds, vars, store

(***************************************************************************)
(* One key has one run, however many POSTs are past validation at once.    *)
(***************************************************************************)
THEOREM OneRun == Spec => []OneRunPerKey
<1>1. Init => OneRunPerKey
  BY InitJob
<1>2. JobInv /\ OneRunPerKey /\ [Next]_vars => OneRunPerKey'
  <2>. SUFFICES ASSUME JobInv, OneRunPerKey, [Next]_vars  PROVE OneRunPerKey'
    OBVIOUS
  <2>1. ASSUME NEW k \in Keys, \A i \in DOMAIN runs : runs[i].key # k,
               runs' = Append(runs, [key |-> k, status |-> "queued",
                                     cancel |-> FALSE, container |-> NoName])
        PROVE  OneRunPerKey'
    <3>1. /\ DOMAIN runs' = DOMAIN runs \union {Len(runs) + 1} /\ Len(runs) + 1 \notin DOMAIN runs
          /\ \A i \in DOMAIN runs : runs'[i] = runs[i]
          /\ runs'[Len(runs) + 1].key = k
      BY <2>1, KnownTypes
    <3>. QED  BY <2>1, <3>1 DEF OneRunPerKey
  <2>2. CASE /\ DOMAIN runs' = DOMAIN runs
             /\ \A i \in DOMAIN runs : runs'[i].key = runs[i].key
    BY <2>2 DEF OneRunPerKey
  <2>. QED  BY <2>1, <2>2, DocumentsChange
<1>. QED  BY <1>1, <1>2, JobInvariant, PTL DEF Spec

(***************************************************************************)
(* No step changes the outcome of a run that is over.                      *)
(***************************************************************************)
THEOREM OverForGood == Spec => OverIsOver
<1>1. JobInv /\ [Next]_vars =>
        [\A i \in DOMAIN runs :
            runs[i].status \in Terminal => runs'[i].status = runs[i].status]_vars
  <2>. SUFFICES ASSUME JobInv, [Next]_vars, NEW i \in DOMAIN runs
                PROVE  runs[i].status \in Terminal => runs'[i].status = runs[i].status
    OBVIOUS
  <2>1. ASSUME NEW r, runs' = Append(runs, r)  PROVE runs'[i] = runs[i]
    BY <2>1, KnownTypes
  <2>. QED  BY <2>1, DocumentsChange
<1>. QED  BY <1>1, JobInvariant, PTL DEF Spec, OverIsOver

-----------------------------------------------------------------------------
(***************************************************************************)
(* The findings of a run.                                                  *)
(***************************************************************************)
Places == {"idle", "waiting", "look", "find", "create", "record"}

FindingTypes ==
    /\ issues \in [Findings -> Nat]
    /\ ledger \in [Findings -> Nat]
    /\ disk \in [Findings -> Nat]
    /\ late \in [Findings -> Nat]
    /\ delayed \subseteq Findings
    /\ calls \in [Calls -> [at : Places, plan : Seq(Findings)]]
    /\ lock \in Seq(Calls)

Works(c) == calls[c].at \in {"look", "find", "create", "record"}

(* The lock: an evaluation is in its queue from the request to the end,    *)
(* once, and one that has got past it is the first.                        *)
LockInv ==
    /\ \A c \in Calls : calls[c].at # "idle" <=> \E n \in DOMAIN lock : lock[n] = c
    /\ \A m, n \in DOMAIN lock : lock[m] = lock[n] => m = n
    /\ \A c \in Calls : Works(c) => lock[1] = c

(* What an evaluation knows of its finding at each place.                  *)
Knows(c) ==
    LET n == Current(c)
    IN  calls[c].at \in {"find", "create", "record"} =>
          /\ calls[c].plan # <<>>
          /\ ledger[n] = 0
          /\ calls[c].at = "create" /\ KindOf[n] = "annotation" /\ n \notin delayed
                => issues[n] = 0
          /\ calls[c].at = "record" => issues[n] >= 1

Records ==
    /\ \A n \in Findings :
          /\ ledger[n] <= 1 /\ ledger[n] <= issues[n]
          /\ disk[n] <= 1 /\ disk[n] <= issues[n]
          /\ late[n] > 0 => n \in delayed
    /\ OneAnnotationPerFinding

FindingsInv ==
    /\ FindingTypes
    /\ LockInv
    /\ \A c \in Calls : Knows(c)
    /\ Records

LEMMA QueueFacts ==
    ASSUME FindingTypes, LockInv
    PROVE  /\ Len(lock) \in Nat /\ DOMAIN lock = 1 .. Len(lock)
           /\ \A c, d \in Calls : Works(c) /\ Works(d) => c = d
           /\ \A c \in Calls : calls[c].at # "idle" => lock # <<>> /\ 1 \in DOMAIN lock
           /\ \A c \in Calls : calls[c] \in [at : Places, plan : Seq(Findings)]
  <1>1. Len(lock) \in Nat /\ DOMAIN lock = 1 .. Len(lock)
    BY LenProperties DEF FindingTypes
  <1>2. \A c, d \in Calls : Works(c) /\ Works(d) => c = d
    BY DEF LockInv
  <1>3. ASSUME NEW c \in Calls, calls[c].at # "idle"
        PROVE  lock # <<>> /\ 1 \in DOMAIN lock
    <2>1. PICK n \in DOMAIN lock : lock[n] = c
      BY <1>3 DEF LockInv
    <2>2. 1 \in DOMAIN lock
      BY <1>1, <2>1
    <2>3. lock # <<>>
      BY <2>2
    <2> QED
      BY <2>2, <2>3
  <1> QED
    BY <1>1, <1>2, <1>3 DEF FindingTypes

(* The finding an evaluation works on.                                     *)
LEMMA CurrentFinding ==
    ASSUME FindingTypes, NEW c \in Calls, calls[c].plan # <<>>
    PROVE  /\ Current(c) \in Findings
           /\ Tail(calls[c].plan) \in Seq(Findings)
  <1>1. calls[c].plan \in Seq(Findings)
    BY DEF FindingTypes
  <1> QED
    BY <1>1, HeadTailProperties DEF Current

(* One evaluation moves on while it has the lock.                          *)
LEMMA LockMoves ==
    ASSUME FindingTypes, LockInv, NEW c \in Calls, calls[c].at # "idle", lock[1] = c,
           NEW x \in [at : Places \ {"idle"}, plan : Seq(Findings)],
           calls' = [calls EXCEPT ![c] = x], lock' = lock
    PROVE  /\ LockInv'
           /\ calls' \in [Calls -> [at : Places, plan : Seq(Findings)]]
           /\ calls'[c] = x
           /\ \A d \in Calls \ {c} : calls'[d] = calls[d] /\ ~Works(d)
  <1>1. calls \in [Calls -> [at : Places, plan : Seq(Findings)]]
    BY DEF FindingTypes
  <1>2. x \in [at : Places, plan : Seq(Findings)] /\ x.at # "idle"
    OBVIOUS
  <1>3. calls'[c] = x /\ \A d \in Calls \ {c} : calls'[d] = calls[d]
    BY <1>1
  <1>4. \A d \in Calls \ {c} : ~Works(d)
    BY DEF LockInv
  <1>5. \A d \in Calls : calls'[d].at # "idle" <=> calls[d].at # "idle"
    BY <1>2, <1>3
  <1>6. LockInv'
    BY <1>3, <1>4, <1>5 DEF LockInv, Works
  <1> QED
    BY <1>1, <1>2, <1>3, <1>4, <1>6

(* The call that has the lock ends.                                        *)
LEMMA LockIsReleased ==
    ASSUME FindingTypes, LockInv, NEW c \in Calls, Works(c), Ends(c)
    PROVE  /\ LockInv'
           /\ calls' \in [Calls -> [at : Places, plan : Seq(Findings)]]
           /\ lock' \in Seq(Calls)
           /\ \A d \in Calls : ~Works(d)'
  <1>1. /\ calls \in [Calls -> [at : Places, plan : Seq(Findings)]] /\ lock \in Seq(Calls)
        /\ lock' = Tail(lock) /\ calls' = [calls EXCEPT ![c] = NoEvaluation]
    BY DEF FindingTypes, Ends
  <1>2. /\ lock # <<>> /\ 1 \in DOMAIN lock /\ lock[1] = c
        /\ Len(lock) \in Nat /\ DOMAIN lock = 1 .. Len(lock)
    BY QueueFacts DEF LockInv, Works
  <1>3. NoEvaluation \in [at : Places, plan : Seq(Findings)] /\ NoEvaluation.at = "idle"
    BY DEF NoEvaluation, Places
  <1>4. calls'[c] = NoEvaluation /\ \A d \in Calls \ {c} : calls'[d] = calls[d]
    BY <1>1
  <1>5. \A d \in Calls \ {c} : ~Works(d)
    BY <1>2 DEF LockInv
  <1>6. \A d \in Calls : ~Works(d)'
    BY <1>3, <1>4, <1>5 DEF Works
  <1>7. /\ lock' \in Seq(Calls) /\ Len(lock') = Len(lock) - 1
        /\ \A n \in 1 .. Len(lock') : lock'[n] = lock[n + 1]
    BY <1>1, <1>2, HeadTailProperties
  <1>8. DOMAIN lock' = 1 .. (Len(lock) - 1)
    BY <1>7, LenProperties
  <1>9. \A n \in DOMAIN lock' : /\ n \in Nat /\ n + 1 \in DOMAIN lock /\ n + 1 # 1
                                /\ lock'[n] = lock[n + 1]
    BY <1>2, <1>7, <1>8
  <1>10. \A n \in DOMAIN lock : n # 1 => n - 1 \in DOMAIN lock' /\ lock'[n - 1] = lock[n]
    BY <1>2, <1>7, <1>8
  <1>11. ASSUME NEW d \in Calls
         PROVE  calls'[d].at # "idle" <=> \E n \in DOMAIN lock' : lock'[n] = d
    <2>1. CASE d = c
      <3>1. \A n \in DOMAIN lock' : lock'[n] # c
        BY <1>2, <1>9 DEF LockInv
      <3> QED
        BY <1>3, <1>4, <2>1, <3>1
    <2>2. CASE d # c
      <3>1. calls'[d].at # "idle" <=> \E n \in DOMAIN lock : lock[n] = d
        BY <1>4, <2>2 DEF LockInv
      <3>2. (\E n \in DOMAIN lock : lock[n] = d) => \E n \in DOMAIN lock' : lock'[n] = d
        BY <1>2, <1>10, <2>2
      <3>3. (\E n \in DOMAIN lock' : lock'[n] = d) => \E n \in DOMAIN lock : lock[n] = d
        BY <1>9
      <3> QED
        BY <3>1, <3>2, <3>3
    <2> QED
      BY <2>1, <2>2
  <1>12. ASSUME NEW m \in DOMAIN lock', NEW n \in DOMAIN lock', lock'[m] = lock'[n]
         PROVE  m = n
    <2>1. m + 1 = n + 1
      BY <1>9, <1>12 DEF LockInv
    <2> QED
      BY <1>9, <2>1
  <1>13. LockInv'
    BY <1>6, <1>11, <1>12 DEF LockInv
  <1> QED
    BY <1>1, <1>3, <1>4, <1>6, <1>7, <1>13

(* No evaluation knows anything once none works.                           *)
LEMMA NobodyKnows ==
    ASSUME \A d \in Calls : ~Works(d)'
    PROVE  \A d \in Calls : Knows(d)'
  BY DEF Works, Knows

(* A call that only moves, its records unchanged.                          *)
LEMMA MovesOn ==
    ASSUME FindingsInv, NEW c \in Calls, calls[c].at # "idle", lock[1] = c,
           NEW x \in [at : Places \ {"idle"}, plan : Seq(Findings)],
           calls' = [calls EXCEPT ![c] = x], UNCHANGED <<records, lock, sent>>,
           Knows(c)'
    PROVE  FindingsInv'
  <1>1. /\ LockInv' /\ calls' \in [Calls -> [at : Places, plan : Seq(Findings)]]
        /\ \A d \in Calls \ {c} : calls'[d] = calls[d] /\ ~Works(d)
    BY LockMoves DEF FindingsInv
  <1>2. \A d \in Calls : Knows(d)'
    BY <1>1 DEF Knows, Works
  <1>3. FindingTypes' /\ Records'
    BY <1>1 DEF FindingsInv, FindingTypes, Records, OneAnnotationPerFinding, records, sent
  <1> QED
    BY <1>1, <1>2, <1>3 DEF FindingsInv

(* A call that ends, whatever it leaves in the records.                    *)
LEMMA EndsWith ==
    ASSUME FindingsInv, NEW c \in Calls, Works(c), Ends(c),
           issues' \in [Findings -> Nat], ledger' \in [Findings -> Nat],
           disk' \in [Findings -> Nat], late' \in [Findings -> Nat],
           delayed' \subseteq Findings, Records'
    PROVE  FindingsInv'
  <1>1. /\ LockInv' /\ lock' \in Seq(Calls)
        /\ calls' \in [Calls -> [at : Places, plan : Seq(Findings)]]
        /\ \A d \in Calls : ~Works(d)'
    BY LockIsReleased DEF FindingsInv
  <1>2. FindingTypes'
    BY <1>1 DEF FindingTypes
  <1> QED
    BY <1>1, <1>2, NobodyKnows DEF FindingsInv

LEMMA EvaluateInv ==
    ASSUME FindingAssumption, FindingsInv, NEW c \in Calls, Evaluate(c)
    PROVE  FindingsInv'
  <1>1. PICK plan \in Plans : calls' = [calls EXCEPT ![c] = [at |-> "waiting", plan |-> plan]]
    BY DEF Evaluate
  <1>2. PICK x \in [at : Places, plan : Seq(Findings)] :
              x.at = "waiting" /\ calls' = [calls EXCEPT ![c] = x]
    <2>1. plan \in Seq(Findings)
      BY DEF FindingAssumption
    <2>2. [at |-> "waiting", plan |-> plan] \in [at : Places, plan : Seq(Findings)]
      BY <2>1 DEF Places
    <2> QED
      BY <1>1, <2>2
  <1>3. /\ lock' = Append(lock, c) /\ UNCHANGED <<records, sent>> /\ calls[c].at = "idle"
    BY DEF Evaluate, At
  <1>4. calls \in [Calls -> [at : Places, plan : Seq(Findings)]] /\ lock \in Seq(Calls)
    BY DEF FindingsInv, FindingTypes
  <1>5. /\ calls'[c] = x /\ \A d \in Calls \ {c} : calls'[d] = calls[d]
        /\ calls' \in [Calls -> [at : Places, plan : Seq(Findings)]]
    BY <1>2, <1>4
  <1>6. /\ lock' \in Seq(Calls) /\ Len(lock') = Len(lock) + 1
        /\ \A n \in 1 .. Len(lock) : lock'[n] = lock[n]
        /\ lock'[Len(lock')] = c
    BY <1>3, <1>4, AppendProperties
  <1>7. /\ Len(lock) \in Nat /\ DOMAIN lock = 1 .. Len(lock)
        /\ DOMAIN lock' = 1 .. (Len(lock) + 1)
    BY <1>4, <1>6, LenProperties
  <1>8. /\ \A n \in DOMAIN lock : n \in DOMAIN lock' /\ lock'[n] = lock[n]
        /\ \A n \in DOMAIN lock' : n \in DOMAIN lock \/ n = Len(lock) + 1
        /\ Len(lock) + 1 \in DOMAIN lock' /\ lock'[Len(lock) + 1] = c
    BY <1>6, <1>7
  <1>9. \A n \in DOMAIN lock : lock[n] # c
    BY <1>3 DEF FindingsInv, LockInv
  <1>10. \A d \in Calls : calls'[d].at # "idle" <=> \E n \in DOMAIN lock' : lock'[n] = d
    BY <1>2, <1>5, <1>8 DEF FindingsInv, LockInv
  <1>11. \A m, n \in DOMAIN lock' : lock'[m] = lock'[n] => m = n
    BY <1>8, <1>9 DEF FindingsInv, LockInv
  <1>12. \A d \in Calls : Works(d)' => d # c /\ Works(d)
    BY <1>2, <1>5 DEF Works
  <1>13. \A d \in Calls : Works(d)' => lock'[1] = d
    BY <1>8, <1>12, QueueFacts DEF FindingsInv, LockInv, Works
  <1>14. LockInv'
    BY <1>10, <1>11, <1>13 DEF LockInv
  <1>15. \A d \in Calls : Knows(d)'
    <2>1. \A d \in Calls : Knows(d)
      BY DEF FindingsInv
    <2> QED
      BY <1>2, <1>3, <1>5, <2>1 DEF Knows, Current, records, sent
  <1>16. FindingTypes' /\ Records'
    BY <1>3, <1>5, <1>6
       DEF FindingsInv, FindingTypes, Records, OneAnnotationPerFinding, records, sent
  <1> QED
    BY <1>14, <1>15, <1>16 DEF FindingsInv

(* What holds of a call at its finding.                                    *)
LEMMA AtFinding ==
    ASSUME FindingsInv, NEW c \in Calls, calls[c].at \in {"find", "create", "record"}
    PROVE  /\ Works(c) /\ lock[1] = c /\ Current(c) \in Findings
           /\ ledger[Current(c)] = 0
           /\ calls[c].at = "create" /\ KindOf[Current(c)] = "annotation"
                /\ Current(c) \notin delayed => issues[Current(c)] = 0
           /\ calls[c].at = "record" => issues[Current(c)] >= 1
           /\ calls[c].plan \in Seq(Findings) /\ calls[c].plan # <<>>
  <1>1. Works(c) /\ lock[1] = c
    BY DEF FindingsInv, LockInv, Works
  <1>2. Knows(c)
    BY DEF FindingsInv
  <1>3. calls[c].plan # <<>> /\ calls[c].plan \in Seq(Findings)
    BY <1>2 DEF Knows, FindingsInv, FindingTypes
  <1>4. Current(c) \in Findings
    BY <1>3, CurrentFinding DEF FindingsInv
  <1> QED
    BY <1>1, <1>2, <1>3, <1>4 DEF Knows

(* The place a call goes to, as a value.                                   *)
LEMMA GoesTo ==
    ASSUME FindingsInv, NEW c \in Calls, NEW place \in Places \ {"idle"}, Proceeds(c, place)
    PROVE  \E x \in [at : Places \ {"idle"}, plan : Seq(Findings)] :
              /\ x.at = place /\ x.plan = calls[c].plan
              /\ calls' = [calls EXCEPT ![c] = x]
  <1> DEFINE x == [calls[c] EXCEPT !.at = place]
  <1>1. calls[c] \in [at : Places, plan : Seq(Findings)]
    BY DEF FindingsInv, FindingTypes
  <1>2. x \in [at : Places \ {"idle"}, plan : Seq(Findings)] /\ x.at = place
        /\ x.plan = calls[c].plan
    BY <1>1
  <1>3. calls' = [calls EXCEPT ![c] = x]
    BY DEF Proceeds
  <1> QED
    BY <1>2, <1>3

LEMMA AdvancesTo ==
    ASSUME FindingsInv, NEW c \in Calls, calls[c].plan # <<>>, Advances(c)
    PROVE  \E x \in [at : Places \ {"idle"}, plan : Seq(Findings)] :
              x.at = "look" /\ calls' = [calls EXCEPT ![c] = x]
  <1>1. Tail(calls[c].plan) \in Seq(Findings)
    BY CurrentFinding DEF FindingsInv
  <1>2. [at |-> "look", plan |-> Tail(calls[c].plan)]
           \in [at : Places \ {"idle"}, plan : Seq(Findings)]
    BY <1>1 DEF Places
  <1> QED
    BY <1>2 DEF Advances

LEMMA EnterInv ==
    ASSUME FindingsInv, NEW c \in Calls, Enter(c)
    PROVE  FindingsInv'
  <1>1. /\ calls[c].at = "waiting" /\ Head(lock) = c /\ Proceeds(c, "look")
        /\ UNCHANGED <<records, lock, sent>>
    BY DEF Enter, At
  <1>2. lock[1] = c
    <2>1. lock # <<>>
      BY <1>1, QueueFacts DEF FindingsInv
    <2> QED
      BY <1>1, <2>1, HeadTailProperties DEF FindingsInv, FindingTypes
  <1>3. PICK x \in [at : Places \ {"idle"}, plan : Seq(Findings)] :
              x.at = "look" /\ calls' = [calls EXCEPT ![c] = x]
    BY <1>1, GoesTo DEF Places
  <1>4. Knows(c)'
    <2>1. calls'[c].at = "look"
      BY <1>3 DEF FindingsInv, FindingTypes
    <2> QED
      BY <2>1 DEF Knows
  <1> QED
    BY <1>1, <1>2, <1>3, <1>4, MovesOn

LEMMA LookInv ==
    ASSUME FindingsInv, NEW c \in Calls, Look(c)
    PROVE  FindingsInv'
  <1>1. /\ calls[c].at = "look" /\ UNCHANGED <<records, sent>>
        /\ Works(c) /\ lock[1] = c
        /\ calls \in [Calls -> [at : Places, plan : Seq(Findings)]]
    BY DEF Look, At, Works, FindingsInv, FindingTypes, LockInv
  <1>2. CASE calls[c].plan = <<>> /\ Ends(c)
    <2>1. FindingTypes /\ Records /\ Records'
      BY <1>1 DEF FindingsInv, Records, OneAnnotationPerFinding, records, sent
    <2> QED
      BY <1>1, <1>2, <2>1, EndsWith DEF FindingTypes, records, sent
  <1>3. CASE calls[c].plan # <<>> /\ lock' = lock /\ Advances(c)
    <2>1. PICK x \in [at : Places \ {"idle"}, plan : Seq(Findings)] :
                x.at = "look" /\ calls' = [calls EXCEPT ![c] = x]
      BY <1>3, AdvancesTo
    <2>2. Knows(c)'
      <3>1. calls'[c].at = "look"
        BY <1>1, <2>1
      <3> QED
        BY <3>1 DEF Knows
    <2> QED
      BY <1>1, <1>3, <2>1, <2>2, MovesOn
  <1>4. CASE calls[c].plan # <<>> /\ lock' = lock /\ ledger[Current(c)] <= 0
               /\ Proceeds(c, "find")
    <2>1. PICK x \in [at : Places \ {"idle"}, plan : Seq(Findings)] :
                /\ x.at = "find" /\ x.plan = calls[c].plan
                /\ calls' = [calls EXCEPT ![c] = x]
      BY <1>4, GoesTo DEF Places
    <2>2. Knows(c)'
      <3>1. calls'[c].at = "find" /\ calls'[c].plan = calls[c].plan
        BY <1>1, <2>1
      <3>2. ledger[Current(c)] = 0
        <4>1. Current(c) \in Findings
          BY <1>4, CurrentFinding DEF FindingsInv
        <4>2. ledger[Current(c)] \in Nat
          BY <4>1 DEF FindingsInv, FindingTypes
        <4> QED
          BY <1>4, <4>2
      <3> QED
        BY <1>1, <1>4, <3>1, <3>2 DEF Knows, Current, records
    <2> QED
      BY <1>1, <1>4, <2>1, <2>2, MovesOn
  <1>5. calls[c].plan # <<>> => (ledger[Current(c)] > 0 \/ ledger[Current(c)] <= 0)
    <2>1. calls[c].plan # <<>> => ledger[Current(c)] \in Nat
      BY CurrentFinding DEF FindingsInv, FindingTypes
    <2> QED
      BY <2>1
  <1> QED
    BY <1>2, <1>3, <1>4, <1>5 DEF Look

LEMMA FindInv ==
    ASSUME FindingsInv, NEW c \in Calls, Find(c)
    PROVE  FindingsInv'
  <1>1. calls[c].at = "find" /\ UNCHANGED <<records, lock, sent>>
    BY DEF Find, At
  <1>2. PICK n \in Findings : n = Current(c)
    BY <1>1, AtFinding
  <1>3. PICK place \in {"record", "create"} :
              /\ Proceeds(c, place)
              /\ place = IF KindOf[n] = "annotation" /\ issues[n] > 0
                         THEN "record" ELSE "create"
    BY <1>2 DEF Find
  <1>4. PICK x \in [at : Places \ {"idle"}, plan : Seq(Findings)] :
              /\ x.at = place /\ x.plan = calls[c].plan
              /\ calls' = [calls EXCEPT ![c] = x]
    BY <1>3, GoesTo DEF Places
  <1>5. Knows(c)'
    <2>1. calls'[c].at = place /\ calls'[c].plan = calls[c].plan
      BY <1>4 DEF FindingsInv, FindingTypes
    <2>2. calls[c].plan # <<>> /\ ledger[n] = 0
      BY <1>1, <1>2, AtFinding
    <2>3. issues[n] \in Nat
      BY DEF FindingsInv, FindingTypes
    <2>4. /\ place = "create" /\ KindOf[n] = "annotation" => issues[n] = 0
          /\ place = "record" => issues[n] >= 1
      BY <1>3, <2>3
    <2> QED
      BY <1>1, <1>2, <2>1, <2>2, <2>4 DEF Knows, Current, records, sent
  <1> QED
    BY <1>1, <1>4, <1>5, AtFinding, MovesOn

(* One more issue of the finding that is being opened.                     *)
LEMMA OpenedRecords ==
    ASSUME FindingsInv, NEW n \in Findings, Opened(n),
           n \in delayed \/ (KindOf[n] = "annotation" => issues[n] = 0)
    PROVE  /\ issues' \in [Findings -> Nat]
           /\ issues'[n] >= 1
           /\ \A m \in Findings : issues[m] <= issues'[m]
           /\ \A m \in Findings \ delayed : KindOf[m] = "annotation" => issues'[m] <= 1
  <1>1. issues \in [Findings -> Nat] /\ issues' = [issues EXCEPT ![n] = @ + 1]
    BY DEF FindingsInv, FindingTypes, Opened
  <1>2. issues[n] \in Nat /\ issues'[n] = issues[n] + 1
        /\ \A m \in Findings \ {n} : issues'[m] = issues[m]
    BY <1>1
  <1>3. \A m \in Findings : issues[m] \in Nat
    BY <1>1
  <1>4. \A m \in Findings \ delayed : KindOf[m] = "annotation" => issues[m] <= 1
    BY DEF FindingsInv, Records, OneAnnotationPerFinding
  <1>5. issues[n] + 1 \in Nat
    BY <1>2
  <1> QED
    BY <1>1, <1>2, <1>3, <1>4, <1>5

LEMMA CreateInv ==
    ASSUME FindingsInv, NEW c \in Calls, CreateIssue(c)
    PROVE  FindingsInv'
  <1>1. /\ calls[c].at = "create" /\ Opened(Current(c)) /\ Proceeds(c, "record")
        /\ UNCHANGED <<ledger, disk, lock, sent>>
    BY DEF CreateIssue, At
  <1>2. PICK n \in Findings : n = Current(c)
    BY <1>1, AtFinding
  <1>3. /\ issues' \in [Findings -> Nat] /\ issues'[n] >= 1
        /\ \A m \in Findings : issues[m] <= issues'[m]
        /\ \A m \in Findings \ delayed : KindOf[m] = "annotation" => issues'[m] <= 1
    BY <1>1, <1>2, AtFinding, OpenedRecords
  <1>4. PICK x \in [at : Places \ {"idle"}, plan : Seq(Findings)] :
              /\ x.at = "record" /\ x.plan = calls[c].plan
              /\ calls' = [calls EXCEPT ![c] = x]
    BY <1>1, GoesTo DEF Places
  <1>5. /\ LockInv' /\ calls' \in [Calls -> [at : Places, plan : Seq(Findings)]]
        /\ calls'[c] = x
        /\ \A d \in Calls \ {c} : calls'[d] = calls[d] /\ ~Works(d)
    BY <1>1, <1>4, AtFinding, LockMoves DEF FindingsInv
  <1>6. Knows(c)'
    <2>1. calls[c].plan # <<>> /\ ledger[n] = 0
      BY <1>1, <1>2, AtFinding
    <2> QED
      BY <1>1, <1>2, <1>3, <1>4, <1>5, <2>1 DEF Knows, Current
  <1>7. \A d \in Calls : Knows(d)'
    BY <1>5, <1>6 DEF Knows, Works
  <1>8. FindingTypes'
    BY <1>1, <1>3, <1>5 DEF FindingsInv, FindingTypes, sent
  <1>9. Records'
    <2>1. \A m \in Findings : /\ issues[m] \in Nat /\ ledger[m] \in Nat
                              /\ disk[m] \in Nat /\ issues'[m] \in Nat
      BY <1>3 DEF FindingsInv, FindingTypes
    <2> QED
      BY <1>1, <1>3, <2>1 DEF FindingsInv, Records, OneAnnotationPerFinding, sent
  <1> QED
    BY <1>5, <1>7, <1>8, <1>9 DEF FindingsInv

(* The ways in which an evaluation fails.                                  *)
LEMMA FailInv ==
    ASSUME FindingsInv, NEW c \in Calls,
           FindFails(c) \/ CreateRefused(c) \/ CreateFails(c) \/ RecordFails(c)
    PROVE  FindingsInv'
  <1>1. Ends(c) /\ calls[c].at \in {"find", "create", "record"}
    BY DEF FindFails, CreateRefused, CreateFails, RecordFails, Fails, At
  <1>2. /\ Works(c) /\ FindingTypes /\ Records
    BY <1>1, AtFinding DEF FindingsInv
  <1>3. PICK n \in Findings : n = Current(c)
    BY <1>1, AtFinding
  <1>4. \A m \in Findings : /\ issues[m] \in Nat /\ ledger[m] \in Nat
                            /\ disk[m] \in Nat /\ late[m] \in Nat
    BY <1>2 DEF FindingTypes
  <1>5. CASE UNCHANGED <<records, sent>>
    <2>1. Records'
      BY <1>2, <1>5 DEF Records, OneAnnotationPerFinding, records, sent
    <2> QED
      BY <1>1, <1>2, <1>5, <2>1, EndsWith DEF FindingTypes, records, sent
  <1>6. CASE /\ calls[c].at = "create" /\ Opened(n)
             /\ UNCHANGED <<ledger, disk, sent>>
    <2>1. /\ issues' \in [Findings -> Nat]
          /\ \A m \in Findings : issues[m] <= issues'[m]
          /\ \A m \in Findings \ delayed : KindOf[m] = "annotation" => issues'[m] <= 1
      BY <1>3, <1>6, AtFinding, OpenedRecords
    <2>2. Records'
      BY <1>2, <1>4, <1>6, <2>1 DEF Records, OneAnnotationPerFinding, sent
    <2> QED
      BY <1>1, <1>2, <1>6, <2>1, <2>2, EndsWith DEF FindingTypes, sent
  <1>7. CASE /\ late' = [late EXCEPT ![n] = @ + 1]
             /\ delayed' = delayed \union {n}
             /\ UNCHANGED <<issues, ledger, disk>>
    <2>1. late[n] + 1 \in Nat
      BY <1>4
    <2>2. /\ late' \in [Findings -> Nat] /\ delayed' \subseteq Findings
          /\ \A m \in Findings \ {n} : late'[m] = late[m]
      BY <1>2, <1>7, <2>1 DEF FindingTypes
    <2>3. Records'
      BY <1>2, <1>7, <2>2 DEF Records, OneAnnotationPerFinding
    <2> QED
      BY <1>1, <1>2, <1>7, <2>2, <2>3, EndsWith DEF FindingTypes
  <1>8. CASE /\ calls[c].at = "record"
             /\ ledger' = [ledger EXCEPT ![n] = @ + 1]
             /\ UNCHANGED <<issues, disk, sent>>
    <2>1. ledger[n] = 0 /\ issues[n] >= 1
      BY <1>3, <1>8, AtFinding
    <2>2. /\ ledger' \in [Findings -> Nat] /\ ledger'[n] = 1
          /\ \A m \in Findings \ {n} : ledger'[m] = ledger[m]
      BY <1>2, <1>8, <2>1 DEF FindingTypes
    <2>3. Records'
      BY <1>2, <1>4, <1>8, <2>1, <2>2 DEF Records, OneAnnotationPerFinding, sent
    <2> QED
      BY <1>1, <1>2, <1>8, <2>2, <2>3, EndsWith DEF FindingTypes, sent
  <1>9. CASE CreateFails(c)
    <2>1. calls[c].at = "create" /\ UNCHANGED <<ledger, disk>>
      BY <1>9 DEF CreateFails, At
    <2> QED
      BY <1>3, <1>5, <1>6, <1>7, <1>9, <2>1 DEF CreateFails, records, sent
  <1>10. CASE FindFails(c) \/ CreateRefused(c)
    BY <1>5, <1>10 DEF FindFails, CreateRefused
  <1>11. CASE RecordFails(c)
    BY <1>3, <1>8, <1>11 DEF RecordFails, At
  <1> QED
    BY <1>9, <1>10, <1>11

LEMMA RecordInv ==
    ASSUME FindingsInv, NEW c \in Calls, Record(c)
    PROVE  FindingsInv'
  <1>1. /\ calls[c].at = "record" /\ Advances(c) /\ disk' = ledger'
        /\ ledger' = [ledger EXCEPT ![Current(c)] = @ + 1]
        /\ UNCHANGED <<issues, lock, sent>>
    BY DEF Record, At
  <1>2. PICK n \in Findings : n = Current(c)
    BY <1>1, AtFinding
  <1>3. /\ lock[1] = c /\ calls[c].plan # <<>> /\ ledger[n] = 0 /\ issues[n] >= 1
    BY <1>1, <1>2, AtFinding
  <1>4. PICK x \in [at : Places \ {"idle"}, plan : Seq(Findings)] :
              x.at = "look" /\ calls' = [calls EXCEPT ![c] = x]
    BY <1>1, <1>3, AdvancesTo
  <1>5. /\ LockInv' /\ calls' \in [Calls -> [at : Places, plan : Seq(Findings)]]
        /\ calls'[c] = x
        /\ \A d \in Calls \ {c} : calls'[d] = calls[d] /\ ~Works(d)
    BY <1>1, <1>3, <1>4, LockMoves DEF FindingsInv
  <1>6. \A d \in Calls : Knows(d)'
    BY <1>4, <1>5 DEF Knows, Works
  <1>7. /\ ledger' \in [Findings -> Nat] /\ ledger'[n] = 1
        /\ \A m \in Findings \ {n} : ledger'[m] = ledger[m]
    BY <1>1, <1>2, <1>3 DEF FindingsInv, FindingTypes
  <1>8. FindingTypes'
    BY <1>1, <1>5, <1>7 DEF FindingsInv, FindingTypes, sent
  <1>9. Records'
    BY <1>1, <1>3, <1>7 DEF FindingsInv, Records, OneAnnotationPerFinding, sent
  <1> QED
    BY <1>5, <1>6, <1>8, <1>9 DEF FindingsInv

LEMMA LateInv ==
    ASSUME FindingsInv, NEW n \in Findings, CarriedOutLate(n)
    PROVE  FindingsInv'
  <1>1. /\ late[n] > 0 /\ late' = [late EXCEPT ![n] = @ - 1] /\ Opened(n)
        /\ UNCHANGED <<ledger, disk, calls, lock, delayed>>
    BY DEF CarriedOutLate
  <1>2. n \in delayed /\ late[n] \in Nat /\ late[n] - 1 \in Nat
    <2>1. n \in delayed /\ late[n] \in Nat
      BY <1>1 DEF FindingsInv, FindingTypes, Records
    <2> QED
      BY <1>1, <2>1
  <1>3. /\ issues' \in [Findings -> Nat]
        /\ \A m \in Findings : issues[m] <= issues'[m]
        /\ \A m \in Findings \ delayed : KindOf[m] = "annotation" => issues'[m] <= 1
    BY <1>1, <1>2, OpenedRecords
  <1>4. /\ late' \in [Findings -> Nat] /\ \A m \in Findings \ {n} : late'[m] = late[m]
        /\ \A m \in Findings \ {n} : issues'[m] = issues[m]
    BY <1>1, <1>2 DEF Opened, FindingsInv, FindingTypes
  <1>5. \A m \in Findings : /\ issues[m] \in Nat /\ issues'[m] \in Nat
                            /\ ledger[m] \in Nat /\ disk[m] \in Nat
    BY <1>3 DEF FindingsInv, FindingTypes
  <1>6. FindingTypes' /\ LockInv'
    BY <1>1, <1>3, <1>4 DEF FindingsInv, FindingTypes, LockInv, Works
  <1>7. Records'
    BY <1>1, <1>2, <1>3, <1>4, <1>5 DEF FindingsInv, Records, OneAnnotationPerFinding
  <1>8. ASSUME NEW d \in Calls
        PROVE  Knows(d)'
    <2> SUFFICES ASSUME calls[d].at \in {"find", "create", "record"}
                 PROVE  Knows(d)'
      BY <1>1 DEF Knows
    <2>1. PICK m \in Findings : m = Current(d)
      BY AtFinding
    <2>2. /\ calls[d].plan # <<>> /\ ledger[m] = 0
          /\ calls[d].at = "create" /\ KindOf[m] = "annotation"
               /\ m \notin delayed => issues[m] = 0
          /\ calls[d].at = "record" => issues[m] >= 1
      BY <2>1, AtFinding
    <2>3. /\ m \notin delayed => issues'[m] = issues[m]
          /\ issues[m] >= 1 => issues'[m] >= 1
      BY <1>2, <1>3, <1>4, <1>5
    <2> QED
      BY <1>1, <2>1, <2>2, <2>3 DEF Knows, Current
  <1> QED
    BY <1>6, <1>7, <1>8 DEF FindingsInv

LEMMA CrashInv ==
    ASSUME FindingsInv, Restart
    PROVE  FindingsInv'
  <1>1. /\ calls' = [c \in Calls |-> NoEvaluation] /\ lock' = <<>>
        /\ ledger' \in {disk, [n \in Findings |-> 0]} /\ disk' = ledger'
        /\ UNCHANGED sent
    BY DEF Restart
  <1>2. NoEvaluation \in [at : Places, plan : Seq(Findings)] /\ NoEvaluation.at = "idle"
    BY DEF NoEvaluation, Places
  <1>3. /\ LockInv' /\ \A d \in Calls : ~Works(d)'
        /\ calls' \in [Calls -> [at : Places, plan : Seq(Findings)]]
        /\ lock' \in Seq(Calls)
    BY <1>1, <1>2 DEF LockInv, Works
  <1>4. /\ issues \in [Findings -> Nat] /\ disk \in [Findings -> Nat] /\ Records
    BY DEF FindingsInv, FindingTypes
  <1>5. /\ ledger' \in [Findings -> Nat]
        /\ \A m \in Findings : ledger'[m] <= 1 /\ ledger'[m] <= issues[m]
    BY <1>1, <1>4 DEF Records
  <1>6. /\ issues' \in [Findings -> Nat]
        /\ \A m \in Findings : issues[m] <= issues'[m]
        /\ \A m \in Findings \ delayed : KindOf[m] = "annotation" => issues'[m] <= 1
    <2>1. CASE UNCHANGED issues
      BY <1>4, <2>1 DEF Records, OneAnnotationPerFinding
    <2>2. ASSUME NEW c \in Calls, At(c, "create"), Opened(Current(c))
          PROVE  /\ issues' \in [Findings -> Nat]
                 /\ \A m \in Findings : issues[m] <= issues'[m]
                 /\ \A m \in Findings \ delayed : KindOf[m] = "annotation" => issues'[m] <= 1
      BY <2>2, AtFinding, OpenedRecords DEF At
    <2> QED
      BY <2>1, <2>2 DEF Restart
  <1>7. FindingTypes'
    BY <1>1, <1>3, <1>5, <1>6 DEF FindingsInv, FindingTypes, sent
  <1>8. Records'
    <2>1. \A m \in Findings : issues[m] \in Nat /\ issues'[m] \in Nat /\ ledger'[m] \in Nat
      BY <1>4, <1>5, <1>6
    <2> QED
      BY <1>1, <1>4, <1>5, <1>6, <2>1 DEF Records, OneAnnotationPerFinding, sent
  <1> QED
    BY <1>3, <1>7, <1>8, NobodyKnows DEF FindingsInv

LEMMA FindingsStep ==
    ASSUME FindingAssumption, FindingsInv, [FindingNext]_findingVars
    PROVE  FindingsInv'
  <1>1. CASE \E c \in Calls : Evaluate(c)
    BY <1>1, EvaluateInv
  <1>2. ASSUME NEW c \in Calls, Continue(c)
        PROVE  FindingsInv'
    BY <1>2, EnterInv, LookInv, FindInv, CreateInv, FailInv, RecordInv DEF Continue
  <1>3. CASE \E n \in Findings : CarriedOutLate(n)
    BY <1>3, LateInv
  <1>4. CASE Restart
    BY <1>4, CrashInv
  <1>5. CASE UNCHANGED findingVars
    BY <1>5 DEF findingVars, records, sent, FindingsInv, FindingTypes, LockInv, Works, Knows,
                Current, Records, OneAnnotationPerFinding
  <1> QED
    BY <1>1, <1>2, <1>3, <1>4, <1>5 DEF FindingNext

LEMMA FindingsInit ==
    ASSUME FindingInit
    PROVE  FindingsInv
  <1>1. NoEvaluation \in [at : Places, plan : Seq(Findings)] /\ NoEvaluation.at = "idle"
    BY DEF NoEvaluation, Places
  <1>2. FindingTypes
    BY <1>1 DEF FindingInit, FindingTypes
  <1>3. LockInv
    BY <1>1 DEF FindingInit, LockInv, Works
  <1>4. (\A c \in Calls : Knows(c)) /\ Records
    BY <1>1 DEF FindingInit, Knows, Records, OneAnnotationPerFinding
  <1> QED
    BY <1>2, <1>3, <1>4 DEF FindingsInv

(***************************************************************************)
(* A finding that governance stores as an annotation has one issue at most *)
(* through concurrent and repeated evaluations, lost replies, writes that  *)
(* fail, a lost ledger and restarts, for any findings, plans and number of *)
(* evaluations (evaluateFindings).                                         *)
(***************************************************************************)
THEOREM AnnotatedOnce ==
    ASSUME FindingAssumption
    PROVE  FindingSpec => []OneAnnotationPerFinding
  <1>1. FindingsInv => OneAnnotationPerFinding
    BY DEF FindingsInv, Records
  <1> QED
    BY <1>1, FindingsInit, FindingsStep, PTL DEF FindingSpec

(***************************************************************************)
(* The ledger tells of a finding once, and of none without an issue        *)
(* (addFinding after createIssue or findAnnotation).                       *)
(***************************************************************************)
THEOREM RecordedHasIssue ==
    ASSUME FindingAssumption
    PROVE  FindingSpec => []RecordedIsOpened
  <1>1. FindingsInv => RecordedIsOpened
    BY DEF FindingsInv, Records, RecordedIsOpened
  <1> QED
    BY <1>1, FindingsInit, FindingsStep, PTL DEF FindingSpec

=============================================================================
