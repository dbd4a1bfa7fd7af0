----------------------------- MODULE CfdFindings -----------------------------
(***************************************************************************)
(* The findings of a CFD run (CfdRunWorkflow.evaluateFindings over the CFD *)
(* run ledger and the issues of the governance service): every element and *)
(* every direction that exceeds the threshold gets one governance issue,   *)
(* which the ledger of the coordinator records.                            *)
(*                                                                         *)
(* One ready run and one threshold.  A finding is an element or a          *)
(* direction together with the model binding of the evaluation, and a plan *)
(* is what one evaluation goes through: elements by guid, then directions. *)
(* Governance stores a direction as an annotation, an element of a bound   *)
(* model as an issue, and refuses an element without a model binding.      *)
(***************************************************************************)
EXTENDS Integers, Sequences, FiniteSets

CONSTANTS
    Findings,
    KindOf,         \* finding -> what governance makes of it
    Plans,          \* sequences of findings
    Calls,          \* evaluations
    MaxEvaluations, \* bound: evaluations
    MaxTroubles,    \* bound: failing or unanswered requests and writes
    MaxLate,        \* bound: requests carried out after they timed out
    MaxRestarts     \* bound: restarts of the coordinator

ASSUME FindingAssumption ==
    /\ KindOf \in [Findings -> {"annotation", "issue", "refused"}]
    /\ Plans \subseteq Seq(Findings)
    /\ MaxEvaluations \in Nat /\ MaxTroubles \in Nat /\ MaxLate \in Nat /\ MaxRestarts \in Nat

VARIABLES
    issues,     \* finding -> issues in governance
    ledger,     \* finding -> entries in the ledger
    disk,       \* the same, in the ledger's file
    calls,      \* evaluation -> where it is, on which finding
    lock,       \* evaluations that hold or await the lock of the run
    late,       \* finding -> requests governance has still to carry out
    delayed,    \* findings that had such a request
    evaluations,
    troubles,
    restarts

records == <<issues, ledger, disk>>
findingBounds == <<evaluations, troubles, restarts>>
sent == <<late, delayed>>
findingVars == <<records, calls, lock, sent, findingBounds>>

NoEvaluation == [at |-> "idle", plan |-> <<>>]

FindingInit ==
    /\ issues = [n \in Findings |-> 0]
    /\ ledger = [n \in Findings |-> 0]
    /\ disk = [n \in Findings |-> 0]
    /\ calls = [c \in Calls |-> NoEvaluation]
    /\ lock = <<>>
    /\ late = [n \in Findings |-> 0]
    /\ delayed = {}
    /\ evaluations = 0
    /\ troubles = 0
    /\ restarts = 0

At(c, place) == calls[c].at = place
Proceeds(c, place) == calls' = [calls EXCEPT ![c].at = place]
Current(c) == Head(calls[c].plan)

(* The evaluation turns to its next finding.                               *)
Advances(c) ==
    calls' = [calls EXCEPT ![c] = [at |-> "look", plan |-> Tail(calls[c].plan)]]

Trouble == troubles < MaxTroubles /\ troubles' = troubles + 1

-----------------------------------------------------------------------------
(* The result is read and every direction is classified, then the lock of  *)
(* the run is asked for (withRunLock).                                     *)
Evaluate(c) ==
    /\ At(c, "idle")
    /\ evaluations < MaxEvaluations
    /\ evaluations' = evaluations + 1
    /\ lock' = Append(lock, c)
    /\ \E plan \in Plans : calls' = [calls EXCEPT ![c] = [at |-> "waiting", plan |-> plan]]
    /\ UNCHANGED <<records, sent, troubles, restarts>>

(* Mutant: evaluations of one run are not serialized.                      *)
MutEnter(c) ==
    /\ At(c, "waiting")
    /\ Proceeds(c, "look")
    /\ UNCHANGED <<records, lock, sent, findingBounds>>

Enter(c) ==
    /\ At(c, "waiting")
    /\ Head(lock) = c
    /\ Proceeds(c, "look")
    /\ UNCHANGED <<records, lock, sent, findingBounds>>

(* The call, which holds the lock, is over and its lock is released.       *)
Ends(c) ==
    /\ calls' = [calls EXCEPT ![c] = NoEvaluation]
    /\ lock' = Tail(lock)

(* Mutant: the lock is released by an evaluation that succeeds only.       *)
MutFails(c) ==
    /\ Trouble
    /\ calls' = [calls EXCEPT ![c] = NoEvaluation]
    /\ UNCHANGED <<lock, evaluations, restarts>>

(* An evaluation that fails, governance_unavailable or an error.           *)
Fails(c) ==
    /\ Trouble
    /\ Ends(c)
    /\ UNCHANGED <<evaluations, restarts>>

(* Mutant: only what is missing in the file is looked for in governance.   *)
MutLook(c) ==
    /\ At(c, "look")
    /\ \/ calls[c].plan = <<>> /\ Ends(c)
       \/ /\ calls[c].plan # <<>>
          /\ IF disk[Current(c)] > 0 THEN Advances(c) ELSE Proceeds(c, "find")
          /\ UNCHANGED lock
    /\ UNCHANGED <<records, sent, findingBounds>>

(* The next finding: recorded already, or to be opened.                    *)
Look(c) ==
    /\ At(c, "look")
    /\ \/ calls[c].plan = <<>> /\ Ends(c)
       \/ /\ calls[c].plan # <<>>
          /\ IF ledger[Current(c)] > 0 THEN Advances(c) ELSE Proceeds(c, "find")
          /\ UNCHANGED lock
    /\ UNCHANGED <<records, sent, findingBounds>>

(* Mutant: the issue is opened without a look at governance.               *)
MutFind(c) ==
    /\ At(c, "find")
    /\ Proceeds(c, "create")
    /\ UNCHANGED <<records, lock, sent, findingBounds>>

(* findAnnotation: only annotations are listed.                            *)
Find(c) ==
    LET n == Current(c)
    IN  /\ At(c, "find")
        /\ Proceeds(c, IF KindOf[n] = "annotation" /\ issues[n] > 0 THEN "record" ELSE "create")
        /\ UNCHANGED <<records, lock, sent, findingBounds>>

FindFails(c) ==
    /\ At(c, "find")
    /\ Fails(c)
    /\ UNCHANGED <<records, sent>>

Opened(n) == KindOf[n] # "refused" /\ issues' = [issues EXCEPT ![n] = @ + 1]

(* createIssue and its reply.                                              *)
CreateIssue(c) ==
    /\ At(c, "create")
    /\ Opened(Current(c))
    /\ Proceeds(c, "record")
    /\ UNCHANGED <<ledger, disk, lock, sent, findingBounds>>

(* 422: the evaluation ends with what it has opened so far.                *)
CreateRefused(c) ==
    /\ At(c, "create")
    /\ KindOf[Current(c)] = "refused"
    /\ Ends(c)
    /\ UNCHANGED <<records, sent, findingBounds>>

(* The request fails, or it is carried out and its reply is lost, or it is *)
(* carried out after the call has given up.                                *)
CreateFails(c) ==
    /\ At(c, "create")
    /\ Fails(c)
    /\ \/ UNCHANGED <<issues, sent>>
       \/ Opened(Current(c)) /\ UNCHANGED sent
       \/ /\ KindOf[Current(c)] # "refused"
          /\ late[Current(c)] < MaxLate
          /\ late' = [late EXCEPT ![Current(c)] = @ + 1]
          /\ delayed' = delayed \union {Current(c)}
          /\ UNCHANGED issues
    /\ UNCHANGED <<ledger, disk>>

CarriedOutLate(n) ==
    /\ late[n] > 0
    /\ late' = [late EXCEPT ![n] = @ - 1]
    /\ Opened(n)
    /\ UNCHANGED <<ledger, disk, calls, lock, delayed, findingBounds>>

(* addFinding: the entry, and the whole ledger to its file.                *)
Record(c) ==
    /\ At(c, "record")
    /\ ledger' = [ledger EXCEPT ![Current(c)] = @ + 1]
    /\ disk' = ledger'
    /\ Advances(c)
    /\ UNCHANGED <<issues, lock, sent, findingBounds>>

(* The file cannot be written: the entry is in memory, the call fails.     *)
RecordFails(c) ==
    /\ At(c, "record")
    /\ ledger' = [ledger EXCEPT ![Current(c)] = @ + 1]
    /\ Fails(c)
    /\ UNCHANGED <<issues, disk, sent>>

(* A restart of the coordinator, after which the ledger is what its file   *)
(* tells, or nothing if that cannot be read.  A request that was sent may  *)
(* have been carried out.                                                  *)
Restart ==
    /\ restarts < MaxRestarts
    /\ restarts' = restarts + 1
    /\ calls' = [c \in Calls |-> NoEvaluation]
    /\ lock' = <<>>
    /\ ledger' \in {disk, [n \in Findings |-> 0]}
    /\ disk' = ledger'
    /\ \/ UNCHANGED issues
       \/ \E c \in Calls : At(c, "create") /\ Opened(Current(c))
    /\ UNCHANGED <<sent, evaluations, troubles>>

Continue(c) ==
    \/ Enter(c) \/ Look(c)
    \/ Find(c) \/ FindFails(c)
    \/ CreateIssue(c) \/ CreateRefused(c) \/ CreateFails(c)
    \/ Record(c) \/ RecordFails(c)

FindingNext ==
    \/ \E c \in Calls : Evaluate(c) \/ Continue(c)
    \/ \E n \in Findings : CarriedOutLate(n)
    \/ Restart

FindingSpec == FindingInit /\ [][FindingNext]_findingVars

(* A call goes on: every request is answered or times out.                 *)
FairFindingSpec == FindingSpec /\ \A c \in Calls : WF_findingVars(Continue(c))

-----------------------------------------------------------------------------
(***************************************************************************)
(* A finding that governance stores as an annotation has one issue at      *)
(* most, through concurrent and repeated evaluations, lost replies, writes *)
(* that fail, a ledger that is lost and restarts.  (Not where a request is *)
(* carried out after the call that sent it has given up.)                  *)
(***************************************************************************)
OneAnnotationPerFinding ==
    \A n \in Findings \ delayed : KindOf[n] = "annotation" => issues[n] <= 1

(***************************************************************************)
(* The ledger tells of a finding once, and of none that governance does    *)
(* not have an issue for.                                                  *)
(***************************************************************************)
RecordedIsOpened == \A n \in Findings : ledger[n] <= 1 /\ ledger[n] <= issues[n]

(***************************************************************************)
(* Every evaluation is answered: no failure leaves the lock of the run     *)
(* taken.                                                                  *)
(***************************************************************************)
EveryEvaluationEnds == \A c \in Calls : ~At(c, "idle") ~> At(c, "idle")

(***************************************************************************)
(* What CONTEXT.md:53 and the port of the governance issues promise: at    *)
(* most one governance issue per finding of a run, whatever its kind; an   *)
(* issue whose reply was lost is recovered.                                *)
(***************************************************************************)
OneIssuePerFinding == \A n \in Findings : issues[n] <= 1

=============================================================================
