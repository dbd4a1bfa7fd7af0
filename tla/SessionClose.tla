---------------------------- MODULE SessionClose ----------------------------
(***************************************************************************)
(* Closing a review session (app.ts closeReviewSessionInternal), across    *)
(* failing writes, crashes, restarts and repeated calls.                   *)
(*                                                                         *)
(* A close writes the session file and the session's event file in turn;   *)
(* the close checkpoint in the session file names the events that belong   *)
(* to it, so that a later call can tell what an interrupted one has done.  *)
(* A call is made by the close route with the browser's final events, by   *)
(* the idle reclaimer (sessionIdleReclaimService.ts) or by the recovery at *)
(* startup, both without final events.  The call runs to its end without   *)
(* yielding: only its own failure or a crash of the process interrupts it, *)
(* between any two writes or in the middle of one.                         *)
(*                                                                         *)
(* Writing the session file is atomic (temporary file and rename).  An     *)
(* appended event may be cut off in the middle of its line: the line of    *)
(* the next event then continues it, and the reader skips the whole line.  *)
(***************************************************************************)
EXTENDS Integers, Sequences, FiniteSets, SequencesExt

CONSTANTS
    FinalEvents,    \* the final_events arrays of close requests
    MaxCuts,        \* bound: appends that are cut off in the middle
    MaxCheckpoints, \* bound: checkpoints ever drawn
    MaxFaults,      \* bound: failing writes
    MaxCrashes      \* bound: crashes

Payloads == UNION {Range(finals) : finals \in FinalEvents}

ASSUME CloseAssumption ==
    /\ {MaxCuts, MaxCheckpoints, MaxFaults, MaxCrashes} \subseteq Nat
    /\ FinalEvents \subseteq Seq(Payloads)

VARIABLES
    status,         \* the session's status, in its file
    checkpoint,     \* its close_checkpoint: [id, expected], id 0 for none
    log,            \* the readable events with a close_checkpoint_id, by it
    torn,           \* the event file ends in the middle of a line
    retry,          \* the idle reclaimer will repeat the teardown
    pc,             \* the next write of the call in progress
    call,           \* its caller and final events
    checkpoints,    \* checkpoint ids drawn so far
    cuts,           \* appends cut off in the middle so far
    faults, crashes \* failures so far

durable == <<status, checkpoint, log, torn>>
volatile == <<retry, pc, call>>
counters == <<checkpoints, cuts, faults, crashes>>
vars == <<durable, volatile, counters>>

-----------------------------------------------------------------------------
Statuses == {"created", "active", "closing", "closed"}
Callers == {"route", "reclaimer", "startup"}
AuditTypes == {"sessionClosing", "sessionClosed", "kitInstanceReleased"}
Steps ==
    {"checkpoint", "finalReviewEvent", "closing", "closed"} \union AuditTypes

(* Final events of any call: the close route's, or none.                   *)
Sent == FinalEvents \union {<<>>}

IsSessionMutable == status \in {"created", "active"}

Event(type, payload) == [type |-> type, payload |-> payload]

Finals(payloads) ==
    [n \in DOMAIN payloads |-> Event("finalReviewEvent", payloads[n])]

(* The events of the session's checkpoint.                                 *)
Logged == log[checkpoint.id]

Has(type) == \E n \in DOMAIN Logged : Logged[n].type = type

(* The payloads of the final events among some events.                     *)
FinalsIn(events) ==
    LET upTo[n \in 0 .. Len(events)] ==
            IF n = 0 THEN <<>>
            ELSE IF events[n].type = "finalReviewEvent"
                 THEN Append(upTo[n - 1], events[n].payload)
                 ELSE upTo[n - 1]
    IN  upTo[Len(events)]

Persisted == FinalsIn(Logged)

(* Mutant: a checkpoint of the right length is resumed.                    *)
MutReusable(finals) ==
    /\ checkpoint.id # 0
    /\ \/ ~IsSessionMutable
       \/ Len(Persisted) >= checkpoint.expected
       \/ Len(finals) = checkpoint.expected

(***************************************************************************)
(* A checkpoint is resumed once the session is closing, or all its final   *)
(* events are there, or those that are there begin the caller's.           *)
(***************************************************************************)
Reusable(finals) ==
    /\ checkpoint.id # 0
    /\ \/ ~IsSessionMutable
       \/ Len(Persisted) >= checkpoint.expected
       \/ /\ Persisted # <<>>
          /\ Len(finals) = checkpoint.expected
          /\ IsPrefix(Persisted, finals)

(* Mutant: a closed session goes through the steps of closing again.       *)
MutAfterCheckpoint == "sessionClosing"

(* What a close with the checkpoint in place does first.                   *)
AfterCheckpoint == IF status = "closed" THEN "sessionClosed"
                                        ELSE "sessionClosing"

(* A call begins.  (Bound: not where it would exceed MaxCheckpoints.)      *)
Begin(caller, finals) ==
    /\ Reusable(finals) \/ checkpoints < MaxCheckpoints
    /\ call' = [caller |-> caller, finals |-> finals]
    /\ pc' = IF Reusable(finals) THEN AfterCheckpoint ELSE "checkpoint"

-----------------------------------------------------------------------------
(* How a call begins.                                                      *)

Init ==
    /\ status \in {"created", "active"}
    /\ checkpoint = [id |-> 0, expected |-> 0]
    /\ log = [id \in 0 .. MaxCheckpoints |-> <<>>]
    /\ torn = FALSE
    /\ retry = FALSE
    /\ pc = "idle"
    /\ call = [caller |-> "route", finals |-> <<>>]
    /\ checkpoints = 0 /\ cuts = 0 /\ faults = 0 /\ crashes = 0

(* The first claim of a viewer lease activates a session that waits for    *)
(* it, and appends an event that is not of a close.                        *)
ClaimLease ==
    /\ pc = "idle"
    /\ IsSessionMutable
    /\ status' = "active"
    /\ torn' = FALSE
    /\ UNCHANGED <<checkpoint, log, volatile, counters>>

(* The close route resumes whatever it finds.                              *)
CloseRoute(finals) ==
    /\ pc = "idle"
    /\ Begin("route", finals)
    /\ UNCHANGED <<durable, retry, counters>>

(* The countdown of an idle session has run out.                           *)
IdleCountdownEnds ==
    /\ pc = "idle"
    /\ IsSessionMutable
    /\ ~retry
    /\ retry' = TRUE
    /\ Begin("reclaimer", <<>>)
    /\ UNCHANGED <<durable, counters>>

(* Mutant: tick untracks a session that is no longer open.                 *)
MutRetryTeardown ==
    /\ pc = "idle"
    /\ retry
    /\ IF IsSessionMutable THEN Begin("reclaimer", <<>>) /\ UNCHANGED retry
                           ELSE retry' = FALSE /\ UNCHANGED <<pc, call>>
    /\ UNCHANGED <<durable, counters>>

(* tick: a teardown that has not succeeded is repeated.                    *)
RetryTeardown ==
    /\ pc = "idle"
    /\ retry
    /\ Begin("reclaimer", <<>>)
    /\ UNCHANGED <<durable, retry, counters>>

(* recordActivity cancels the countdown, and a repeated teardown with it.  *)
ActivityCancels ==
    /\ pc = "idle"
    /\ IsSessionMutable
    /\ retry
    /\ retry' = FALSE
    /\ UNCHANGED <<durable, pc, call, counters>>

-----------------------------------------------------------------------------
(* The writes of a call.                                                   *)

(* After a torn line the first event that is appended is lost with it.     *)
Appended(events) ==
    /\ log' = [log EXCEPT ![checkpoint.id] =
                  @ \o (IF torn THEN SubSeq(events, 2, Len(events)) ELSE events)]
    /\ torn' = (torn /\ events = <<>>)

AppendUnlessThere(type) ==
    IF Has(type) THEN UNCHANGED <<log, torn>>
                 ELSE Appended(<<Event(type, "audit")>>)

Goto(step) == pc' = step /\ UNCHANGED <<retry, call>>

WriteCheckpoint ==
    /\ pc = "checkpoint"
    /\ checkpoints' = checkpoints + 1
    /\ checkpoint' = [id |-> checkpoints + 1, expected |-> Len(call.finals)]
    /\ Goto(AfterCheckpoint)
    /\ UNCHANGED <<status, log, torn, cuts, faults, crashes>>

WriteSessionClosing ==
    /\ pc = "sessionClosing"
    /\ AppendUnlessThere("sessionClosing")
    /\ Goto("finalReviewEvent")
    /\ UNCHANGED <<status, checkpoint, counters>>

(* Mutant: every call appends all of its final events.                     *)
MutMissing == Finals(SubSeq(call.finals, 1, checkpoint.expected))

(* The final events of the caller beyond those that are in the log.        *)
Missing ==
    Finals(SubSeq(call.finals, Len(Persisted) + 1, checkpoint.expected))

Complete == Len(Persisted) >= checkpoint.expected

(* The events are counted again afterwards: one lost ends the call.        *)
WriteFinalEvents ==
    /\ pc = "finalReviewEvent"
    /\ ~Complete
    /\ Len(call.finals) >= checkpoint.expected
    /\ Appended(Missing)
    /\ Goto(IF torn THEN "idle" ELSE "closing")
    /\ UNCHANGED <<status, checkpoint, counters>>

(* Nothing is missing, or the caller does not have it: early return.       *)
SkipFinalEvents ==
    /\ pc = "finalReviewEvent"
    /\ ~Complete => Len(call.finals) < checkpoint.expected
    /\ Goto(IF Complete THEN "closing" ELSE "idle")
    /\ UNCHANGED <<durable, counters>>

(* releaseSession follows without another write.                           *)
WriteClosing ==
    /\ pc = "closing"
    /\ status' = "closing"
    /\ pc' = "closed"
    /\ UNCHANGED <<checkpoint, log, torn, retry, call, counters>>

WriteClosed ==
    /\ pc = "closed"
    /\ status' = "closed"
    /\ Goto("sessionClosed")
    /\ UNCHANGED <<checkpoint, log, torn, counters>>

(* Mutant: the audit event is appended without a look at the log.          *)
MutWriteSessionClosed ==
    /\ pc = "sessionClosed"
    /\ Appended(<<Event("sessionClosed", "audit")>>)
    /\ Goto("kitInstanceReleased")
    /\ UNCHANGED <<status, checkpoint, counters>>

WriteSessionClosed ==
    /\ pc = "sessionClosed"
    /\ AppendUnlessThere("sessionClosed")
    /\ Goto("kitInstanceReleased")
    /\ UNCHANGED <<status, checkpoint, counters>>

(* The end of a call: removeSession, in the call or in the reclaimer.      *)
WriteKitInstanceReleased ==
    /\ pc = "kitInstanceReleased"
    /\ AppendUnlessThere("kitInstanceReleased")
    /\ retry' = FALSE
    /\ pc' = "idle"
    /\ UNCHANGED <<status, checkpoint, call, counters>>

Proceed ==
    \/ WriteCheckpoint
    \/ WriteSessionClosing
    \/ WriteFinalEvents
    \/ SkipFinalEvents
    \/ WriteClosing
    \/ WriteClosed
    \/ WriteSessionClosed
    \/ WriteKitInstanceReleased

-----------------------------------------------------------------------------
(* Failures.                                                               *)

(* What an interruption leaves: some of the final events that were to be   *)
(* appended, and perhaps half the line of an event.                        *)
Interrupted ==
    LET finalEvents == pc = "finalReviewEvent" /\ ~Complete
        due == IF finalEvents THEN Front(Missing) ELSE <<>>
        appending ==
            \/ pc = "idle" \/ finalEvents
            \/ pc \in AuditTypes /\ ~Has(pc)
    IN  \E n \in 0 .. Len(due), cut \in {FALSE, appending /\ cuts < MaxCuts} :
            /\ log' = [log EXCEPT ![checkpoint.id] =
                          @ \o SubSeq(due, IF torn THEN 2 ELSE 1, n)]
            /\ torn' = (cut \/ (torn /\ n = 0))
            /\ cuts' = cuts + (IF cut THEN 1 ELSE 0)

(* Mutant: a recovery that fails at startup is left to the next restart.   *)
MutQueued == retry

(* queueTeardownRetry takes what startup could not recover, if the session *)
(* is at least closing.                                                    *)
Queued ==
    retry \/ (call.caller = "startup" /\ status \in {"closing", "closed"})

(* A write throws; the route answers 500, the reclaimer keeps its state.   *)
Fail ==
    /\ pc \in Steps
    /\ faults < MaxFaults
    /\ faults' = faults + 1
    /\ Interrupted
    /\ retry' = Queued
    /\ pc' = "idle"
    /\ UNCHANGED <<status, checkpoint, call, checkpoints, crashes>>

Crash ==
    /\ pc # "down"
    /\ crashes < MaxCrashes
    /\ crashes' = crashes + 1
    /\ Interrupted
    /\ retry' = FALSE
    /\ pc' = "down"
    /\ UNCHANGED <<status, checkpoint, call, checkpoints, faults>>

(* What the loop over the sessions at startup takes up.                    *)
Recoverable ==
    /\ checkpoint.id # 0
    /\ status \in {"active", "closing", "closed"}
    /\ Len(Persisted) >= checkpoint.expected
    /\ status = "active" => Has("sessionClosing")
    /\ \/ status = "closing"
       \/ ~Has("sessionClosed")
       \/ ~Has("kitInstanceReleased")

Restart ==
    /\ pc = "down"
    /\ IF Recoverable THEN Begin("startup", <<>>)
       ELSE pc' = "idle" /\ UNCHANGED call
    /\ UNCHANGED <<durable, retry, counters>>

-----------------------------------------------------------------------------
Next ==
    \/ ClaimLease
    \/ \E finals \in Sent : CloseRoute(finals)
    \/ IdleCountdownEnds
    \/ RetryTeardown
    \/ ActivityCancels
    \/ Proceed
    \/ Fail
    \/ Crash
    \/ Restart

(* A call in progress goes on, a supervisor restarts the process, and the  *)
(* reclaimer's interval timer ticks.                                       *)
Fairness ==
    /\ WF_vars(Proceed)
    /\ WF_vars(Restart)
    /\ WF_vars(RetryTeardown)

Spec == Init /\ [][Next]_vars /\ Fairness

-----------------------------------------------------------------------------
(* Type correctness.  Every step finds the session in the status it is     *)
(* written for: a closed session is never set to closing again, and the    *)
(* terminal events are those of a closed session.                          *)
Events ==
    [type : AuditTypes, payload : {"audit"}]
    \union
    [type : {"finalReviewEvent"}, payload : Payloads]

CloseTypeOK ==
    /\ status \in Statuses
    /\ checkpoint.id \in 0 .. checkpoints /\ checkpoint.expected \in Nat
    /\ log \in [0 .. MaxCheckpoints -> Seq(Events)]
    /\ torn \in BOOLEAN /\ retry \in BOOLEAN
    /\ pc \in Steps \union {"idle", "down"}
    /\ call.caller \in Callers /\ call.finals \in Sent
    /\ checkpoints \in 0 .. MaxCheckpoints
    /\ cuts \in 0 .. MaxCuts
    /\ faults \in 0 .. MaxFaults /\ crashes \in 0 .. MaxCrashes
    /\ pc \in Steps \ {"checkpoint"} => checkpoint.id # 0
    /\ pc \in {"checkpoint", "sessionClosing", "finalReviewEvent", "closing"}
          => status # "closed"
    /\ pc = "closed" => status = "closing"
    /\ pc \in {"sessionClosed", "kitInstanceReleased"} => status = "closed"

(* The events of a close, as a close that nothing interrupts appends them. *)
Audit(finals) ==
    <<Event("sessionClosing", "audit")>> \o Finals(finals)
    \o <<Event("sessionClosed", "audit"), Event("kitInstanceReleased", "audit")>>

AuditComplete ==
    /\ status = "closed"
    /\ Has("sessionClosed")
    /\ Has("kitInstanceReleased")

(* However often a close is interrupted and by whomever it is continued,   *)
(* the events of every checkpoint are the beginning of those of one        *)
(* uninterrupted close: in order, none twice, and with the final events    *)
(* of a single request; as long as no append is cut off in its line.       *)
AuditTrail ==
    cuts = 0 =>
        \A id \in 1 .. checkpoints :
            \E finals \in Sent : IsPrefix(log[id], Audit(finals))

(* A session is not closing before the final events are durable: all that  *)
(* its checkpoint announces, and the complete list of one request.  Torn   *)
(* lines do not change that, because the events are counted again.         *)
FinalEventsOfOneRequest ==
    status \in {"closing", "closed"} =>
        /\ Len(Persisted) = checkpoint.expected
        /\ Persisted \in Sent

(* A session is reported as closed once, even where torn lines make a      *)
(* repeated call look for an event that was appended and lost.             *)
ClosedIsAuditedOnce ==
    \A i, j \in DOMAIN log : \A m \in DOMAIN log[i], n \in DOMAIN log[j] :
        log[i][m].type = "sessionClosed" /\ log[j][n].type = "sessionClosed"
            => i = j /\ m = n

(* What the startup finds closing or closed it completes, through failing  *)
(* writes and further crashes: the call itself or its queued repetition.   *)
(* (What a torn line swallows is appended again by a later call only.)     *)
RecoveredAtStartup ==
    (pc = "down" /\ Recoverable /\ status \in {"closing", "closed"})
        ~> (AuditComplete \/ cuts > 0)

(* What the reclaimer has begun to close and not finished, it finishes, if *)
(* no crash makes it forget the session.                                   *)
ReclaimedInTheEnd ==
    (retry /\ status \in {"closing", "closed"})
        ~> (AuditComplete \/ pc = "down" \/ cuts > 0)

=============================================================================
