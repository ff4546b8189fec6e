------------------------------ MODULE AgentStep ------------------------------
(***************************************************************************)
(* Steps that run side by side on one run: runAgentStep with its attempts, *)
(* runner, deadline, abort and log writes (packages/kernel/src/            *)
(* agent-step.ts), the permits they share (createLimiter) and the fan-out  *)
(* that starts them (fanOut, fanout.ts).                                   *)
(*                                                                         *)
(* pc names the await a step is at.  A log write is one action: the        *)
(* RunLog chain applies it whole or refuses it whole (RunLog shows that).  *)
(* Bounds: MaxFaults store failures and MaxEvents non-final events per      *)
(* attempt for each step, BatchSize for ATTEMPT_EVENT_BATCH.               *)
(***************************************************************************)
EXTENDS RunState

CONSTANTS
  WriteSteps,   \* the steps whose AgentSpec has tools "write"
  MaxPermits,   \* createLimiter's max
  BatchSize,    \* ATTEMPT_EVENT_BATCH
  MaxEvents,    \* bound: events before the last one, per attempt of each step
  MaxFaults,    \* bound: writes of each step the store may fail
  Reopens       \* whether the run may be opened again while steps run

ASSUME AgentStepAssumption ==
  /\ Attempts = Steps \X {1, 2}
  /\ Artifacts = {"text", "raw"}
  /\ WriteSteps \subseteq Steps
  /\ MaxPermits \in Nat \ {0}
  /\ BatchSize \in Nat \ {0}
  /\ MaxEvents \in [Steps -> Nat]
  /\ MaxFaults \in [Steps -> Nat]
  /\ Reopens \in BOOLEAN

VARIABLES
  state,    \* what the run's log folds to
  stale,    \* the RunLog fell behind the log: every write is refused
  aborted,  \* the parent AbortSignal
  pc,       \* per step: where it is
  att,      \* per step: 1 or 2, index into attemptIds
  term,     \* per step: Watch.terminal of the attempt; a result is valid or not
  err,      \* per step: the exception the attempt unwinds: none, the runner's,
            \* or a refused write's
  pend,     \* per step: events pushed and not flushed
  sent,     \* per step: events before the last one (bound)
  faults,   \* per step: writes of this step the store failed (bound)
  alive,    \* attempts whose runner still runs
  active,   \* limiter: permits taken
  waiting   \* limiter: queue of steps

limiter == <<active, waiting>>
watch == <<term, err, pend, sent>>
vars == <<state, stale, aborted, pc, att, watch, faults, alive, limiter>>

Terminals == {"none", "valid", "invalid", "error", "aborted", "deadline"}
PCs == {"idle", "start", "acquire", "queued", "granted", "begin", "run", "stream",
        "flush", "cleanup", "last", "capture", "finish", "failing", "output",
        "repair", "close", "catch", "done", "threw"}
\* Where Watch.terminal can still change the attempt's outcome.
Watched == {"begin", "run", "stream", "flush", "cleanup", "last"}
\* Where a step holds a permit: inside limiter.run's task.
Holding == Watched \cup {"granted", "capture", "finish", "failing"}
Returned == {"done", "threw"}

Id(st) == <<st, att[st]>>
\* retrySpec: a retry of a write attempt is read-only.
Writes(a) == a[1] \in WriteSteps /\ a[2] = 1

Init ==
  /\ state = [Reduce(NullRun, RunCreated) EXCEPT !.lastSeq = 0]
  /\ stale = FALSE
  /\ aborted = FALSE
  /\ pc = [st \in Steps |-> "idle"]
  /\ att = [st \in Steps |-> 1]
  /\ term = [st \in Steps |-> "none"]
  /\ err = [st \in Steps |-> "none"]
  /\ pend = [st \in Steps |-> 0]
  /\ sent = [st \in Steps |-> 0]
  /\ faults = [st \in Steps |-> 0]
  /\ alive = {}
  /\ active = 0
  /\ waiting = <<>>

-----------------------------------------------------------------------------
\* A mutant of AttemptOutcome: the terminal's own name is recorded.
AttemptOutcomeRaw(t) == IF t = "valid" THEN "succeeded" ELSE t
\* classify, for the rows attempt.finished and step.finished.
AttemptOutcome(t) ==
  CASE t = "valid" -> "succeeded"
    [] t = "aborted" -> "cancelled"
    [] t = "deadline" -> "timed_out"
    [] t \in {"invalid", "error", "none"} -> "failed"

\* How runAttempts ends: closeWithGate for a fault, no gate for a cancel.
Closing(st) ==
  CASE term[st] = "valid" -> <<StepFinished(st, "succeeded")>>
    [] term[st] = "aborted" -> <<StepFinished(st, "failed")>>
    [] OTHER ->
         <<GateRaised(EscalationGate(st), st, "escalation", RecoveryCommands),
           StepFinished(st, IF term[st] = "invalid" THEN "escalated" ELSE "failed")>>

\* What the step asks the log to write where it stands.
Batch(st) ==
  CASE pc[st] = "start" -> <<StepStarted(st)>>
    [] pc[st] = "begin" -> <<AttemptStarted(Id(st), st)>>
    [] pc[st] \in {"flush", "last"} -> [i \in 1..pend[st] |-> AttemptEvent(Id(st))]
    [] pc[st] = "capture" -> <<ArtifactRecorded("raw", Id(st))>>
    [] pc[st] = "finish" -> <<AttemptFinished(Id(st), AttemptOutcome(term[st]))>>
    [] pc[st] = "failing" -> <<AttemptFinished(Id(st), "failed")>>
    [] pc[st] \in {"output", "repair"} -> <<ArtifactRecorded("text", Id(st))>>
    [] pc[st] = "close" -> Closing(st)
    [] pc[st] = "catch" -> <<StepFinished(st, "failed")>>
    [] OTHER -> <<>>

\* The run's state after more rows.  Seq numbers and artifacts are left to
\* RunLog: nothing here reads them.
Rows(bodies) == [ReduceBatch(state, bodies) EXCEPT !.lastSeq = 0, !.artifacts = {}]

\* RunLog.write resolves.  An empty batch appends nothing and is never stale.
Written(st) ==
  /\ LegalBatch(state, Batch(st))
  /\ stale => Batch(st) = <<>>
  /\ state' = Rows(Batch(st))
  /\ UNCHANGED faults

\* RunLog.write rejects: stale, refused by reduce, or the store failed.
Refused(st) ==
  /\ Batch(st) # <<>>
  /\ IF stale \/ ~LegalBatch(state, Batch(st))
       THEN UNCHANGED faults
       ELSE /\ faults[st] < MaxFaults[st]
            /\ faults' = [faults EXCEPT ![st] = @ + 1]
  /\ UNCHANGED state

Goto(st, next) == pc' = [pc EXCEPT ![st] = next]

\* release in limiter.run's finally: the permit goes to the head of the queue.
ReleaseTo(st, next) ==
  IF waiting = <<>>
    THEN Goto(st, next) /\ active' = active - 1 /\ UNCHANGED waiting
    ELSE /\ pc' = [pc EXCEPT ![st] = next, ![Head(waiting)] = "granted"]
         /\ waiting' = Tail(waiting)
         /\ UNCHANGED active

-----------------------------------------------------------------------------
\* fanOut or a command calls runAgentStep.
Call(st) ==
  /\ pc[st] = "idle"
  /\ Goto(st, "start")
  /\ UNCHANGED <<state, stale, aborted, att, watch, faults, alive, limiter>>

\* The row step.started; outside the try that would write step.finished.
Start(st) ==
  /\ pc[st] = "start"
  /\ \/ Written(st) /\ Goto(st, "acquire")
     \/ Refused(st) /\ Goto(st, "threw")
  /\ UNCHANGED <<stale, aborted, att, watch, alive, limiter>>

Acquire(st) ==
  /\ pc[st] = "acquire"
  /\ IF active < MaxPermits
       THEN Goto(st, "granted") /\ active' = active + 1 /\ UNCHANGED waiting
       ELSE Goto(st, "queued") /\ waiting' = Append(waiting, st) /\ UNCHANGED active
  /\ UNCHANGED <<state, stale, aborted, att, watch, faults, alive>>

\* executeAttempt: nothing is written when the signal has fired already.
Admit(st) ==
  /\ pc[st] = "granted"
  /\ IF aborted
       THEN term' = [term EXCEPT ![st] = "aborted"] /\ ReleaseTo(st, "close")
       ELSE Goto(st, "begin") /\ UNCHANGED <<term, limiter>>
  /\ UNCHANGED <<state, stale, aborted, att, err, pend, sent, faults, alive>>

\* A mutant of Begin: a refused attempt.started keeps the permit.
BeginLeaks(st) ==
  /\ pc[st] = "begin"
  /\ \/ Written(st) /\ Goto(st, "run")
     \/ Refused(st) /\ Goto(st, "catch")
  /\ UNCHANGED <<stale, aborted, att, watch, alive, limiter>>
Begin(st) ==
  /\ pc[st] = "begin"
  /\ \/ Written(st) /\ Goto(st, "run") /\ UNCHANGED limiter
     \/ Refused(st) /\ ReleaseTo(st, "catch")
  /\ UNCHANGED <<stale, aborted, att, watch, alive>>

\* A mutant of Run: the signal is not looked at again after the write.
RunUnchecked(st) ==
  /\ pc[st] = "run"
  /\ Goto(st, "stream") /\ alive' = alive \cup {Id(st)}
  /\ UNCHANGED <<state, stale, aborted, att, watch, faults, limiter>>

\* streamAttempt starts the runner unless the signal fired during the write.
Run(st) ==
  /\ pc[st] = "run"
  /\ IF term[st] = "none"
       THEN Goto(st, "stream") /\ alive' = alive \cup {Id(st)}
       ELSE Goto(st, "last") /\ UNCHANGED alive
  /\ UNCHANGED <<state, stale, aborted, att, watch, faults, limiter>>

\* The runner yields an event; one may arrive as the signal fires.
Receive(st) ==
  /\ pc[st] = "stream" /\ Id(st) \in alive
  /\ \E kind \in {"text", "valid", "invalid", "error"} :
       /\ kind = "text" => sent[st] < MaxEvents[st]
       /\ sent' = IF kind = "text" THEN [sent EXCEPT ![st] = @ + 1] ELSE sent
       /\ term' = IF kind # "text" /\ term[st] = "none"
                    THEN [term EXCEPT ![st] = kind] ELSE term
  /\ pend' = [pend EXCEPT ![st] = @ + 1]
  /\ Goto(st, IF term'[st] # "none" \/ pend'[st] >= BatchSize THEN "flush" ELSE "stream")
  /\ UNCHANGED <<state, stale, aborted, att, err, faults, alive, limiter>>

\* The batch is spliced before the write: what a failed write held is lost.
Flush(st) ==
  /\ pc[st] = "flush"
  /\ \/ /\ Written(st)
        /\ Goto(st, IF term[st] = "none" THEN "stream" ELSE "cleanup")
        /\ UNCHANGED err
     \/ Refused(st) /\ Goto(st, "cleanup") /\ err' = [err EXCEPT ![st] = "write"]
  /\ pend' = [pend EXCEPT ![st] = 0]
  /\ UNCHANGED <<stale, aborted, att, term, sent, alive, limiter>>

\* The loop ends: the signal fired, or the runner returned or threw (or sent
\* what AgentEvent.parse refuses, and is still there).
EndStream(st) ==
  /\ pc[st] = "stream"
  /\ \/ term[st] # "none" /\ UNCHANGED <<err, alive>>
     \/ alive' = alive \ {Id(st)} /\ UNCHANGED err
     \/ /\ err' = [err EXCEPT ![st] = "runner"]
        /\ alive' \in {alive, alive \ {Id(st)}}
  /\ Goto(st, "cleanup")
  /\ UNCHANGED <<state, stale, aborted, att, term, pend, sent, faults, limiter>>

\* A mutant of Cleanup: no attempt waits for its runner.
CleanupUnawaited(st) ==
  /\ pc[st] = "cleanup"
  /\ alive' \in {alive, alive \ {Id(st)}}
  /\ sent' = [sent EXCEPT ![st] = 0]
  /\ Goto(st, "last")
  /\ UNCHANGED <<state, stale, aborted, att, term, err, pend, faults, limiter>>

\* iterator.return: awaited for a write attempt, whose runner then is gone and
\* whose failure counts; else at most a second, and the runner may live on.
Cleanup(st) ==
  /\ pc[st] = "cleanup"
  /\ IF Writes(Id(st))
       THEN /\ alive' = alive \ {Id(st)}
            /\ err' \in {err, [err EXCEPT ![st] = "runner"]}
       ELSE /\ alive' \in {alive, alive \ {Id(st)}}
            /\ UNCHANGED err
  /\ sent' = [sent EXCEPT ![st] = 0]
  /\ Goto(st, "last")
  /\ UNCHANGED <<state, stale, aborted, att, term, pend, faults, limiter>>

\* A runner that outlived its attempt's cleanup exits.
RunnerExits(a) ==
  /\ a \in alive
  /\ ~(Id(a[1]) = a /\ pc[a[1]] \in Watched)
  /\ alive' = alive \ {a}
  /\ UNCHANGED <<state, stale, aborted, pc, att, watch, faults, limiter>>

\* The last flush, of the normal path or of the catch.
LastFlush(st) ==
  /\ pc[st] = "last"
  /\ \/ Written(st) /\ UNCHANGED err
     \/ /\ Refused(st)
        /\ err' = IF err[st] = "none" THEN [err EXCEPT ![st] = "write"] ELSE err
  /\ pend' = [pend EXCEPT ![st] = 0]
  /\ Goto(st, "capture")
  /\ UNCHANGED <<stale, aborted, att, term, sent, alive, limiter>>

\* captureRawLog: no raw log, or a failure on the way, is passed over.
Capture(st) ==
  /\ pc[st] = "capture"
  /\ Written(st) \/ UNCHANGED <<state, faults>>
  /\ Goto(st, IF err[st] # "none" THEN "failing" ELSE "finish")
  /\ UNCHANGED <<stale, aborted, att, watch, alive, limiter>>

\* A mutant of Finish: a refused row is not tried again.
FinishOnce(st) ==
  /\ pc[st] = "finish"
  /\ \/ /\ Written(st)
        /\ ReleaseTo(st, IF term[st] = "invalid" THEN "output" ELSE "close")
     \/ Refused(st) /\ ReleaseTo(st, "catch")
  /\ UNCHANGED <<stale, aborted, att, watch, alive>>

Finish(st) ==
  /\ pc[st] = "finish"
  /\ \/ /\ Written(st)
        /\ ReleaseTo(st, IF term[st] = "invalid" THEN "output" ELSE "close")
        /\ UNCHANGED err
     \/ /\ Refused(st)
        /\ Goto(st, "capture") /\ err' = [err EXCEPT ![st] = "write"]
        /\ UNCHANGED limiter
  /\ UNCHANGED <<stale, aborted, att, term, pend, sent, alive>>

\* The catch of executeAttempt: one more try to finish the attempt's row.
Failing(st) ==
  /\ pc[st] = "failing"
  /\ Written(st) \/ Refused(st)
  /\ ReleaseTo(st, "catch")
  /\ UNCHANGED <<stale, aborted, att, watch, alive>>

\* Rejected output is recorded; only the first attempt is repaired.
Output(st) ==
  /\ pc[st] = "output"
  /\ \/ Written(st) /\ Goto(st, IF att[st] = 1 THEN "repair" ELSE "close")
     \/ Refused(st) /\ Goto(st, "catch")
  /\ UNCHANGED <<stale, aborted, att, watch, alive, limiter>>

Repair(st) ==
  /\ pc[st] = "repair"
  /\ \/ /\ Written(st) /\ Goto(st, "acquire")
        /\ att' = [att EXCEPT ![st] = 2]
        /\ term' = [term EXCEPT ![st] = "none"]
     \/ Refused(st) /\ Goto(st, "catch") /\ UNCHANGED <<att, term>>
  /\ UNCHANGED <<stale, aborted, err, pend, sent, alive, limiter>>

Close(st) ==
  /\ pc[st] = "close"
  /\ \/ Written(st) /\ Goto(st, "done") /\ term' = [term EXCEPT ![st] = "none"]
     \/ Refused(st) /\ Goto(st, "catch") /\ UNCHANGED term
  /\ UNCHANGED <<stale, aborted, att, err, pend, sent, alive, limiter>>

\* The catch of runAgentStep.
Catch(st) ==
  /\ pc[st] = "catch"
  /\ Written(st) \/ Refused(st)
  /\ Goto(st, "threw")
  /\ term' = [term EXCEPT ![st] = "none"]
  /\ UNCHANGED <<stale, aborted, att, err, pend, sent, alive, limiter>>

-----------------------------------------------------------------------------
\* A mutant of Abort: the abort replaces what has been decided.
AbortOverrides ==
  /\ ~aborted
  /\ aborted' = TRUE
  /\ term' = [st \in Steps |-> IF pc[st] \in Watched THEN "aborted" ELSE term[st]]
  /\ UNCHANGED <<state, stale, pc, att, err, pend, sent, faults, alive, limiter>>

\* The parent signal fires, on every attempt that listens.
Abort ==
  /\ ~aborted
  /\ aborted' = TRUE
  /\ term' = [st \in Steps |->
                IF pc[st] \in Watched /\ term[st] = "none" THEN "aborted" ELSE term[st]]
  /\ UNCHANGED <<state, stale, pc, att, err, pend, sent, faults, alive, limiter>>

\* The attempt's timeout.
Deadline(st) ==
  /\ pc[st] \in Watched /\ term[st] = "none"
  /\ term' = [term EXCEPT ![st] = "deadline"]
  /\ UNCHANGED <<state, stale, aborted, pc, att, err, pend, sent, faults, alive, limiter>>

\* openRun on the run while it runs: recover's rows leave this RunLog behind.
Reopen ==
  /\ Reopens /\ ~stale
  /\ Recover(state) # <<>>
  /\ state' = Rows(Recover(state))
  /\ stale' = TRUE
  /\ UNCHANGED <<aborted, pc, att, watch, faults, alive, limiter>>

AllReturned == \A st \in Steps : pc[st] \in Returned
Finished == AllReturned /\ alive = {} /\ UNCHANGED vars

Next ==
  \/ \E st \in Steps :
       \/ Call(st) \/ Start(st) \/ Acquire(st) \/ Admit(st) \/ Begin(st) \/ Run(st)
       \/ Receive(st) \/ Flush(st) \/ EndStream(st) \/ Cleanup(st) \/ LastFlush(st)
       \/ Capture(st) \/ Finish(st) \/ Failing(st) \/ Output(st) \/ Repair(st)
       \/ Close(st) \/ Catch(st) \/ Deadline(st)
  \/ \E a \in Attempts : RunnerExits(a)
  \/ Abort
  \/ Reopen
  \/ Finished

(***************************************************************************)
(* Fairness, one condition for the process: while something is due in it   *)
(* something of it happens.  The event loop runs a continuation that is    *)
(* ready; a timer that is due fires (Deadline) and the stream loop sees    *)
(* it; iterator.return settles, by a one-second timer or, for a write      *)
(* attempt, because the adapter kills the process group.  A runner need    *)
(* not say anything, nobody need abort, and no write need succeed.         *)
(***************************************************************************)
Progress(st) ==
  \/ Start(st) \/ Acquire(st) \/ Admit(st) \/ Begin(st) \/ Run(st) \/ Flush(st)
  \/ Deadline(st) \/ (term[st] # "none" /\ EndStream(st)) \/ Cleanup(st)
  \/ LastFlush(st) \/ Capture(st) \/ Finish(st) \/ Failing(st) \/ Output(st)
  \/ Repair(st) \/ Close(st) \/ Catch(st)
Fairness == WF_vars(\E st \in Steps : Progress(st))

Spec == Init /\ [][Next]_vars
LiveSpec == Spec /\ Fairness

-----------------------------------------------------------------------------
\* Types of the shared state and of each step's.
TypeOK ==
  /\ IsRunState(state)
  /\ stale \in BOOLEAN /\ aborted \in BOOLEAN
  /\ pc \in [Steps -> PCs]
  /\ att \in [Steps -> {1, 2}]
  /\ term \in [Steps -> Terminals]
  /\ err \in [Steps -> {"none", "runner", "write"}]
  /\ pend \in [Steps -> 0..BatchSize]
  /\ \A st \in Steps : sent[st] \in 0..MaxEvents[st] /\ faults[st] \in 0..MaxFaults[st]
  /\ DOMAIN sent = Steps /\ DOMAIN faults = Steps
  /\ alive \subseteq Attempts
  /\ active \in 0..MaxPermits
  /\ waiting \in Seq(Steps)

\* A permit is out for each step inside a task and for no other, whatever threw;
\* steps wait only while every permit is out, and each waiting step is in the queue
\* once.
PermitsCounted ==
  /\ active = Cardinality({st \in Steps : pc[st] \in Holding})
  /\ waiting # <<>> => active = MaxPermits
  /\ ToSet(waiting) = {st \in Steps : pc[st] = "queued"}
  /\ Cardinality(ToSet(waiting)) = Len(waiting)

\* A step never asks its log for rows the reducer refuses, unless the store
\* already failed a write of its own or the log went stale: the rows of one step
\* are in order whatever the steps beside it write.
WritesInOrder ==
  \A st \in Steps : ~stale /\ faults[st] = 0 => LegalBatch(state, Batch(st))

\* agent-step.ts: "a step left running blocks run.ended".  One failure in a step,
\* of any one write or of its runner, leaves neither the step nor an attempt of
\* it running once runAgentStep has returned or thrown: each row that ends
\* something has a second try.
Failures(st) == faults[st] + (IF err[st] = "runner" THEN 1 ELSE 0)
OneFailureLeavesNothingRunning ==
  \A st \in Steps :
    pc[st] \in Returned /\ Failures(st) <= 1 /\ ~stale =>
      ~RunningStep(state, st) /\ ~Busy(state, st)

\* The log says what runAgentStep returned: success only on an attempt
\* that succeeded, a second attempt only after a first that failed, escalation
\* only after two, an open gate exactly when the step failed without a cancel.
ReturnedAsLogged ==
  \A st \in Steps : pc[st] = "done" =>
    LET a == state.attempts
        last == Id(st)
        step == state.steps[st].status
    IN /\ att[st] = 2 => a[<<st, 1>>].status = "failed"
       /\ step = "succeeded" => a[last].status = "succeeded"
       /\ step = "escalated" =>
            att[st] = 2 /\ a[last].status = "failed" /\ Gated(state, st)
       /\ step = "failed" =>
            Gated(state, st) <=> last \in DOMAIN a /\ a[last].status \in {"failed", "timed_out"}
       /\ ~Gated(state, st) => step = "succeeded" \/ aborted

\* While a write attempt's runner may still change files its row is running and
\* its permit is held: no second attempt, no later step of the run and no other
\* task in its place starts beside a writer.  (Not after a second open of the
\* run: that recovery interrupts attempts whose runner lives.)
WriterIsAccounted ==
  \A st \in Steps : <<st, 1>> \in alive /\ Writes(<<st, 1>>) =>
    /\ att[st] = 1 /\ pc[st] \in Holding
    /\ ~stale => RunningAttempt(state, <<st, 1>>)

\* The limiter counts right, and no task has a permit beside a writer that may still
\* write (fanout.ts, agent-step.ts).
PermitsAccounted == PermitsCounted /\ WriterIsAccounted

\* What runAgentStep returns is what the log says, row by row, and it leaves nothing
\* running behind, through one failure of the store or of the runner.
ReturnedMatchesLog == WritesInOrder /\ OneFailureLeavesNothingRunning /\ ReturnedAsLogged

\* After the abort no runner is started, even for a step that was between its
\* abort check and the end of its attempt.started write.
NoRunnerAfterAbort == [][aborted => alive' \subseteq alive]_vars

\* The first of result, error, abort and deadline decides an attempt; a later
\* one never overwrites it, whatever is being written or cleaned up meanwhile.
FirstTerminalDecides ==
  [][\A st \in Steps :
       term[st] # "none" /\ att'[st] = att[st] /\ pc'[st] \notin Returned =>
         term'[st] = term[st]]_vars

\* Every step that is called returns or throws, also when all are called together, though its runner may never
\* speak or exit, the store may fail, the log may go stale, and others hold or
\* wait for the permits.
EveryStepReturns ==
  []<>(\A st \in Steps : pc[st] \in Returned \cup {"idle"})
=============================================================================
