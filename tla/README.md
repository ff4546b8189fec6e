# Formal verification of agentic-hub

This directory is a TLA+ development of two parts of agentic-hub. *Payo* (`src/payo/`)
runs coding agents: it turns a work item into a reviewed plan and an approved plan into
reviewed commits, keeps everything it does in an event log per run, and survives being
stopped at any point. The *Pi handler* (`src/src/agentic_hub/pi_handler/`) makes the personal
settings of Pi agree with a manifest, and owns only what it put there. The modules are
translated from the TypeScript and Python source; TLC checks
them on small instances, and TLAPS checks the theorems of the `*Proofs` modules for every
value of the constants.

    tlc -workers 2 -config MCRunLog.cfg MCRunLog.tla     # one run; the list is below
    tlapm RunLogProofs.tla                                # one module of proofs

## 1. The system

| component | source | state | operations |
|---|---|---|---|
| run log | `packages/kernel/src/{state,run,run-log,store}.ts`, `adapters/store-sqlite` | the durable rows of a run; per handle the folded state, the batch in flight, the promise chain | `reduceRun`, `commit`, `startRun`, `openRun` (with `recover`), `RunLog.commit` |
| agent steps | `packages/kernel/src/{agent-step,fanout}.ts` | limiter permits and queue; per step its attempt, terminal, buffered events, runner | `runAgentStep`, `createLimiter`, `fanOut` |
| execution | `modules/factory/src/execution*.ts` | durable checkpoint (stage, phase, round, in-flight operation, known workspace, commit intent, receipts); worktree and branch | prepare, implement, check, repair, review, commit, record, finish; resume; startup recovery |
| planning | `modules/factory/src/{commands,review,plans,artifacts,state}.ts` | durable checkpoint, recorded plan versions, `plan.md`, planning worktree | resolve, draft, review, revise; answer, approve, request changes, update, restore, resume; startup recovery |
| server | `apps/server/src/{composition,main}.ts` | registered handle and task per run, requests in flight, stopping flag | start, implement, resume, planUpdate, shutdown, restart |
| git adapter | `adapters/git/src` | worktrees, branches, ownership files, the commit it makes | prepare (and undo), inspect, commit, reconcile, create, remove |
| checks runner | `adapters/checks-process/src` | process groups, deadlines | run the configured checks, end what they leave behind |
| Pi runner | `adapters/runner-pi/src` | one subprocess per attempt, its group, its last message | stream, settle, cancel, clean up |
| event stream | `apps/server/src/http.ts`, `apps/web/.../stream.ts`, `useRunActivity.ts`, `apps/cli/src/client.ts` | server: cursor and response; console: rows shown, cached summary and history, reconnect and refresh timers | replay, follow, close, reconnect, refresh |
| Pi handler (Python) | `src/agentic_hub/pi_handler/` | `settings.json` (shared with Pi and with people), `pi-state.json` (what is owned, the pending operation, a repair marker), `apply.lock` | plan, apply, resume, release; the installer it starts |
| installers (Python) | `src/agentic_hub/{behavior,agents,catalog}.py` | lock file, installed files | install, uninstall |

How they meet. A request creates or finds a run in the **server**, which registers one
handle and schedules one task. The task is the loop of **planning** or **execution**; its
agent work is a set of **agent steps** that share a limiter. Everything writes through the
handle of the **run log**, whose promise chain puts the batches of one process in order and
whose sequence check refuses those of anybody else. The engines keep their own position as
a *checkpoint* in the same log, and an *in-flight* marker that names the steps an operation
may leave running; that marker, and the gates of the log, are all that a restarted server
has. Execution touches the world through the **git adapter** (a worktree that people can
edit too) and the **checks runner**. The **Pi handler** is a program of its own: it meets Payo
nowhere, and Pi only through `settings.json` and the installers it starts.

What is hard. Two handles on one run; a failure between folding a batch and appending it;
end of stream, deadline and abort together; a crash between any two durable writes, and a
second one during the recovery; a workspace that changes between check, review and commit;
a commit made and not recorded; gates of several owners open together; `plan.md` edited by
hand while an agent rewrites the plan; a stream that closes, breaks or is read from a stale cache
while the run goes on or ends; a worktree half made and half undone; a process that outlives the job
that started it; requests repeated while the run they name is at
work, or in progress while the server shuts down; a settings file that is edited while an
installer rewrites it, and an installer that outlives the apply it belongs to. `PROJECT.json` lists these hazards at their
lines, with the properties that cover each of them and why some are not covered yet.

What makes each part correct:

- run log: what is durable can always be folded again and is sound; no handle invents
  state; a loser stays a loser; recovery raises what is missing, legally and once.
- agent steps: permits are right whatever throws; rows come in a legal order; the first
  terminal decides; a writer is never forgotten; every step returns.
- execution: nothing is taken over or recorded that was not checked and reviewed exactly as it
  is, whatever a commit hook makes of it; a commit is made and recorded once; a gated run does
  nothing until it is resumed, and can be; the loop ends.
- planning: a run that is not at work always takes a command; hand edits survive updates;
  what is approved is complete and is what `plan.md` shows; the loop ends.
- server: no run lies idle that no error or shutdown stopped; handles follow the log; a shutdown
  ends, and closes the store under no task (it does not bring the runs to a gate); restart gates
  and starts nothing.
- event stream: a watcher sees a beginning of the log without a hole, is told of an end only when
  there is one, and gets every row and the end.
- workspace: a preparation gives an execution its own worktree or leaves what the next one can use;
  when a job has returned nothing of it still writes; every job returns.
- Pi handler: what the file holds is explained by the journal, whatever stopped the apply; no
  edit is lost and every original is kept; one writer at a time; the apply ends.

## 2. Modules

`RunState` (data) <- `RunLog`, `AgentStep`; `ExecutionLedger` is refined by `Execution`;
`Workspace` composes `Worktrees` and `Processes`; `Planning`, `Server`, `EventStream` and `PiHandler`
stand alone. An `MC*` module gives the constants of its module their
values for TLC. `RunLogProofs`, `AgentStepProofs`, `ExecutionProofs`, `PlanningProofs`, `EventStreamProofs`
and `PiHandlerProofs` hold the theorems about the module they are named after, `HostProofs` those about `Server` and `Workspace`;
`RunStateProofs` holds the lemmas on the reducer that the first two rest on.

**RunState** is `reduceRun`: a record of steps, attempts, gates, and the highest sequence
number; `Legal(s, e)` is the conjunction of the checks that throw, `Reduce(s, e)` the
assignments, `Recover(s)` the rows `recover` appends for a state found at startup. Maps
are functions on finite sets. Artifact contents and timestamps are left out.

**RunLog** is one run's store and the handles on it. `commit` folds a batch body by body
(`Fold`, or `Reject` when a body is illegal) and then appends it at once, if
the expected sequence number still matches (`Commit`, else `Stale`); the store may also
fail (`Fault`). `Start` and `Open` are `startRun` and `openRun`, which write before they
hand out a handle. `Crash` stops all the handles of a process. The fold is split into
steps so that no recursive definition is needed; it touches only the handle's own state, so
the split adds no behaviour.

**AgentStep** is any number of `runAgentStep` calls on one limiter. `pc` names the
`await` a step is at; between two of them the code runs alone, so each action is one such
stretch. Runner, deadline, abort and log writes are events of their own. A log write is
atomic here, as RunLog shows it to be; it may be refused, once for every unit of
`MaxFaults`, or for ever once the run was opened a second time (`Reopen`).

**Execution** is an execution run and the worktree it works in. An action is what the
engine does between two points at which anything else can be seen: a durable write, or a
change of the worktree. A crash, a shutdown, a throwing call (`Fault`), an edit by somebody
else (`Touch`), a commit by somebody else on the branch (`ForeignCommit`) or elsewhere in the repository
(`OtherBranch`) may come between any two. Contents are version numbers; a fingerprint is
(head, content, staged, elsewhere). `green` and `accepted` are history variables: the contents
that passed the checks and that were accepted by the reviewers, per unit of work.
`GitCommit` hands git the intended content, but `git commit` runs the repository's hooks: the commit may hold another
content, lack the trailer of the intent, and leave the worktree changed. `CommitInspected` is the comparison with the durable
intent that follows (in the adapter and again in its two callers): a commit that does not match is taken by nobody. The run is gated, the intent stays,
and `CommitReconciled`, after a resume, compares again.

**ExecutionLedger** is what an execution run promises without its engine: units
committed at most once and in order, recorded exactly once, the run ended once.
`ImplementsLedger` is the refinement: `made` is the unit of each commit of the engine's own, by its place on
the branch, `recorded` the number of receipts, `over` the end of the run.

**Planning** is a planning run, its recorded plan versions and the working copy `plan.md`.
A content is (text, managed answers section); texts are numbers, an answer is given or not.
Commands of the operator share `pc` with the engine because the server serialises
them; `Edit` (a person saves `plan.md`) and `Crash` come at any time. Where the code compares
`plan.md` with what it expects and then replaces it, the two are one step: the repository's own docs
name that window, and no property depends on it.

**Server** is the process: `handle` (what the registered handle of a run believes of its
log), `task` (none, accepting an update, live, aborted), requests in flight between their
awaits, `life`. A run is reduced to its log's length and to where it stands: between
operations, in a step, halted behind an interruption gate, gated, ended. A task writes until its run is gated or has
ended (`EngineWrites`), with two exceptions that leave the run midway. `EngineStops`: an aborted execution leaves its loop or rethrows without raising a
gate (`runOrGate`, `runExecution`, `prepareWorkspace`; it is `Caught` of Execution). `EngineThrows`: an error reaches `schedule`, which logs it at most: planning
catches none of its own reads and writes of `plan.md` and of the log, the gate of an execution is a write that may fail too, and a handle the
log has moved on without can write nothing. `dropped`, a history variable, says which of the two left a run midway since the start of the process.

**EventStream** is one run and one watcher: the console's run page, which may be left and opened
again, or `logs -f`. `handler`, `cursor`, `batch`, `net` and `fin` are one response and what is under way in it:
`PollRead` is the awaited read of a poll, `PollWrite` what follows without an `await` (the rows, the cursor, the look
at `isActive` that decides to close). `pc` is where the watcher's loop is; `summary`, `history`, `ask` and `histAsk`
are the cached queries, which outlive the page until the cache drops them (`Forget`). The handle takes a row over in the step that
appends it, because the SQLite store answers in the same turn. The parser's work is what arrives of a response that breaks off:
whole rows (`WholeRows`). The cut of a connection, a stop of the server, a failing query, a refused token, an unreadable row and a focus of the
window come at any time within `MaxFaults`.

**Worktrees** is `prepare` of an execution's worktree, one action per git command or file it
touches. The branch, git's entry, the directory and the ownership file are separate, since a crash, an abort or a failure
may leave any of them behind; `Torn` is what a killed `git worktree add` may leave. `touched`, `foreign`, `torn` and `mine` are history
variables: who made what there is. **Processes** is one job at a time, an agent or a check: a leader and what it forks, which may leave
the process group, hold the pipes open or ignore SIGTERM. `Returned` is the moment the runner's promise settles;
`left` names what was alive then, and why. **Workspace** puts the two under one server that is told to stop, killed and
started again: jobs run only in a recorded workspace.

**PiHandler** is `apply_setup` in any number of processes, the installer, and people. A leaf, a
package and an object around leaves are names; `file` says what each holds, `journal` what is
owned and which operation is pending. An action is a stretch between two points where the files can
be looked at: the first plan without the lock (`Apply`), the lock, the second look and the
resumption of a pending operation (`TakeUp`), the next plan (`PlanNext`), its journal entry, the
write or the installer, the look at the result, the record. `Fault` and `Crash` come at any of
them; `StopUncertain` is an installer that cannot be shown to be gone; `PiSpoils` one that
breaks the file or loses somebody's value. The operator follows the recovery checklist of
`docs/pi/pi-handler.md`: the lock is removed only when nothing runs, the repair marker only when
the file is whole. The last comparison before a replacement is one step with it, as the docs ask
that nobody edits during an apply, and so are the start of an installer and its registration (a
listed hazard without a property). `mine` and `touched` are history variables: what a
person last made of a name, and the managed names somebody else changed.

`PROJECT.json` (`map`) gives the lines each definition was translated from.

## 3. Runs

| run | question | instance and bounds |
|---|---|---|
| `MCRunLog.cfg` | is the log always replayable and sound, whoever races and crashes? | 2 handles in 2 processes, 1 step with 2 attempts, `MaxLog` 4, one batch waiting; the batches an engine writes |
| `MCAgentStep.cfg` | are permits, row order, outcomes and writers right, and does every step return? | 2 steps on 1 permit, one of them a writer that streams one event and meets one store failure; second open of the run allowed |
| `MCExecution.cfg` | is only vetted work taken over and recorded, once? | 2 phases, 1 lens, 2 cycles, 2 new contents, 1 resume, 2 disruptions |
| `MCExecutionLive.cfg` | does the engine come to rest? | 1 phase, 2 lenses, 3 cycles, 1 content, 1 resume, 1 disruption |
| `MCPlanning.cfg` | commands, edits, answers, approval; does the loop come to rest? | 1 lens, 2 rounds, 1 question, 3 texts, 2 commands, 2 disruptions, 3 of both together (`MaxSpent`); 663 859 states |
| `MCServer.cfg` | handles, tasks, shutdown, restart | 1 planning run, 1 execution run, 2 requests, 4 writes per run, 5 events from outside |
| `MCEventStream.cfg` | is what a watcher is shown true and, in the end, all of it? | 4 rows, 3 visits of the page, 3 faults; 149 684 states |
| `MCWorkspace.cfg` | can preparation be repeated, and is what has returned over? | 3 faults, 2 processes of a job alive at a time; 612 088 states |
| `MCPiHandler.cfg` | ownership, edits, installers, the end of an apply | 2 processes, 1 package, 2 leaves in nested objects, 3 manifests, 2 initial files, 1 edit, 1 new manifest, 1 fault |
| `MCExecutionOrphan.cfg`, `MCExecutionHistory.cfg`, `MCServerRepeat.cfg` | statements of the docs that the code does not keep | as the runs above; see section 5 |

Why the bounds are enough. Two handles show every race, since a third is one more loser; four
rows hold a full cycle of start, attempt, crash and recovery, and the race for it. Two steps on
one permit show queueing, hand-over and the failure of a waiter; each step has its second attempt.
Two phases show that one unit's state does not leak into the next; two disruptions show a crash
during the recovery from a crash, an edit followed by a crash, and a foreign commit followed by a
resume. Three cycles, the value in the code, are used where the question is whether the budget
ends the loop. Two commands and two disruptions show an update that is interrupted, and answered
or edited while it is pending. Planning's run keeps one lens: the
same instance with two (1 590 665 states) passes as well but needs minutes more, its invariants and
`UpdateKeepsEdits` are proved for any number of lenses, and `MCExecutionLive.cfg` checks two lenses on the engine that
reviews the same way. Four rows are a row in the history, one in a response that broke off, one in the next and one written
after the look that closes; a third visit of the page meets what the second one left in the caches. Three faults show a preparation
torn, its undoing or the next preparation failing too, and somebody's change on top; two processes show a leader and the one that outlives it.
Two requests for one run show every pair of `implement` calls. The three manifests and the new one
reach creation, adoption, update, re-creation, removal, release and every conflict, with an edit and a
fault before, within or after each of them.
What a bound cuts off is always something the environment does once more; the engine itself
is never cut. Deadlock is not checked in Execution, Planning, Server and EventStream, which legitimately stop at a gate
(or with a run that has ended) when the bounds of the environment are spent, nor in PiHandler, where nobody calls apply when there
is nothing to do or a conflict only a person can resolve.

Each property of a passing run has a mutant: an operator next to the definition it replaces,
that changes the code as a plausible bug would, and under which TLC finds the property violated.

### What the properties say

- *RunLog*: `LogReplays` (every row is legal where it stands), `RunStatesSound` (nothing runs
  outside a running step or in an ended run), `SoleHandleNeverStale`, `RecoveryLegal` (the reducer never refuses a
  recovery), `RecoverySettles` (a second recovery adds nothing).
- *AgentStep*: `PermitsAccounted` (permits are counted right, and a writer keeps its own until it is
  gone), `ReturnedMatchesLog` (rows in a legal order, the returned result is the logged one, and one failure leaves
  nothing running), `NoRunnerAfterAbort`, `FirstTerminalDecides`, `EveryStepReturns`.
- *Execution*: `CommitsAreVetted` (receipts, the end and each commit taken over name a content that was checked and accepted; the only other commit of
  the engine there can be is one a hook changed, behind the parent that the durable intent names, and it is never about to be recorded), `CommitsAreCovered` (a commit without receipt is named by the
  durable intent), `GateOwnsRunningSteps` (the writer is alone, and a gate owns every step still running), `ImplementsLedger`,
  `EngineSettles`.
- *Planning*: `EveryRunHasCommand`, `ApprovalIsConsistent` (at the gate `plan.md`, plan and answers belong together;
  what is approved is complete), `UpdateKeepsEdits`, `PlanningSettles`.
- *Server*: `NothingIdles` (a run midway has a task, unless its last one met an error that becomes no gate or was stopped by the shutdown, and then no other
  has it before a restart), `HandleIsCurrent`, `ClosedIsSettled` (the store closes under no task; what is left midway was left by its own task),
  `ShutdownCompletes`; `RecoveredIsGated`, which is proved and not run, says that the next start gates what was left.
- *EventStream*: `ShownIsTrue` (no hole, and no end that is not one), `WatcherCatchesUp` (every row, and the end).
- *Worktrees*, *Processes* (run `Workspace`): `PreparesItsOwn` (the worktree handed out is clean, whole, at the pinned commit; nothing
  is deleted that this preparation did not make), `FailureIsRepeatable`, `ReturnedIsOver` (no process of the group of a
  returned writer or check is alive), `JobReturns`.
- *PiHandler*: `JournalExplains` (a name nobody else touched holds what the journal, its pending operation or
  its person says; originals are the person's; after the release of everything no object of the
  handler is left; an installer at work has the lock and its journal entry), `EditsSurvive` (a write replaces nothing but what the handler put there, and
  takes away no object of a person), `ApplyEnds`.

### Fairness

RunLog and Execution's safety runs use none. The other runs check their safety and their liveness properties together, under
`LiveSpec` or a `Spec` that includes the fairness.

- *AgentStep*: weak fairness of each step's own progress. Promises that can settle do; timers
  fire; after a terminal the iterator's `return` settles, by the one-second limit for a reading attempt
  and because the adapter kills the process group for a writing one. A runner need not
  speak, nobody need abort, and no write need succeed.
- *Execution*, *Planning*: weak fairness of the engine as a whole, which is one promise chain: it
  is always at one place, and the calls it awaits return (agent steps by `EveryStepReturns`,
  checks by their timeouts). A stopped server is started again; nobody need resume,
  answer or approve. Restart is needed only so that a crash does not end the behaviour.
- *Server*: weak fairness of each task's next step (the three liveness properties above say so of
  what it runs), of exit once the store is closed, and of restart. Requests need not
  arrive, nor those in flight make progress.
- *EventStream*: weak fairness of the server's polling, of the queries' answers, of the watcher's loop and its timers, and of a
  restart. Nobody need write rows, open a page, or leave one.
- *Workspace*: weak fairness of the runner's reactions, of the deadlines and of what SIGKILL does. No
  process need end by itself, none need heed SIGTERM, and a preparation need not be attempted again.
- *PiHandler*: weak fairness of each process that has taken the lock. Reads, writes and comparisons
  return; the wait for an installer has a timeout, after which its group is stopped. The installer
  need not write or exit, and nobody need call apply, remove a lock or mend a file.

## 4. Proofs

Every safety property and every action property that a passing run checks is a
theorem: it holds for every value of the constants. So is the refinement of `ExecutionLedger`. A theorem about a module
has no hypothesis but the `ASSUME` of that module, which gives the constants their types, and in three places says more:
`PiHandlerAssumption` (objects are nested, as in any JSON document, and package declarations, which stand in one
list at the top of settings.json, are inside none of the objects around leaves), `ReservedAssumption` of RunLog (no batch of an engine raises an `interrupted-step` gate: only `recover` builds
that name) and `MaxRounds >= 2` of Planning (the code has 3; with 1, an update's draft, which starts at round 1, would be at the limit
before its first review). The bounds of the environment (`MaxFaults`, `MaxDisruptions` and their like) are any natural numbers, so
the theorems hold of any number of crashes, edits, cuts and commands. Each proof has one inductive
invariant; those of Execution, Planning and PiHandler, the largest, were checked by TLC on the instance of the module's run before they were proved.

**RunStateProofs**: a legal row keeps `IsRunState`, raises `lastSeq` by one, and keeps `RunInv`. `Recover` of a sound
state is a sequence of rows in three groups (attempts closed, gates raised, the marker), and the state after the first n of
them is described directly (`IsRecovered`), so that a recovery is followed by induction over n. A recovered state has no running
attempt and a gate on every running step, and `Recover` of it is empty.

**RunLogProofs** (any handles, processes, steps, attempts and batches):

- `TypeCorrect`: `Typed` is `TypeOK` with sequences and ranges spelled out; it is inductive by itself.
- `LogAlwaysReplays` (`LogReplays`, and `ViewsAreHistory`: what a handle believes is a state the log went
  through): `LogReplays` is not inductive, because a batch was folded before it is
  appended, in a state that may no longer be the end of the log. `History` adds that what a handle
  believes is the state at its own `lastSeq`, and that each body it has folded was legal in the
  state before it (`PathsFold`), and that sequence numbers count rows (`Numbered`). `Commit` then needs just one more fact, that `lastSeq = Len(log)`:
  the sequence check of the store makes it so. That is the argument of optimistic concurrency, and the reason the
  code may validate outside the transaction.
- `FoldedStatesSound`: `Sound` says `RunInv` of every state in the history, of every view and
  of every state folded in flight; each case is the lemma on `Reduce`.
- `SoleHandleCurrent`, `StaleForever`: from `Alone` (a handle that has been alone is at the end of the
  log, and no other handle is open) and from `Typed`.
- `RecoveryAccepted`, `RecoveryOnce`: `Recovering` says of every opener which rows of `Recover(view)` it has
  folded and which are left (`Recovers`), and of every state anywhere that its recovery gates carry sequence numbers of the past
  (`GatesPast`), so that the name of a new one is new. This needs `ReservedAssumption`.

**AgentStepProofs** (any steps, permits, batch sizes, events, refused writes). `IInv` is `Control` and `LogInv`. `Control` knows nothing of a
step's rows: how many steps are inside a task (`Permits`: that many permits are out, the queue holds each waiting step once, and only
waits when no permit is left), which terminal, error and attempt go with each place of the code (`Ordered`), where
a writing runner may be alive (`Writer`). `LogInv` ties each place to the rows of its step (`InLog`), as long as the run was not opened a second time
(`stale`), and says of a step that returned what stays true of its rows whatever others write (`Returns`). A row of one step leaves the
rows of the others alone (`SameIn`), so each handler is looked at once, for its own step. From it: `PermitsAreAccounted`,
`ReturnsMatchTheLog`, `TypeCorrect`, and of single steps `FirstDecides` and `AbortStartsNothing`.

**ExecutionProofs** (any phases, lenses, cycles, contents, resumes, disruptions). `IInv` is `Types`, `GateInv` and
`CommitInv`. `GateInv` says what is running and which gates are open at each place of the engine: `GatesOwnTheirSteps`. `CommitInv`
follows a content from the checks to the commit: the locals of the engine name a passed, then an accepted content
(`SeenIsPassed`, `SeenIsReviewed`), the durable intent names an accepted one, its unit and a parent behind which no other commit
of the unit is (`IntentIsReviewed`), so that a restart that finds a commit behind that parent has found its own. A commit is made before it is known what a
hook made of it, so `OwnAreVetted` lets the child of the intent's parent be in doubt while the intent is there; `CommitIsReviewed` says that the commit at
`complete` is that child and matches the accepted content, so none is in doubt when the intent is given up (`NoneInDoubt`). From these
`OnlyVettedIsCommitted` and `NoCommitIsLost`. `LedgerImplemented` is the refinement: `Init` maps to the ledger's, the engine's commit to
`CommitUnit`, the receipt to `Record`, the end to `End`, and all other steps leave the ledger as it is (`LedgerStutters`).

**PlanningProofs** (any lenses, rounds, questions, texts, commands, disruptions). `IInv` is `Types`, `Control` and `Books`.
`Control` says where the run is: the stage, the operation in flight and the round fit together (`Position`), what
runs or waits at a gate belongs to that operation or is the approval (`Owned`), and each place of the engine has its stage
(`Places`). That an idle run is at its approval or escalated is the last but one conjunct of `Places`: `RunsTakeCommands`. `Books` says what
the plan says: texts are numbered as they are written (`Numbered`: a person's text is one no version holds), the
answers are those of the plan and what an update expects to find is recorded (`Named`), and from `ApprovalWrites` on plan.md
shows the plan or a text that only it holds, as does what a command has rendered and not recorded yet (`Written`): `ApprovalConsistent`. Each action
is proved twice, once for either half, and most leave one of them as it was. `EditsOutliveUpdates` needs only `Named` and the list of the six actions that
write plan.md.

**HostProofs**, of Server (any sets of runs and requests). `ServerInv` adds to the
three checked invariants what they need: a log that exists has rows (`Written0`), a request past its
look at the log is about a run that exists and saw no more of it than there is (`RequestsKnow`), handles never know more than the store (`HandlesKnow`), a process that is down has no
tasks and no requests (`DownIsEmpty`), an update is accepted only at a gate
(`AcceptingAtGate`), a signal is aborted only while the server stops (`AbortedAwaited`), a run midway without a task was left so by its task, and until the next
start has no other (`LeftMidway`, `AloneIsLeft`). From it: `ServerTypeCorrect`, `NothingEverIdles`, `HandlesAreCurrent`, `ShutdownSettles`, and the action
property `RestartGates` (a restarted server gates every unfinished run and works on none).

**EventStreamProofs** (any rows, visits, faults). `WhatIsShownIsTrue`: `RowsInv` says that what the watcher has is 1..k, the response under way
carries the rows behind k without a hole, and the handler reads on behind those (`Follows`); a cut or a new visit only
shortens what is under way. `OverIsTrue` says of everything that announces the end (a summary, an answer, a close of the
stream) that the run has ended. `TypeCorrect`.

**HostProofs**, of Workspace (any faults, any number of processes). `FailedPreparationRepeats`: `Expected` is what is in the repository at each place of
a preparation when nobody interfered. `PreparationMindsItsOwn`, the action property: `MadeHere` (whoever verifies, records or undoes has made the
worktree itself) and `Undisturbed`. `NothingOutlivesItsJob`: of an agent that is being stopped something was said or it was aborted
(`SaidOrAborted`), so no member of its group is left without a reason. `TypeCorrect`.

**PiHandlerProofs** (any names, nested objects, values, manifests, starting files, processes; any number of edits and faults). An apply may stop
after any step, so what the journal says must explain the file at each of them. `Explained` is not inductive: it says nothing of an operation that is
planned and not begun, and not why the record may forget the one that is done. `IInv` is `Types` and three conjuncts.

- `Exclusive`: at most one process is at work, it has the lock, and an installer has the lock too, is about the operation in the journal, and leaves
  a process at work nowhere but at its wait. A second apply that finds the lock free therefore finds neither, whoever crashed before.
- `Sound(op, j, f, p, t)`, of an operation planned or begun: it keeps the ownership of all other names, found its name as it left it, and leads to an ownership
  whose value is what it makes and whose original is the person's (`p`, unless touched, `t`); and if nobody touched anything, the objects it leaves, before it is done
  (`Changed(f, op)`) and after (`f`), are the person's or those it records. The last is the reason that a release takes away every object the handler made.
  A planned operation is sound (`PlannedSound`), and stays so through its journal entry and the mending of a torn file (`SoundSame`), the handler's
  write (`ChangedSound`), the installer's (`WrittenSound`), and anybody's edit (`EditSound`, with `EditedBoxes`: an edit adds its own objects and frees none).
- `Place`: what a process knows at each place. Before a write it has read a file in which its name is as the operation found it or wants it, and either has noticed
  that the file changed since or the file is still that one (`Prepared`); at `record`, the name is as the operation wants it. `Told` is `Explained` with the objects while
  something is owned, and the pending operation sound.

An action has a lemma of its own; those by which an apply ends (`EndsKeeps`, `LeaveKeeps`), goes on (`GotoKeeps`) or is overtaken by a change of the
file (`OutsideKeeps`) share one each. From `IInv`: `JournalAlwaysExplains` and `TypeCorrect`; `NoEditIsLost`, the action property, because
only a setting's write and the start of an installer leave `execute` that way (`OnlyExecutes`), and both need `Prepared` with an unchanged file.
The lemmas on `Changed` (`ChangedIs` to `ChangedAlready`) say what one operation does to names and objects; `ChangedShaped` needs that objects nest.
`OperationsBringNearer` is the argument behind `ApplyEnds`, which itself stays with TLC: what is planned after an operation is what was planned before
without its name, so an apply that nobody interferes with has no more rounds than names.

*Model-checked only.*

- Liveness (`EveryStepReturns`, `EngineSettles`, `PlanningSettles`, `ShutdownCompletes`, `WatcherCatchesUp`, `JobReturns`, `ApplyEnds`):
  fairness and `ENABLED` are out of the prover's reach.
- That the operators are the code's: `map` names the lines, and the mutants show that the properties notice.

## 5. What the models showed

Three statements of the docs or comments do not hold of the code (`findings` in `PROJECT.json`
quotes them). Each has a run in which TLC finds the counterexample.

1. `ExecutionOrphan` / `RestartedRunResumable`. A process that stops between recording a failed
   review (nothing in flight any more) and raising the gate that takes over the failed steps'
   own gates leaves a run whose every resume is refused as "unrelated open gate".
2. `ExecutionHistory` / `UnexpectedHistoryStaysGated`. A commit somebody makes in the worktree
   while the checks run is stored with the new workspace identity, and the engine goes on to commit on it.
3. `ServerRepeat` / `LiveRunNeverRecovered`. Repeating an `implement` request opens the run, and
   opening it runs the startup recovery, on a run whose agent is at work.

Further observations have no run of their own. A request accepted before a shutdown
schedules its task after `shutdown` has aborted the others (`composition.ts`, 397 and 592): the task is
awaited but was never told to stop. An interrupt between the start of an installer and the line that clears
`shutdown_certain` (`runtime.py`, 183-193) ends the apply as if no installer ran.

The run page (`EventStream`). `EndedPageIsWhole`, stated in the module and not in a run, is refuted: the history is fetched once and never
goes stale (`useRunActivity.ts`, 34), so a page that is opened again after the run ended, while the query cache still holds the rows of the first
visit and a newer summary, says "Ended" over a log that lacks its last rows, with nothing left to fetch. A summary that says "ended" and
comes while the last rows are still on their way likewise ends the stream before they are shown; `RowsArrive` excepts exactly this.

The worktree (`Worktrees`). `FailureIsRepeatable` excepts a git command that was cut off: when `git worktree add` is killed, or the undoing of
a preparation is aborted after the worktree is removed and before its branch is, the branch that stays makes every further preparation
fail as a collision, although the comment at `adapters/git/src/execution.ts`, 232 means the undo to prevent that.

What runs in it (`Processes`). A check whose command leaves a process outside its group with the pipes open does not return
while that process lives, timeout and abort notwithstanding: the code waits for the `close` event
(`JobReturns` excepts it). And a writing agent runs detached in a group of its own: when the server is killed the group lives on, nothing finds
it again, and a resumed run may write beside it (`ReturnedIsOver` excepts the reason "crash"), where
`docs/payo/engine-design.md`, 169 speaks of one writer.

The review (`Execution`). A diff too large for its bound is thrown by the git adapter, so that during a review it ends at the
general gate of `runOrGate`; the explicit answer "diff exceeds the 4 MiB bound" (`execution-review.ts`, 121) is out of reach with this
adapter. A scope map the scout gets wrong is refused after its step has succeeded, with no second attempt, and ends at the same gate.

The commit hook (`Execution`). A `pre-commit` hook that restages makes a commit of the engine's own whose content nobody reviewed. The code notices only
afterwards (`adapters/git/src/execution.ts`, 605-616), gates the run and takes the commit over at no later point, but leaves it on the
branch: each resume meets it, and gates again.

The shutdown and uncaught errors (`Server`). `shutdown` waits for the tasks, not for their runs to be at a gate: an aborted execution ends where it is, and
its run stays between two operations or with a step running until the next start gates it. An error of planning outside its agent steps (`readPlan`,
`writePlan`, a store that fails; `commands.ts`, 178 and 191) ends its task with a line in the server's log: the run looks active, has no gate, and no command is
accepted for it until the server is restarted. The two statements of the server except these by name.

`CommitsAreVetted` holds in spite of finding 2: what is committed on top of the foreign commit was still checked and
reviewed. `NothingIdles` and `HandleIsCurrent` are stated around finding 3: the run recovered under its
task is the one whose handle may lag.

## 6. Plan

Done, in this order: run log and its proofs; agent steps; execution with its ledger; planning; server
and its proofs; the Pi handler; the event stream; the preparation of worktrees and what runs in them. The liveness runs of agent steps and planning
are folded into their safety runs. Then the proofs of all of these (section 4), the Pi handler's last.

Left for models: the artifact files (written before the row that names them, so that a crash leaves an
unused file and never a missing one) and `artifact.recorded` once per content against "the last of its kind"; a startup recovery that fails for one run; the
settings file's revision check under its lock; the outline of a plan's phases as a function of its Markdown; the installers' lock file.

## 7. Not modelled

The HTTP routes, parsing, status codes and authentication, configuration parsing, prompts and role files, the Jira
call, read models and metrics, the forms and the rendering of the web console, printing and single requests of the command line: stateless, or
text. The fake runner: a test double. The Python installers: one process, no recovery. Within the modelled parts: contents of agents' reports (a
report has the outcome it leads to), of diffs (one fits in its bound or does not) and of a check's output, timestamps and ids, file
permissions, schema migration, a failing startup recovery in Server (its hazard is listed); in EventStream a second
watcher of the same run (watchers share nothing but the log), and the pages of other runs; in Workspace more than one
reader at a time, and Windows, where writing agents are refused; in PiHandler a second
manifest path, overlapping shapes, settings that Pi would migrate, `doctor` and `bump`.
