------------------------------- MODULE Server -------------------------------
(***************************************************************************)
(* The server process (apps/server/src/composition.ts, main.ts): which     *)
(* handle of a run it has registered, which runs it has a task working on, *)
(* and how requests, running engines, a graceful shutdown, a crash and the *)
(* startup recovery meet.  How a run gets on is left to Planning and       *)
(* Execution: here an engine writes to its log until the run ends or       *)
(* stands at a gate, or its task ends before that: an aborted execution    *)
(* returns without a gate, and some errors are turned into none.           *)
(***************************************************************************)
EXTENDS Naturals

CONSTANTS
  Plans,        \* planning runs: each start request has a new one
  Executions,   \* execution runs: the target of a request names its run
  Requests,     \* requests in flight that start or find a run
  \* bounds
  MaxLen,       \* writes to a run's log before it must end or be gated
  MaxSpent      \* requests, commands, crashes and shutdowns

VARIABLES
  store,    \* the durable log of each run: its length and where the run stands
  handle,   \* the registered handle of each run: the log as it knows it
  task,     \* the task working on each run, and its abort signal
  req,      \* the requests in flight
  life,     \* the process: up, stopping, closed (the store is), down
  dropped,  \* history: why the last task of a run left it midway, since the start
  spent

serverVars == <<store, handle, task, req, life, dropped, spent>>

Runs == Plans \cup Executions
\* between: no step is running and no gate is open; halted: the step that was
\* running stands behind an interruption gate; gated: a gate that a command takes.
Places == {"none", "between", "step", "halted", "gated", "ended"}
Log(len, at) == [len |-> len, at |-> at]
NoLog == Log(0, "none")
NoReq == [pc |-> "free", run |-> "none", seen |-> NoLog]

\* The run is in the middle of its work, at no gate.
Midway(r) == store[r].at \in {"between", "step"}

Running == life \in {"up", "stopping"}
Spend == spent < MaxSpent /\ spent' = spent + 1

(***************************************************************************)
(* waitForIdle and shutdown: the store closes when no task is left.        *)
(***************************************************************************)
\* A mutant of Idle: tasks that came after the shutdown began are not awaited.
IdleOnce(tasks) == \A r \in Runs : tasks[r] \notin {"aborted", "accepting"}
Idle(tasks) == \A r \in Runs : tasks[r] = "none"

SetTask(tasks) ==
  /\ task' = tasks
  /\ life' = IF life = "stopping" /\ Idle(tasks) THEN "closed" ELSE life

Shutdown ==
  /\ life = "up" /\ Spend
  /\ task' = [r \in Runs |-> IF task[r] = "live" THEN "aborted" ELSE task[r]]
  /\ life' = IF Idle(task) THEN "closed" ELSE "stopping"
  /\ UNCHANGED <<store, handle, req, dropped>>

(***************************************************************************)
(* start and implement.  Both ask whether the server is stopping before    *)
(* anything else, and never again.                                         *)
(***************************************************************************)
Arrives(q, r) ==
  /\ life = "up" /\ req[q] = NoReq /\ Spend
  /\ r \in Plans => store[r] = NoLog /\ \A p \in Requests : req[p].run # r
  /\ req' = [req EXCEPT ![q] = [pc |-> IF r \in Plans THEN "beginning" ELSE "finding",
                                run |-> r, seen |-> NoLog]]
  /\ UNCHANGED <<store, handle, task, life, dropped>>

Found(r) == IF store[r] = NoLog THEN "beginning" ELSE "opening"
\* findExistingExecution; then openRun reads the log of a run that exists.
Finds(q) ==
  /\ req[q].pc = "finding" /\ Running
  /\ req' = [req EXCEPT ![q].pc = Found(req[q].run), ![q].seen = store[req[q].run]]
  /\ UNCHANGED <<store, handle, task, life, dropped, spent>>

\* beginExecution, beginFactory: the run's first commit.  What comes after, up to
\* the task, has no other turn in between.  An execution that exists by now is
\* opened instead.
\* A mutant of Scheduled: the run is registered, and left alone.
ScheduledLater(r) == task
Scheduled(r) == [task EXCEPT ![r] = "live"]
Begins(q) ==
  LET r == req[q].run
  IN /\ req[q].pc = "beginning" /\ Running
     /\ IF store[r] = NoLog
        THEN /\ store' = [store EXCEPT ![r] = Log(1, "between")]
             /\ handle' = [handle EXCEPT ![r] = Log(1, "between")]
             /\ SetTask(Scheduled(r))
             /\ req' = [req EXCEPT ![q] = NoReq]
        ELSE /\ req' = [req EXCEPT ![q].pc = "opening", ![q].seen = store[r]]
             /\ UNCHANGED <<store, handle, task, life>>
     /\ UNCHANGED <<dropped, spent>>

\* openRun's commit: recover's events, if a step is running.  An empty commit does
\* not look at the log.
Recovered(log) == IF log.at = "step" THEN Log(log.len + 1, "halted") ELSE log
Opens(q) ==
  LET r == req[q].run
      seen == req[q].seen
  IN /\ req[q].pc = "opening" /\ Running
     /\ IF Recovered(seen) = seen \/ seen.len = store[r].len
        THEN /\ req' = [req EXCEPT ![q].pc = "opened", ![q].seen = Recovered(seen)]
             /\ store' = IF Recovered(seen) = seen THEN store
                         ELSE [store EXCEPT ![r] = Recovered(seen)]
        ELSE req' = [req EXCEPT ![q] = NoReq] /\ UNCHANGED store   \* StaleSeqError
     /\ UNCHANGED <<handle, task, life, dropped, spent>>

\* A mutant of Registered: the handle just opened takes the registered one's place.
RegisteredAnyway(r, log) == log
Registered(r, log) == IF handle[r] = NoLog THEN log ELSE handle[r]
Registers(q) ==
  LET r == req[q].run
  IN /\ req[q].pc = "opened" /\ Running
     /\ handle' = [handle EXCEPT ![r] = Registered(r, req[q].seen)]
     /\ req' = [req EXCEPT ![q] = NoReq]
     /\ UNCHANGED <<store, task, life, dropped, spent>>

\* A base, a role source or the request itself is no good, or the store has closed.
Refused(q) ==
  /\ req[q] # NoReq /\ life # "down"
  /\ req' = [req EXCEPT ![q] = NoReq]
  /\ UNCHANGED <<store, handle, task, life, dropped, spent>>

(***************************************************************************)
(* Commands.  resume, requestChanges: a gate of the handle, and no task at *)
(* work; whether the server is stopping is not asked.  planUpdate asks,    *)
(* and its task is scheduled once the update is accepted.                  *)
(***************************************************************************)
Commandable(r) == handle[r].at = "gated" /\ task[r] = "none"

Resume(r) ==
  /\ Running /\ Commandable(r) /\ Spend
  /\ SetTask([task EXCEPT ![r] = "live"])
  /\ UNCHANGED <<store, handle, req, dropped>>

PlanUpdate(r) ==
  /\ life = "up" /\ r \in Plans /\ Commandable(r) /\ Spend
  /\ SetTask([task EXCEPT ![r] = "accepting"])
  /\ UNCHANGED <<store, handle, req, dropped>>

PlanUpdateAccepted(r) ==
  /\ Running /\ task[r] = "accepting" /\ store[r] = handle[r]
  /\ LET log == Log(store[r].len + 1, "between")
     IN store' = [store EXCEPT ![r] = log] /\ handle' = [handle EXCEPT ![r] = log]
  /\ SetTask([task EXCEPT ![r] = "live"])
  /\ UNCHANGED <<req, dropped, spent>>

PlanUpdateRefused(r) ==
  /\ Running /\ task[r] = "accepting"
  /\ SetTask([task EXCEPT ![r] = "none"])
  /\ UNCHANGED <<store, handle, req, dropped, spent>>

(***************************************************************************)
(* A task: its engine writes through the registered handle.  At the end of *)
(* the run or at a gate it is done.  An aborted one may write on until it  *)
(* looks at its signal.                                                    *)
(***************************************************************************)
Written(r) ==
  LET going == {"between", "step"}
      done == {"gated", "ended"}
  IN IF store[r].len >= MaxLen THEN done ELSE going \cup done

EngineWrites(r) ==
  /\ Running /\ task[r] \in {"live", "aborted"} /\ store[r].len = handle[r].len
  /\ \E at \in Written(r) :
       LET log == Log(store[r].len + 1, at)
       IN /\ store' = [store EXCEPT ![r] = log] /\ handle' = [handle EXCEPT ![r] = log]
          /\ SetTask([task EXCEPT ![r] = IF at \in {"gated", "ended"} THEN "none" ELSE @])
  /\ UNCHANGED <<req, dropped, spent>>

\* A task ends with nothing written.
\* A mutant of Failed: a task that fails stays in the set of tasks.
FailedKept(r) == [task EXCEPT ![r] = "failed"]
Failed(r) == [task EXCEPT ![r] = "none"]
Leaves(r, why) ==
  /\ SetTask(Failed(r))
  /\ dropped' = IF Midway(r) THEN [dropped EXCEPT ![r] = why] ELSE dropped
  /\ UNCHANGED <<store, handle, req, spent>>

\* runOrGate and what it runs: an aborted execution leaves its loop, or rethrows,
\* and raises no gate.
EngineStops(r) ==
  Running /\ r \in Executions /\ task[r] = "aborted" /\ Leaves(r, "stopped")

\* An error becomes no gate, and is logged: planning catches none of its own reads
\* and writes of plan.md and the log; the gate that an execution raises is a write
\* too; and a handle that the log has moved on without can write nothing.
EngineThrows(r) == Running /\ task[r] \in {"live", "aborted"} /\ Leaves(r, "threw")

(***************************************************************************)
(* The process.                                                            *)
(***************************************************************************)
ServerDown ==
  /\ life' = "down"
  /\ handle' = [r \in Runs |-> NoLog] /\ task' = [r \in Runs |-> "none"]
  /\ req' = [q \in Requests |-> NoReq]
  /\ dropped' = [r \in Runs |-> "no"]
  /\ UNCHANGED store

ServerExit == life = "closed" /\ ServerDown /\ UNCHANGED spent
Crash == life # "down" /\ Spend /\ ServerDown

\* openFactory, openExecution of each run: a run at no gate is put behind one.
Reopened(log) ==
  IF log.at \in {"between", "step", "halted"} THEN Log(log.len + 1, "gated") ELSE log
ServerRestart ==
  /\ life = "down"
  /\ store' = [r \in Runs |-> Reopened(store[r])]
  /\ handle' = store'
  /\ life' = "up"
  /\ UNCHANGED <<task, req, dropped, spent>>

(***************************************************************************)
(* The specification.                                                      *)
(***************************************************************************)
ServerInit ==
  /\ store = [r \in Runs |-> NoLog] /\ handle = store
  /\ task = [r \in Runs |-> "none"] /\ req = [q \in Requests |-> NoReq]
  /\ dropped = [r \in Runs |-> "no"]
  /\ life = "up" /\ spent = 0

RequestStep(q) == Finds(q) \/ Begins(q) \/ Opens(q) \/ Registers(q) \/ Refused(q)
TaskStep(r) ==
  \/ PlanUpdateAccepted(r) \/ PlanUpdateRefused(r)
  \/ EngineWrites(r) \/ EngineStops(r) \/ EngineThrows(r)
ServerNext ==
  \/ \E q \in Requests : RequestStep(q) \/ \E r \in Runs : Arrives(q, r)
  \/ \E r \in Runs : TaskStep(r) \/ Resume(r) \/ PlanUpdate(r)
  \/ Shutdown \/ ServerExit \/ Crash \/ ServerRestart

\* Every task returns (EveryStepReturns, EngineSettles and PlanningSettles say so of
\* what it runs), and a stopped server is started again.
ServerFairness ==
  /\ \A r \in Runs : WF_serverVars(TaskStep(r))
  /\ WF_serverVars(ServerRestart) /\ WF_serverVars(ServerExit)
ServerSpec == ServerInit /\ [][ServerNext]_serverVars /\ ServerFairness

(***************************************************************************)
(* Properties.                                                             *)
(***************************************************************************)
\* A handle never knows more of a log than is durable; a task works, or is gone.
ServerTypeOK ==
  /\ \A r \in Runs : /\ store[r].at \in Places /\ handle[r].at \in Places
                     /\ handle[r].len <= store[r].len /\ store[r].len \in Nat
                     /\ task[r] \in {"none", "accepting", "live", "aborted"}
                     /\ dropped[r] \in {"no", "stopped", "threw"}
  /\ \A q \in Requests : req[q].pc \in {"free", "finding", "beginning", "opening", "opened"}
  /\ life \in {"up", "stopping", "closed", "down"}

\* While the server runs, a run that is in the middle of its work has a task.  The
\* exceptions: the task met an error that becomes no gate, or the shutdown stopped
\* it.  Such a run looks active, and nothing takes it up again before a restart.
NothingIdles ==
  Running => \A r \in Runs :
    /\ Midway(r) /\ task[r] = "none" =>
         dropped[r] = "threw" \/ (dropped[r] = "stopped" /\ life = "stopping")
    /\ dropped[r] # "no" => task[r] = "none"

\* The handle the server answers from stands where the durable log stands, whatever
\* was requested twice, opened twice or restarted; only a run that was recovered
\* under its task lags behind.
HandleIsCurrent ==
  Running => \A r \in Runs : store[r].at = "halted" \/ handle[r] = store[r]

\* plan "Payo server and CLI": "wait for them to settle and persist their state, then
\* close the store".  The store closes under no task, those included that began after
\* the shutdown: a run that is left midway is one whose task has ended by itself, as
\* an aborted execution does, and which the next start gates (RecoveredIsGated).
ClosedIsSettled ==
  life = "closed" => \A r \in Runs :
    task[r] = "none" /\ (Midway(r) => dropped[r] # "no")

\* A restarted server has a command for every run that has not ended, and works on
\* none by itself.
RecoveredIsGated ==
  [][life = "down" /\ life' = "up" =>
       \A r \in Runs : handle'[r].at \in {"none", "gated", "ended"} /\ task'[r] = "none"]_serverVars

\* A graceful shutdown comes to its end, whatever is requested meanwhile.
ShutdownCompletes == life = "stopping" ~> life \in {"closed", "down"}

\* run.ts, recover: "Startup only".  While its server runs, no step is put behind an
\* interruption gate.
LiveRunNeverRecovered ==
  [][Running /\ life' # "down" =>
       \A r \in Runs : store'[r].at = "halted" => store[r].at = "halted"]_serverVars
=============================================================================
