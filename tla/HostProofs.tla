---------------------------- MODULE HostProofs ----------------------------
(***************************************************************************)
(* Proofs about the host of the runs: module Server, the server process    *)
(* (what it answers from is what its store holds, and which runs can be in *)
(* the middle of their work without a task), and module Workspace, the     *)
(* workspace of an execution under a server (what a preparation leaves behind and deletes, *)
(* and what is still alive when a job has returned).  The two are separate *)
(* specifications.                                                         *)
(***************************************************************************)
EXTENDS Server, Workspace, FiniteSetTheorems, TLAPS

(***************************************************************************)
(* The server process.                                                     *)
(***************************************************************************)
Logs == [len : Nat, at : Places]

\* The types of everything, as the proofs need them.
ServerTypes ==
  /\ store \in [Runs -> Logs] /\ handle \in [Runs -> Logs]
  /\ task \in [Runs -> {"none", "accepting", "live", "aborted"}]
  /\ req \in [Requests -> [pc : {"free", "finding", "beginning", "opening", "opened"},
                           run : Runs \cup {"none"}, seen : Logs]]
  /\ life \in {"up", "stopping", "closed", "down"}
  /\ dropped \in [Runs -> {"no", "stopped", "threw"}]

\* A log without writes is the log of a run that does not exist.
Written0 == \A r \in Runs : store[r].len = 0 <=> store[r].at = "none"

\* A request past the look at the log is about a run that exists, and saw no more of
\* it than there is.
RequestsKnow ==
  \A q \in Requests :
    /\ req[q].pc # "free" => req[q].run \in Runs
    /\ req[q].pc \in {"opening", "opened"} =>
         /\ store[req[q].run].len > 0
         /\ req[q].seen.len <= store[req[q].run].len

\* Outside a running server there is neither a handle nor a task, but for a store
\* that has just been closed.
HandlesKnow == \A r \in Runs : handle[r].len <= store[r].len
DownIsEmpty ==
  life = "down" => \A r \in Runs : handle[r] = NoLog /\ task[r] = "none"
AcceptingAtGate == \A r \in Runs : task[r] = "accepting" => handle[r].at = "gated"

\* An aborted task is one that the shutdown still waits for.
AbortedAwaited == \A r \in Runs : task[r] = "aborted" => life = "stopping"
\* A run that its task has left midway keeps a handle that shows it midway, so that no
\* command takes it.
LeftMidway ==
  \A r \in Runs : dropped[r] # "no" =>
    /\ task[r] = "none" /\ handle[r].at \in {"between", "step"}
    /\ dropped[r] = "stopped" => life \in {"stopping", "closed"}
\* Whoever is midway without a task was left so.
AloneIsLeft ==
  Running => \A r \in Runs : Midway(r) /\ task[r] = "none" => dropped[r] # "no"

ServerInv ==
  /\ ServerTypes /\ Written0 /\ RequestsKnow /\ HandlesKnow /\ DownIsEmpty /\ AcceptingAtGate
  /\ AbortedAwaited /\ LeftMidway /\ AloneIsLeft /\ HandleIsCurrent /\ ClosedIsSettled

-----------------------------------------------------------------------------
(* ServerInit, and steps that only move a task, a request, or the process. *)

LEMMA Initially == ServerInit => ServerInv
BY DEF ServerInit, ServerInv, ServerTypes, Written0, RequestsKnow, HandlesKnow, DownIsEmpty,
       AcceptingAtGate, AbortedAwaited, LeftMidway, AloneIsLeft, Midway, HandleIsCurrent,
       ClosedIsSettled, Logs, Places, NoLog, NoReq, Log, Running

\* What SetTask does to the invariant: a task may be given up only where no run is in
\* the middle of its work, and given only to a run that is not.
LEMMA TaskMoves ==
  ASSUME ServerInv, NEW tasks \in [Runs -> {"none", "accepting", "live", "aborted"}],
         Running, SetTask(tasks), UNCHANGED <<store, handle, req, dropped>>,
         \A r \in Runs : Midway(r) => tasks[r] = task[r],
         \A r \in Runs : handle[r].at \in {"between", "step"} => tasks[r] \in {task[r], "none"},
         \A r \in Runs : tasks[r] = "aborted" => task[r] = "aborted",
         \A r \in Runs : tasks[r] = "accepting" => handle[r].at = "gated"
  PROVE  ServerInv'
<1>1. /\ ServerTypes' /\ Written0' /\ RequestsKnow' /\ HandlesKnow' /\ HandleIsCurrent'
      /\ DownIsEmpty' /\ AcceptingAtGate'
  BY DEF ServerInv, ServerTypes, Written0, RequestsKnow, HandlesKnow, DownIsEmpty,
         AcceptingAtGate, HandleIsCurrent, SetTask, Running
<1>2. AbortedAwaited' /\ LeftMidway'
  BY DEF ServerInv, ServerTypes, AbortedAwaited, LeftMidway, SetTask, Idle, Running
<1>3. AloneIsLeft' /\ ClosedIsSettled'
  BY DEF ServerInv, ServerTypes, AloneIsLeft, ClosedIsSettled, Midway, SetTask, Idle, Running
<1> QED BY <1>1, <1>2, <1>3 DEF ServerInv

\* A task that leaves its run, midway or not.
LEMMA LeavesKeep ==
  ASSUME ServerInv, NEW r \in Runs, Running, task[r] \in {"live", "aborted"},
         NEW why \in {"stopped", "threw"}, why = "stopped" => life = "stopping",
         Leaves(r, why)
  PROVE  ServerInv'
<1>1. /\ SetTask([task EXCEPT ![r] = "none"]) /\ UNCHANGED <<store, handle, req>>
      /\ dropped' = IF Midway(r) THEN [dropped EXCEPT ![r] = why] ELSE dropped
  BY DEF Leaves, Failed
<1>2. /\ ServerTypes' /\ Written0' /\ RequestsKnow' /\ HandlesKnow' /\ HandleIsCurrent'
      /\ DownIsEmpty' /\ AcceptingAtGate'
  BY <1>1 DEF ServerInv, ServerTypes, Written0, RequestsKnow, HandlesKnow, DownIsEmpty,
              AcceptingAtGate, HandleIsCurrent, SetTask, Running
<1>3. AbortedAwaited'
  BY <1>1 DEF ServerInv, ServerTypes, AbortedAwaited, SetTask, Idle, Running
<1>4. Midway(r) => handle[r].at \in {"between", "step"}
  BY DEF ServerInv, HandleIsCurrent, Midway
<1>5. life' \in {life, "closed"} /\ (life' # life => life = "stopping")
  BY <1>1 DEF SetTask
<1> DEFINE given == [task EXCEPT ![r] = "none"]
<1>6. /\ task' = given /\ given[r] = "none" /\ \A x \in Runs \ {r} : given[x] = task[x]
      /\ dropped' \in {dropped, [dropped EXCEPT ![r] = why]}
      /\ \A x \in Runs \ {r} : dropped'[x] = dropped[x]
      /\ IF Midway(r) THEN dropped'[r] = why ELSE dropped'[r] = dropped[r]
  BY <1>1 DEF SetTask, ServerInv, ServerTypes
<1> HIDE DEF given
<1>7. LeftMidway'
  <2> SUFFICES ASSUME NEW x \in Runs, dropped'[x] # "no"
               PROVE  /\ task'[x] = "none" /\ handle'[x].at \in {"between", "step"}
                      /\ dropped'[x] = "stopped" => life' \in {"stopping", "closed"}
    BY DEF LeftMidway
  <2>1. CASE x # r
    BY <1>1, <1>5, <1>6, <2>1 DEF ServerInv, LeftMidway
  <2>2. CASE x = r /\ Midway(r)
    BY <1>1, <1>4, <1>5, <1>6, <2>2
  <2>3. CASE x = r /\ ~Midway(r)
    BY <1>1, <1>5, <1>6, <2>3 DEF ServerInv, LeftMidway
  <2> QED BY <2>1, <2>2, <2>3
<1>9. \A x \in Runs : Midway(x)' /\ task'[x] = "none" => dropped'[x] # "no"
  BY <1>1, <1>6 DEF ServerInv, AloneIsLeft, Midway
<1>8. AloneIsLeft' /\ ClosedIsSettled'
  BY <1>1, <1>9 DEF AloneIsLeft, ClosedIsSettled, SetTask, Idle, Running
<1> QED BY <1>2, <1>3, <1>7, <1>8 DEF ServerInv

\* What a write through the registered handle does to it: log and handle move
\* together, and the task is still there unless the run has come to rest.
LEMMA HandleWrites ==
  ASSUME ServerInv, Running, UNCHANGED <<req, dropped>>,
         NEW r \in Runs, NEW at \in Places \ {"none"}, task[r] # "none",
         NEW task1 \in {"none", "live", "aborted"},
         at \in {"between", "step"} => task1 # "none",
         task1 = "aborted" => task[r] = "aborted",
         store' = [store EXCEPT ![r] = Log(store[r].len + 1, at)],
         handle' = [handle EXCEPT ![r] = Log(store[r].len + 1, at)],
         SetTask([task EXCEPT ![r] = task1])
  PROVE  ServerInv'
<1> DEFINE log == Log(store[r].len + 1, at)
<1>1. log \in Logs /\ log.len = store[r].len + 1 /\ log.at = at /\ store[r].len \in Nat
  BY DEF ServerInv, ServerTypes, Logs, Log
<1>2. ServerTypes'
  BY <1>1 DEF ServerInv, ServerTypes, SetTask
<1>3. Written0' /\ HandlesKnow'
  BY <1>1 DEF ServerInv, ServerTypes, Logs, Written0, HandlesKnow
<1>4. RequestsKnow'
  BY <1>1 DEF ServerInv, ServerTypes, Logs, RequestsKnow
<1>5. DownIsEmpty' /\ AcceptingAtGate'
  BY <1>1 DEF ServerInv, ServerTypes, DownIsEmpty, AcceptingAtGate, SetTask, Running
<1>6. HandleIsCurrent'
  BY <1>1 DEF ServerInv, ServerTypes, HandleIsCurrent, SetTask, Running
<1>7. AbortedAwaited'
  BY DEF ServerInv, ServerTypes, AbortedAwaited, SetTask, Idle, Running
<1>8. dropped[r] = "no"
  BY DEF ServerInv, ServerTypes, LeftMidway
<1>9. LeftMidway'
  BY <1>8 DEF ServerInv, ServerTypes, LeftMidway, SetTask
<1>10. \A x \in Runs : Midway(x)' /\ task'[x] = "none" => dropped'[x] # "no"
  <2> TAKE x \in Runs
  <2>1. task' = [task EXCEPT ![r] = task1]
    BY DEF SetTask
  <2>2. CASE x = r
    BY <1>1, <2>1, <2>2 DEF ServerInv, ServerTypes, Midway
  <2>3. CASE x # r
    BY <2>1, <2>3 DEF ServerInv, ServerTypes, AloneIsLeft, Midway
  <2> QED BY <2>2, <2>3
<1>11. AloneIsLeft' /\ ClosedIsSettled'
  BY <1>10 DEF AloneIsLeft, ClosedIsSettled, SetTask, Idle, Running
<1> QED BY <1>2, <1>3, <1>4, <1>5, <1>6, <1>7, <1>9, <1>11 DEF ServerInv

\* What a request does that only moves on.
LEMMA RequestMoves ==
  ASSUME ServerInv, NEW q \in Requests, NEW new,
         new \in [pc : {"free", "finding", "beginning", "opening", "opened"},
                  run : Runs \cup {"none"}, seen : Logs],
         new.pc # "free" => new.run \in Runs,
         new.pc \in {"opening", "opened"} =>
           store[new.run].len > 0 /\ new.seen.len <= store[new.run].len,
         req' = [req EXCEPT ![q] = new], UNCHANGED <<store, handle, task, life, dropped>>
  PROVE  ServerInv'
<1>1. ServerTypes' /\ RequestsKnow'
  BY DEF ServerInv, ServerTypes, RequestsKnow
<1> QED
  BY <1>1 DEF ServerInv, Written0, HandlesKnow, DownIsEmpty, AcceptingAtGate, AbortedAwaited,
              LeftMidway, AloneIsLeft, Midway, HandleIsCurrent, ClosedIsSettled, Running

-----------------------------------------------------------------------------
(* The actions.                                                            *)

LEMMA ShutdownKeeps == ServerInv /\ Shutdown => ServerInv'
<1> SUFFICES ASSUME ServerInv, Shutdown PROVE ServerInv'
  OBVIOUS
<1>1. /\ ServerTypes' /\ Written0' /\ RequestsKnow' /\ HandlesKnow' /\ HandleIsCurrent'
      /\ DownIsEmpty' /\ AcceptingAtGate'
  BY DEF ServerInv, ServerTypes, Written0, RequestsKnow, HandlesKnow, DownIsEmpty,
         AcceptingAtGate, HandleIsCurrent, Shutdown, Running
<1>2. AbortedAwaited' /\ LeftMidway'
  BY DEF ServerInv, ServerTypes, AbortedAwaited, LeftMidway, Shutdown, Idle
<1>3. AloneIsLeft' /\ ClosedIsSettled'
  BY DEF ServerInv, ServerTypes, AloneIsLeft, ClosedIsSettled, Midway, Shutdown, Idle, Running
<1> QED BY <1>1, <1>2, <1>3 DEF ServerInv

LEMMA ArrivesKeeps ==
  ASSUME ServerInv, NEW q \in Requests, NEW r \in Runs, Arrives(q, r) PROVE ServerInv'
<1> DEFINE new == [pc |-> IF r \in Plans THEN "beginning" ELSE "finding",
                   run |-> r, seen |-> NoLog]
<1>1. new \in [pc : {"free", "finding", "beginning", "opening", "opened"},
               run : Runs \cup {"none"}, seen : Logs]
  BY DEF Logs, NoLog, Log, Places
<1> QED BY <1>1, RequestMoves DEF Arrives

LEMMA RequestsKeep ==
  ASSUME ServerInv, NEW q \in Requests, RequestStep(q) PROVE ServerInv'
<1> DEFINE r == req[q].run
           Reqs == [pc : {"free", "finding", "beginning", "opening", "opened"},
                    run : Runs \cup {"none"}, seen : Logs]
<1>0. req[q] \in Reqs /\ NoReq \in Reqs /\ NoReq.pc = "free"
  BY DEF ServerInv, ServerTypes, NoReq, NoLog, Log, Logs, Places
<1>1. CASE Finds(q)
  <2> DEFINE new == [req[q] EXCEPT !.pc = Found(r), !.seen = store[r]]
  <2>1. r \in Runs /\ store[r] \in Logs
    BY <1>1 DEF Finds, ServerInv, RequestsKnow, ServerTypes
  <2>2. new \in Reqs /\ new.run = r /\ new.seen = store[r] /\ new.pc = Found(r)
    BY <1>0, <2>1 DEF Found
  <2>3. Found(r) = "opening" => store[r].len > 0
    BY <2>1 DEF Found, ServerInv, Written0, NoLog, Log, Logs
  <2>4. Found(r) \in {"opening", "beginning"} /\ store[r].len <= store[r].len
    BY <2>1 DEF Found, Logs
  <2>5. req' = [req EXCEPT ![q] = new] /\ UNCHANGED <<store, handle, task, life, dropped>>
    BY <1>1, <1>0 DEF Finds, ServerInv, ServerTypes
  <2> QED BY <2>1, <2>2, <2>3, <2>4, <2>5, RequestMoves
<1>2. CASE Begins(q)
  <2>1. r \in Runs /\ store[r] \in Logs
    BY <1>2 DEF Begins, ServerInv, RequestsKnow, ServerTypes
  <2>2. CASE store[r] = NoLog
    <3>1. /\ store' = [store EXCEPT ![r] = Log(1, "between")]
          /\ handle' = [handle EXCEPT ![r] = Log(1, "between")]
          /\ SetTask([task EXCEPT ![r] = "live"])
          /\ req' = [req EXCEPT ![q] = NoReq] /\ Running /\ UNCHANGED dropped
      BY <1>2, <2>2 DEF Begins, Scheduled
    <3>2. Log(1, "between") \in Logs /\ store[r].len = 0
          /\ Log(1, "between").len = 1 /\ Log(1, "between").at = "between"
      BY <2>2 DEF Log, Logs, Places, NoLog
    <3>3. ServerTypes'
      BY <1>0, <2>1, <3>1, <3>2 DEF ServerInv, ServerTypes, SetTask
    <3>4. Written0' /\ HandlesKnow'
      BY <2>1, <3>1, <3>2 DEF ServerInv, ServerTypes, Logs, Written0, HandlesKnow
    <3>5. RequestsKnow'
      BY <1>0, <2>1, <3>1, <3>2 DEF ServerInv, ServerTypes, Logs, RequestsKnow
    <3>6. DownIsEmpty' /\ AcceptingAtGate'
      BY <2>1, <3>1, <3>2
         DEF ServerInv, ServerTypes, DownIsEmpty, AcceptingAtGate, SetTask, Running
    <3>7. HandleIsCurrent' /\ AbortedAwaited'
      BY <2>1, <3>1, <3>2
         DEF ServerInv, ServerTypes, HandleIsCurrent, AbortedAwaited, SetTask, Idle, Running
    <3>8. dropped[r] = "no"
      BY <2>1, <2>2, <3>1
         DEF ServerInv, ServerTypes, LeftMidway, HandleIsCurrent, NoLog, Log
    <3>9. LeftMidway'
      BY <2>1, <3>1, <3>8 DEF ServerInv, ServerTypes, LeftMidway, SetTask
    <3>10. AloneIsLeft' /\ ClosedIsSettled'
      BY <2>1, <3>1, <3>2
         DEF ServerInv, ServerTypes, AloneIsLeft, ClosedIsSettled, Midway, SetTask, Idle, Running
    <3> QED BY <3>3, <3>4, <3>5, <3>6, <3>7, <3>9, <3>10 DEF ServerInv
  <2>3. CASE store[r] # NoLog
    <3> DEFINE new == [req[q] EXCEPT !.pc = "opening", !.seen = store[r]]
    <3>1. new \in Reqs /\ new.run = r /\ new.seen = store[r] /\ new.pc = "opening"
      BY <1>0, <2>1
    <3>2. store[r].len > 0 /\ store[r].len <= store[r].len
      BY <2>1, <2>3 DEF ServerInv, Written0, NoLog, Log, Logs
    <3>3. req' = [req EXCEPT ![q] = new] /\ UNCHANGED <<store, handle, task, life, dropped>>
      BY <1>2, <2>3, <1>0 DEF Begins, ServerInv, ServerTypes
    <3> QED BY <2>1, <3>1, <3>2, <3>3, RequestMoves
  <2> QED BY <2>2, <2>3
<1>3. CASE Opens(q)
  <2> DEFINE seen == req[q].seen
             new == [req[q] EXCEPT !.pc = "opened", !.seen = Recovered(seen)]
  <2>1. r \in Runs /\ store[r] \in Logs /\ seen \in Logs
        /\ store[r].len > 0 /\ seen.len <= store[r].len
    BY <1>3, <1>0 DEF Opens, ServerInv, RequestsKnow, ServerTypes
  <2>2. Recovered(seen) \in Logs
    BY <2>1 DEF Recovered, Log, Logs, Places
  <2>3. new \in Reqs /\ new.run = r /\ new.seen = Recovered(seen) /\ new.pc = "opened"
    BY <1>0, <2>2
  <2>4. CASE Recovered(seen) = seen
    <3>1. req' = [req EXCEPT ![q] = new] /\ UNCHANGED <<store, handle, task, life, dropped>>
      BY <1>3, <2>4, <1>0 DEF Opens, ServerInv, ServerTypes
    <3> QED BY <2>1, <2>3, <2>4, <3>1, RequestMoves
  <2>5. CASE Recovered(seen) # seen /\ seen.len = store[r].len
    <3>1. Recovered(seen) = Log(store[r].len + 1, "halted")
      BY <2>5 DEF Recovered
    <3>2. /\ Recovered(seen).len = store[r].len + 1 /\ Recovered(seen).at = "halted"
          /\ store[r].len \in Nat
      BY <3>1, <2>1 DEF Log, Logs
    <3>3. /\ store' = [store EXCEPT ![r] = Recovered(seen)]
          /\ req' = [req EXCEPT ![q] = new]
          /\ UNCHANGED <<handle, task, life, dropped>>
      BY <1>3, <2>5, <1>0 DEF Opens, ServerInv, ServerTypes
    <3>4. ServerTypes'
      BY <2>1, <2>2, <2>3, <3>3 DEF ServerInv, ServerTypes
    <3>5. Written0' /\ HandlesKnow'
      BY <2>1, <3>2, <3>3 DEF ServerInv, ServerTypes, Logs, Written0, HandlesKnow
    <3>6. RequestsKnow'
      BY <2>1, <2>3, <3>2, <3>3 DEF ServerInv, ServerTypes, Logs, RequestsKnow
    <3>7. /\ DownIsEmpty' /\ AcceptingAtGate' /\ AbortedAwaited' /\ LeftMidway' /\ AloneIsLeft'
          /\ HandleIsCurrent' /\ ClosedIsSettled'
      BY <2>1, <3>2, <3>3
         DEF ServerInv, ServerTypes, DownIsEmpty, AcceptingAtGate, AbortedAwaited, LeftMidway,
             AloneIsLeft, Midway, HandleIsCurrent, ClosedIsSettled, Running
    <3> QED BY <3>4, <3>5, <3>6, <3>7 DEF ServerInv
  <2>6. CASE Recovered(seen) # seen /\ seen.len # store[r].len
    BY <1>0, <1>3, <2>6, RequestMoves DEF Opens
  <2> QED BY <2>4, <2>5, <2>6
<1>4. CASE Registers(q)
  <2>1. r \in Runs /\ store[r] \in Logs /\ req[q].seen \in Logs
        /\ store[r].len > 0 /\ req[q].seen.len <= store[r].len
    BY <1>4, <1>0 DEF Registers, ServerInv, RequestsKnow, ServerTypes
  <2>2. /\ handle' = [handle EXCEPT ![r] = Registered(r, req[q].seen)]
        /\ req' = [req EXCEPT ![q] = NoReq]
        /\ UNCHANGED <<store, task, life, dropped>> /\ Running
    BY <1>4 DEF Registers
  <2>3. Registered(r, req[q].seen) \in Logs
        /\ Registered(r, req[q].seen).len <= store[r].len
    BY <2>1 DEF Registered, ServerInv, ServerTypes, HandlesKnow
  <2>4. store[r].at = "halted" \/ Registered(r, req[q].seen) = handle[r]
    BY <2>1, <2>2 DEF Registered, ServerInv, HandleIsCurrent, NoLog, Log, Logs
  <2>5. ServerTypes' /\ RequestsKnow' /\ Written0' /\ ClosedIsSettled' /\ AbortedAwaited'
    BY <1>0, <2>2, <2>3
       DEF ServerInv, ServerTypes, RequestsKnow, Written0, ClosedIsSettled, Midway, AbortedAwaited
  <2>6. HandlesKnow' /\ DownIsEmpty' /\ AloneIsLeft' /\ HandleIsCurrent'
    BY <2>1, <2>2, <2>3, <2>4
       DEF ServerInv, ServerTypes, HandlesKnow, DownIsEmpty, AloneIsLeft, Midway, HandleIsCurrent,
           Running
  <2>7. AcceptingAtGate' /\ LeftMidway'
    BY <2>1, <2>2
       DEF ServerInv, ServerTypes, AcceptingAtGate, LeftMidway, Registered, NoLog, Log
  <2> QED BY <2>5, <2>6, <2>7 DEF ServerInv
<1>5. CASE Refused(q)
  BY <1>0, <1>5, RequestMoves DEF Refused
<1> QED BY <1>1, <1>2, <1>3, <1>4, <1>5 DEF RequestStep

LEMMA CommandsKeep ==
  ASSUME ServerInv, NEW r \in Runs, Resume(r) \/ PlanUpdate(r) PROVE ServerInv'
<1>1. CASE Resume(r)
  <2>1. [task EXCEPT ![r] = "live"]
          \in [Runs -> {"none", "accepting", "live", "aborted"}]
    BY DEF ServerInv, ServerTypes
  <2>2. Running /\ handle[r].at = "gated" /\ task[r] = "none"
    BY <1>1 DEF Resume, Commandable
  <2>3. ~Midway(r)
    BY <2>2 DEF ServerInv, HandleIsCurrent, Midway
  <2>4. \A x \in Runs :
          /\ Midway(x) => [task EXCEPT ![r] = "live"][x] = task[x]
          /\ handle[x].at \in {"between", "step"} =>
               [task EXCEPT ![r] = "live"][x] \in {task[x], "none"}
          /\ [task EXCEPT ![r] = "live"][x] = "aborted" => task[x] = "aborted"
          /\ [task EXCEPT ![r] = "live"][x] = "accepting" => handle[x].at = "gated"
    BY <2>2, <2>3 DEF ServerInv, ServerTypes, AcceptingAtGate
  <2> QED BY <1>1, <2>1, <2>2, <2>4, TaskMoves DEF Resume
<1>2. CASE PlanUpdate(r)
  <2>1. [task EXCEPT ![r] = "accepting"]
          \in [Runs -> {"none", "accepting", "live", "aborted"}]
    BY DEF ServerInv, ServerTypes
  <2>2. Running /\ handle[r].at = "gated" /\ task[r] = "none"
    BY <1>2 DEF PlanUpdate, Commandable, Running
  <2>3. ~Midway(r)
    BY <2>2 DEF ServerInv, HandleIsCurrent, Midway
  <2>4. \A x \in Runs :
          /\ Midway(x) => [task EXCEPT ![r] = "accepting"][x] = task[x]
          /\ handle[x].at \in {"between", "step"} =>
               [task EXCEPT ![r] = "accepting"][x] \in {task[x], "none"}
          /\ [task EXCEPT ![r] = "accepting"][x] = "aborted" => task[x] = "aborted"
          /\ [task EXCEPT ![r] = "accepting"][x] = "accepting" => handle[x].at = "gated"
    BY <2>2, <2>3 DEF ServerInv, ServerTypes, AcceptingAtGate
  <2> QED BY <1>2, <2>1, <2>2, <2>4, TaskMoves DEF PlanUpdate
<1> QED BY <1>1, <1>2

LEMMA TasksKeep ==
  ASSUME ServerInv, NEW r \in Runs, TaskStep(r) PROVE ServerInv'
<1> DEFINE given == [task EXCEPT ![r] = "none"]
<1>0. given \in [Runs -> {"none", "accepting", "live", "aborted"}]
  BY DEF ServerInv, ServerTypes
<1>1. CASE PlanUpdateAccepted(r)
  BY <1>1, HandleWrites DEF PlanUpdateAccepted, Places
<1>2. CASE PlanUpdateRefused(r)
  <2>1. Running /\ ~Midway(r)
    BY <1>2 DEF PlanUpdateRefused, ServerInv, AcceptingAtGate, HandleIsCurrent, Midway
  <2>2. \A x \in Runs :
          /\ Midway(x) => given[x] = task[x]
          /\ given[x] \in {task[x], "none"}
          /\ given[x] = "aborted" => task[x] = "aborted"
          /\ given[x] = "accepting" => handle[x].at = "gated"
    BY <2>1 DEF ServerInv, ServerTypes, AcceptingAtGate
  <2> QED BY <1>0, <1>2, <2>1, <2>2, TaskMoves DEF PlanUpdateRefused
<1>3. CASE EngineWrites(r)
  <2>1. PICK at \in Written(r) :
          LET log == Log(store[r].len + 1, at)
          IN /\ store' = [store EXCEPT ![r] = log] /\ handle' = [handle EXCEPT ![r] = log]
             /\ SetTask([task EXCEPT ![r] = IF at \in {"gated", "ended"} THEN "none" ELSE @])
    BY <1>3 DEF EngineWrites
  <2> DEFINE task1 == IF at \in {"gated", "ended"} THEN "none" ELSE task[r]
  <2>2. at \in {"between", "step", "gated", "ended"}
    BY DEF Written
  <2>3. task1 \in {"none", "live", "aborted"}
        /\ (at \in {"between", "step"} => task1 # "none")
        /\ (task1 = "aborted" => task[r] = "aborted") /\ task[r] # "none"
    BY <1>3, <2>2 DEF EngineWrites
  <2>4. SetTask([task EXCEPT ![r] = task1])
    BY <2>1 DEF ServerInv, ServerTypes
  <2>5. Running /\ UNCHANGED <<req, dropped>> /\ at \in Places \ {"none"}
    BY <1>3, <2>2 DEF EngineWrites, Places
  <2> QED BY <2>1, <2>3, <2>4, <2>5, HandleWrites
<1>4. CASE EngineStops(r)
  <2>1. life = "stopping"
    BY <1>4 DEF EngineStops, ServerInv, AbortedAwaited
  <2> QED BY <1>4, <2>1, LeavesKeep DEF EngineStops
<1>5. CASE EngineThrows(r)
  BY <1>5, LeavesKeep DEF EngineThrows
<1> QED BY <1>1, <1>2, <1>3, <1>4, <1>5 DEF TaskStep

LEMMA ProcessKeeps == ServerInv /\ (ServerExit \/ Crash \/ ServerRestart) => ServerInv'
<1> SUFFICES ASSUME ServerInv, ServerExit \/ Crash \/ ServerRestart PROVE ServerInv'
  OBVIOUS
<1>1. CASE ServerExit \/ Crash
  <2>1. ServerDown
    BY <1>1 DEF ServerExit, Crash
  <2>2. NoLog \in Logs /\ NoLog.len = 0 /\ NoLog.at = "none" /\ NoReq.pc = "free"
        /\ NoReq.run = "none" /\ NoReq.seen = NoLog
    BY DEF NoLog, NoReq, Log, Logs, Places
  <2>3. ServerTypes'
    BY <2>1, <2>2 DEF ServerDown, ServerInv, ServerTypes, NoReq
  <2> QED
    BY <2>1, <2>2, <2>3
       DEF ServerDown, ServerInv, ServerTypes, Logs, Written0, RequestsKnow, HandlesKnow,
           DownIsEmpty, AcceptingAtGate, AbortedAwaited, LeftMidway, AloneIsLeft,
           HandleIsCurrent, ClosedIsSettled, Running
<1>2. CASE ServerRestart
  <2>1. \A r \in Runs :
          /\ Reopened(store[r]) \in Logs
          /\ Reopened(store[r]).at \notin {"between", "step"}
          /\ Reopened(store[r]).len = 0 <=> Reopened(store[r]).at = "none"
          /\ Reopened(store[r]).len >= store[r].len
    BY DEF Reopened, Log, Logs, Places, ServerInv, ServerTypes, Written0
  <2>2. /\ store' = [r \in Runs |-> Reopened(store[r])] /\ handle' = store'
        /\ life = "down" /\ life' = "up" /\ UNCHANGED <<task, req, dropped>>
    BY <1>2 DEF ServerRestart
  <2>3. ServerTypes' /\ Written0'
    BY <2>1, <2>2 DEF ServerInv, ServerTypes, Written0
  <2>4. RequestsKnow'
    BY <2>1, <2>2 DEF ServerInv, ServerTypes, Logs, RequestsKnow
  <2>5. HandlesKnow' /\ DownIsEmpty' /\ HandleIsCurrent'
    BY <2>1, <2>2 DEF ServerInv, ServerTypes, Logs, HandlesKnow, DownIsEmpty, HandleIsCurrent
  <2>6. AcceptingAtGate' /\ AbortedAwaited' /\ ClosedIsSettled'
    BY <2>2 DEF ServerInv, DownIsEmpty, AcceptingAtGate, AbortedAwaited, ClosedIsSettled
  <2>7. AloneIsLeft'
    BY <2>1, <2>2 DEF AloneIsLeft, Midway
  <2>8. LeftMidway'
    BY <2>2 DEF ServerInv, DownIsEmpty, LeftMidway, NoLog, Log
  <2> QED BY <2>3, <2>4, <2>5, <2>6, <2>7, <2>8 DEF ServerInv
<1> QED BY <1>1, <1>2

LEMMA Inductively == ServerInv /\ [ServerNext]_serverVars => ServerInv'
<1> SUFFICES ASSUME ServerInv, [ServerNext]_serverVars PROVE ServerInv'
  OBVIOUS
<1>1. CASE UNCHANGED serverVars
  BY <1>1 DEF serverVars, ServerInv, ServerTypes, Written0, RequestsKnow, HandlesKnow, DownIsEmpty,
              AcceptingAtGate, AbortedAwaited, LeftMidway, AloneIsLeft, Midway, HandleIsCurrent,
              ClosedIsSettled, Running
<1>2. CASE ServerNext
  BY <1>2, ShutdownKeeps, ArrivesKeeps, RequestsKeep, CommandsKeep, TasksKeep, ProcessKeeps
     DEF ServerNext
<1> QED BY <1>1, <1>2

-----------------------------------------------------------------------------
(* The theorems.                                                           *)

\* Every reachable state is well typed: no handle knows more of a run than its log.
THEOREM ServerTypeCorrect == ServerSpec => []ServerTypeOK
<1>1. ServerInv => ServerTypeOK
  BY DEF ServerInv, ServerTypes, HandlesKnow, Logs, ServerTypeOK
<1> QED BY <1>1, Initially, Inductively, PTL DEF ServerSpec

\* While the server runs, a run in the middle of its work has a task, unless its task
\* met an error that becomes no gate or was stopped by the shutdown; and a run left so
\* gets no second task before a restart.
THEOREM NothingEverIdles == ServerSpec => []NothingIdles
<1>1. ServerInv => NothingIdles
  BY DEF ServerInv, ServerTypes, AloneIsLeft, LeftMidway, NothingIdles, Running
<1> QED BY <1>1, Initially, Inductively, PTL DEF ServerSpec

\* The registered handle stands where the log stands, unless the run was recovered
\* under its task.
THEOREM HandlesAreCurrent == ServerSpec => []HandleIsCurrent
<1>1. ServerInv => HandleIsCurrent
  BY DEF ServerInv
<1> QED BY <1>1, Initially, Inductively, PTL DEF ServerSpec

\* A store closes gracefully under no task; a run it then holds in the middle of its
\* work is one whose task had ended by itself.
THEOREM ShutdownSettles == ServerSpec => []ClosedIsSettled
<1>1. ServerInv => ClosedIsSettled
  BY DEF ServerInv
<1> QED BY <1>1, Initially, Inductively, PTL DEF ServerSpec

\* A restarted server puts every unfinished run behind a gate and works on none.
THEOREM RestartGates == ServerSpec => RecoveredIsGated
<1>1. ServerInv /\ [ServerNext]_serverVars =>
        [life = "down" /\ life' = "up" =>
           \A r \in Runs : handle'[r].at \in {"none", "gated", "ended"} /\ task'[r] = "none"
        ]_serverVars
  <2> SUFFICES ASSUME ServerInv, ServerNext, life = "down", life' = "up",
                      NEW r \in Runs
               PROVE  handle'[r].at \in {"none", "gated", "ended"} /\ task'[r] = "none"
    BY DEF serverVars
  <2>1. ServerRestart
    BY DEF ServerNext, RequestStep, TaskStep, Arrives, Finds, Begins, Opens, Registers,
           Refused, Resume, PlanUpdate, PlanUpdateAccepted, PlanUpdateRefused,
           EngineWrites, EngineStops, EngineThrows, Shutdown, ServerExit, Crash, ServerDown,
           Running
  <2>2. handle'[r] = Reopened(store[r]) /\ task'[r] = "none" /\ store[r] \in Logs
    BY <2>1 DEF ServerRestart, ServerInv, DownIsEmpty, ServerTypes
  <2> QED BY <2>2 DEF Reopened, Log, Logs, Places
<1> QED BY <1>1, Initially, Inductively, PTL DEF ServerSpec, RecoveredIsGated

(***************************************************************************)
(* The preparation.                                                        *)
(***************************************************************************)
New == branch = "base" /\ entry /\ dir = "clean"
NewUnowned == New /\ meta = "none"
Takeable == Whole /\ Reusable /\ meta # "other"

\* Where a preparation has made the worktree it is at, or undoes it.
MadeHere == step \in {"verify", "own", "remove", "unbranch"} => mine

\* What a preparation that nobody has disturbed knows of the worktree.
Undisturbed ==
  ~touched => /\ step = "reuse" => Whole
              /\ step \in {"verify", "own"} => New

\* What is there at each point, when nobody has ever interfered and no command was
\* cut off.
Expected ==
  ~foreign /\ ~torn /\ ~recorded =>
    /\ step \in {"none", "failed", "look"} => Nothing \/ Takeable
    /\ step = "reuse" => Takeable
    /\ step = "add" => Nothing
    /\ step \in {"verify", "own", "remove"} => NewUnowned
    /\ step = "unbranch" =>
         NewUnowned \/ (branch = "base" /\ ~entry /\ dir = "none" /\ meta = "none")
    /\ step = "prepared" => New /\ meta = "own"

RecordedRests == recorded => step = "none"

LifeTypeOK == up \in BOOLEAN /\ aborted \in BOOLEAN /\ faults \in 0..MaxFaults

TreeInv ==
  /\ LifeTypeOK /\ TreeTypeOK
  /\ MadeHere /\ Undisturbed /\ Expected /\ RecordedRests

LEMMA TreeInitially == Init => TreeInv
<1> SUFFICES ASSUME Init PROVE TreeInv
  OBVIOUS
<1>1. faults \in 0..MaxFaults
  BY WorkspaceAssumption DEF Init
<1>2. up \in BOOLEAN /\ aborted \in BOOLEAN
  BY DEF Init
<1> QED
  BY <1>1, <1>2
     DEF Init, InitTree, TreeInv, LifeTypeOK, TreeTypeOK, MadeHere, Undisturbed, Expected,
         RecordedRests, Nothing

\* A further fault stays within the bound.
LEMMA DisturbTyped ==
  ASSUME LifeTypeOK, Disturb
  PROVE  LifeTypeOK'
<1>1. faults' \in 0..MaxFaults
  BY WorkspaceAssumption DEF LifeTypeOK, Disturb
<1>2. UNCHANGED <<up, aborted>>
  BY DEF Disturb
<1> QED BY <1>1, <1>2 DEF LifeTypeOK

LEMMA PreparationKeeps ==
  ASSUME TreeInv, TreeStep
  PROVE  TreeInv'
<1> USE DEF TreeInv, TreeTypeOK, MadeHere, Undisturbed, Expected, RecordedRests,
            New, NewUnowned, Takeable, Nothing, Whole, Reusable, NotOurs
<1>s. LifeTypeOK'
  BY DisturbTyped DEF TreeStep, Begin, Look, Reuse, Add, AddRefused, AddTorn, Verify,
     WriteOwnership, Fails, Remove, Unbranch, Record, Meddle, Goes, server, LifeTypeOK
<1>1. CASE Begin
  BY <1>1, <1>s DEF Begin, server, tree
<1>2. CASE Look
  BY <1>2, <1>s DEF Look, Goes, server, tree, notes
<1>3. CASE Reuse
  BY <1>3, <1>s DEF Reuse, server, notes
<1>4. CASE Add
  BY <1>4, <1>s DEF Add, Free, server
<1>5. CASE AddRefused
  BY <1>5, <1>s DEF AddRefused, AfterRefusal, Free, Goes, server, tree, notes
<1>6. CASE AddTorn
  BY <1>6, <1>s DEF AddTorn, Torn, AfterRefusal, Free, tree
<1>7. CASE Verify
  BY <1>7, <1>s DEF Verify, Goes, server, tree, notes
<1>8. CASE WriteOwnership
  BY <1>8, <1>s DEF WriteOwnership, server, notes
<1>9. CASE Fails
  <2>1. UNCHANGED <<tree, recorded, notes>>
    BY <1>9 DEF Fails
  <2>2. CASE step \in {"look", "reuse"} /\ step' = "failed"
    BY <2>1, <2>2, <1>s DEF tree, notes
  <2>3. CASE step \in {"verify", "own"} /\ step' = "remove"
    BY <2>1, <2>3, <1>s DEF tree, notes
  <2> QED BY <1>9, <2>2, <2>3 DEF Fails
<1>10. CASE Remove
  <2>1. /\ step = "remove" /\ step' = "unbranch"
        /\ UNCHANGED <<branch, meta, recorded, notes>>
    BY <1>10 DEF Remove
  <2>2. CASE entry' = FALSE /\ dir' = "none"
    BY <2>1, <2>2, <1>s DEF notes
  <2>3. CASE UNCHANGED <<entry, dir>>
    BY <2>1, <2>3, <1>s DEF notes
  <2> QED BY <1>10, <2>2, <2>3 DEF Remove
<1>11. CASE Unbranch
  <2>1. /\ step = "unbranch" /\ step' = "failed"
        /\ UNCHANGED <<entry, dir, meta, recorded, mine, touched, foreign>>
    BY <1>11 DEF Unbranch
  <2>2. CASE branch' = BranchAfterwards /\ torn' = torn
    BY <2>1, <2>2, <1>s DEF BranchAfterwards
  <2>3. CASE branch' = branch /\ torn' = (torn \/ ~entry)
    BY <2>1, <2>3, <1>s
  <2> QED BY <1>11, <2>2, <2>3 DEF Unbranch
<1>12. CASE Record
  BY <1>12, <1>s DEF Record, server, tree
<1>13. CASE Meddle
  BY <1>13, <1>s DEF Meddle
<1> QED
  BY <1>1, <1>2, <1>3, <1>4, <1>5, <1>6, <1>7, <1>8, <1>9, <1>10, <1>11, <1>12, <1>13
     DEF TreeStep

LEMMA CrashKeeps ==
  ASSUME TreeInv, TreeCrash, LifeTypeOK'
  PROVE  TreeInv'
BY ZenonT(60)
   DEF TreeInv, TreeTypeOK, MadeHere, Undisturbed, Expected, RecordedRests, New, NewUnowned,
       Takeable, Nothing, Whole, Reusable, TreeCrash, Torn, Free, tree

LEMMA TreeNext == TreeInv /\ [Next]_vars => TreeInv'
<1> SUFFICES ASSUME TreeInv, [Next]_vars PROVE TreeInv'
  OBVIOUS
<1>1. ASSUME UNCHANGED treeVars, LifeTypeOK' PROVE TreeInv'
  BY <1>1 DEF TreeInv, TreeTypeOK, MadeHere, Undisturbed, Expected, RecordedRests, New,
     NewUnowned, Takeable, Nothing, Whole, Reusable, treeVars, tree, notes
<1>2. CASE Prepare
  BY <1>2, PreparationKeeps DEF Prepare
<1>3. CASE StartJob \/ Work \/ Processing \/ UNCHANGED vars
  BY <1>3, <1>1 DEF StartJob, Work, Processing, vars, server, TreeInv, LifeTypeOK
<1>4. CASE Abort
  BY <1>4, <1>1, WorkspaceAssumption DEF Abort, TreeInv, LifeTypeOK
<1>5. CASE Down
  <2>1. LifeTypeOK'
    <3>1. faults' = faults \/ (faults < MaxFaults /\ faults' = faults + 1)
      BY <1>5 DEF Down
    <3>2. faults' \in 0..MaxFaults
      BY <3>1, WorkspaceAssumption DEF TreeInv, LifeTypeOK
    <3>3. up' = FALSE /\ aborted' = FALSE
      BY <1>5 DEF Down
    <3> QED BY <3>2, <3>3 DEF LifeTypeOK
  <2> QED BY <1>5, <2>1, CrashKeeps DEF Down
<1>6. CASE Restart
  BY <1>6, <1>1 DEF Restart, TreeInv, LifeTypeOK
<1> QED BY <1>2, <1>3, <1>4, <1>5, <1>6 DEF Next

LEMMA TreeAlways == Spec => []TreeInv
BY TreeInitially, TreeNext, PTL DEF Spec

\* A preparation that failed by itself can be repeated (execution.ts, prepare): what
\* it leaves is nothing, or a worktree the next one takes over.
THEOREM FailedPreparationRepeats == Spec => []FailureIsRepeatable
<1>1. TreeInv => FailureIsRepeatable
  BY DEF TreeInv, Expected, FailureIsRepeatable, Takeable
<1> QED BY <1>1, TreeAlways, PTL

\* A workspace handed out is whole, pinned, clean and its own, and a preparation
\* deletes only the branch and the directory it has made itself (execution.ts, the
\* undoing of a failed preparation).
THEOREM PreparationMindsItsOwn == Spec => PreparesItsOwn
<1> DEFINE Handed == step' = "prepared" /\ step # "prepared" /\ ~touched
                       => branch' = "base" /\ entry' /\ dir' = "clean" /\ meta' = "own"
           Deletes == \/ branch # "none" /\ branch' = "none"
                      \/ dir # "none" /\ dir' = "none"
           Minds == Handed /\ (step' # step /\ Deletes => mine)
<1>1. ASSUME TreeInv, TreeStep PROVE Minds
  <2> USE DEF TreeInv, TreeTypeOK, MadeHere, Undisturbed, New, Whole, Reusable
  <2>1. CASE Begin \/ Look \/ AddRefused \/ Verify \/ Fails \/ Record
    <3>1. step' # "prepared" /\ UNCHANGED tree
      BY <2>1 DEF Begin, Look, AddRefused, AfterRefusal, Verify, Fails, Record, Goes
    <3> QED BY <3>1 DEF tree
  <2>2. CASE Reuse \/ WriteOwnership
    BY <1>1, <2>2 DEF Reuse, WriteOwnership, notes
  <2>3. CASE Add \/ AddTorn
    <3>1. step' # "prepared" /\ Free
      BY <2>3 DEF Add, AddTorn, AfterRefusal
    <3> QED BY <3>1 DEF Free
  <2>4. CASE Remove \/ Unbranch
    BY <1>1, <2>4 DEF Remove, Unbranch, BranchAfterwards, notes
  <2>5. CASE Meddle
    BY <2>5 DEF Meddle
  <2> QED BY <1>1, <2>1, <2>2, <2>3, <2>4, <2>5 DEF TreeStep
<1>2. ASSUME TreeInv, TreeCrash PROVE Minds
  BY <1>2 DEF TreeCrash, Torn, Free, tree
<1>3. ASSUME UNCHANGED treeVars PROVE Minds
  BY <1>3 DEF treeVars, tree
<1>4. TreeInv /\ [Next]_vars => [Minds]_treeVars
  BY <1>1, <1>2, <1>3
     DEF Next, Prepare, StartJob, Work, Processing, Abort, Down, Restart, vars
<1> QED BY <1>4, TreeAlways, PTL DEF Spec, PreparesItsOwn

(***************************************************************************)
(* What runs in the worktree.                                              *)
(***************************************************************************)
\* An agent that is being stopped or has returned has said how it ended, or was
\* aborted.
SaidOrAborted ==
  kind \in Agents /\ phase # "run" => told # "none" \/ signal

LaneInv ==
  /\ LaneTypeOK /\ IsFiniteSet(procs)
  /\ "group" \notin left /\ SaidOrAborted

LEMMA NoProcesses == IsFiniteSet({}) /\ Cardinality({}) <= MaxProcs
BY FS_EmptySet, WorkspaceAssumption

LEMMA LaneInitially == Init => LaneInv
<1>1. Silent \in [text: BOOLEAN, error: BOOLEAN]
  BY DEF Silent
<1> QED
  BY <1>1, NoProcesses DEF Init, InitLane, LaneInv, LaneTypeOK, SaidOrAborted, Agents

\* One process less, or none at all.
LEMMA FewerProcesses ==
  ASSUME LaneInv, NEW fewer \in SUBSET procs
  PROVE  /\ IsFiniteSet(fewer) /\ fewer \subseteq Process
         /\ Cardinality(fewer) <= MaxProcs
<1>1. IsFiniteSet(procs) /\ procs \subseteq Process /\ Cardinality(procs) <= MaxProcs
  BY DEF LaneInv, LaneTypeOK
<1>2. /\ IsFiniteSet(fewer) /\ Cardinality(fewer) <= Cardinality(procs)
      /\ Cardinality(procs) \in Nat /\ Cardinality(fewer) \in Nat
  BY <1>1, FS_Subset, FS_CardinalityType
<1> QED BY <1>1, <1>2, WorkspaceAssumption

\* What a return leaves behind is never the group of a job that waited for it.
LEMMA ReturnLeaves ==
  ASSUME LaneInv, NEW reason \in {"group", "reader", "crash"}, Returned(reason),
         reason = "group" => Group = {}
  PROVE  /\ left' \subseteq {"group", "reader", "crash", "escaped"} /\ "group" \notin left'
         /\ phase' = "idle" /\ procs' \in SUBSET procs
BY DEF LaneInv, LaneTypeOK, Returned, Outliving

\* A job is stopped: a reader returns, anything else is told to end.
LEMMA StopKeeps ==
  ASSUME LaneInv, Stop, UNCHANGED <<kind, said>>, phase = "run",
         signal' \in BOOLEAN, forced' \in {"none", "timed_out", "cancelled"},
         told' \in {"none", "error"} \cup
           (IF kind = "check" THEN {"passed", "failed", "timed_out", "cancelled"} ELSE {"result"}),
         kind \in Agents => told' # "none" \/ signal'
  PROVE  LaneInv'
<1>1. CASE kind = "reader"
  <2>1. /\ left' \subseteq {"group", "reader", "crash", "escaped"} /\ "group" \notin left'
        /\ phase' = "idle" /\ procs' \in SUBSET procs
    BY <1>1, ReturnLeaves DEF Stop
  <2>2. IsFiniteSet(procs') /\ procs' \subseteq Process /\ Cardinality(procs') <= MaxProcs
    BY <2>1, FewerProcesses
  <2> QED BY <1>1, <2>1, <2>2 DEF LaneInv, LaneTypeOK, SaidOrAborted, Agents
<1>2. CASE kind # "reader"
  BY <1>2 DEF Stop, LaneInv, LaneTypeOK, SaidOrAborted, Agents
<1> QED BY <1>1, <1>2

LEMMA StartKeeps ==
  ASSUME LaneInv, NEW k \in {"writer", "reader", "check"}, Start(k)
  PROVE  LaneInv'
<1> DEFINE Leader(d) == [leader |-> TRUE, member |-> TRUE, holds |-> TRUE, deaf |-> d]
<1>1. ASSUME procs' = {} PROVE IsFiniteSet(procs') /\ Cardinality(procs') <= MaxProcs
  BY <1>1, NoProcesses
<1>2. ASSUME NEW d \in BOOLEAN, procs' = {Leader(d)}
      PROVE  IsFiniteSet(procs') /\ Cardinality(procs') <= MaxProcs /\ procs' \subseteq Process
  <2>1. IsFiniteSet({Leader(d)}) /\ Cardinality({Leader(d)}) = 1
    BY FS_Singleton
  <2>2. IsFiniteSet(procs') /\ Cardinality(procs') <= MaxProcs
    BY <1>2, <2>1, WorkspaceAssumption
  <2>3. procs' \subseteq Process
    BY <1>2 DEF Process
  <2> QED BY <2>2, <2>3
<1>3. IsFiniteSet(procs') /\ Cardinality(procs') <= MaxProcs /\ procs' \subseteq Process
  BY <1>1, <1>2 DEF Start, Unspawned
<1> QED
  BY <1>3 DEF Start, Unspawned, LaneInv, LaneTypeOK, SaidOrAborted, Agents, Silent

LEMMA ReturnKeeps ==
  ASSUME LaneInv, NEW reason \in {"group", "crash"}, Returned(reason),
         reason = "group" => Group = {},
         kind' \in Agents \cup {"check", "none"}, signal' \in BOOLEAN,
         forced' \in {"none", "timed_out", "cancelled"},
         said' \in [text: BOOLEAN, error: BOOLEAN],
         told' \in {"none", "error"} \cup
           (IF kind' = "check" THEN {"passed", "failed", "timed_out", "cancelled"} ELSE {"result"}),
         kind' \in Agents => told' # "none" \/ signal'
  PROVE  LaneInv'
<1>1. /\ left' \subseteq {"group", "reader", "crash", "escaped"} /\ "group" \notin left'
      /\ phase' = "idle" /\ procs' \in SUBSET procs
  BY ReturnLeaves
<1>2. IsFiniteSet(procs') /\ procs' \subseteq Process /\ Cardinality(procs') <= MaxProcs
  BY <1>1, FewerProcesses
<1> QED BY <1>1, <1>2 DEF LaneInv, LaneTypeOK, SaidOrAborted

LEMMA WorksKeep ==
  ASSUME LaneInv, LaneWorks
  PROVE  LaneInv'
<1>1. CASE Message
  <2>1. PICK text, error \in BOOLEAN : said' = [text |-> said.text \/ text, error |-> error]
    BY <1>1 DEF Message
  <2>2. \A b \in BOOLEAN : [text |-> b, error |-> error] \in [text: BOOLEAN, error: BOOLEAN]
    OBVIOUS
  <2>3. (said.text \/ text) \in BOOLEAN
    OBVIOUS
  <2>4. said' \in [text: BOOLEAN, error: BOOLEAN]
    BY <2>1, <2>2, <2>3
  <2> QED BY <1>1, <2>4 DEF Message, LaneInv, LaneTypeOK, SaidOrAborted, Agents
<1>10. CASE Deadline
  BY <1>10 DEF Deadline, LaneInv, LaneTypeOK, SaidOrAborted, Agents
<1>11. CASE Grace
  BY <1>11 DEF Grace, Escalation, LaneInv, LaneTypeOK, SaidOrAborted, Agents
<1>2. CASE Settle
  BY <1>2, StopKeeps DEF Settle, LaneInv, LaneTypeOK, Agents
<1>3. CASE BadLine
  BY <1>3, StopKeeps DEF BadLine, LaneInv, LaneTypeOK, Agents
<1>4. CASE OutputEnds
  BY <1>4, StopKeeps DEF OutputEnds, EndWithoutSettlement, LaneInv, LaneTypeOK, Agents
<1>5. CASE AbortAgent
  BY <1>5, StopKeeps DEF AbortAgent, LaneInv, LaneTypeOK, Agents
<1>6. CASE AgentReturns
  BY <1>6, ReturnKeeps DEF AgentReturns, LaneInv, LaneTypeOK, Agents, SaidOrAborted
<1>7. CASE ForceEnd
  BY <1>7, StopKeeps DEF ForceEnd, LaneInv, LaneTypeOK, Agents
<1>8. CASE Close
  <2>1. CASE StaysBehind /\ Stop /\ told' = told
    BY <1>8, <2>1, StopKeeps DEF Close, LaneInv, LaneTypeOK, Agents
  <2>2. CASE ~StaysBehind /\ Returned("group") /\ told' \in Verdict
    BY <1>8, <2>2, ReturnKeeps DEF Close, StaysBehind, Verdict, LaneInv, LaneTypeOK, Agents
  <2> QED BY <1>8, <2>1, <2>2 DEF Close
<1>9. CASE CheckReturns
  BY <1>9, ReturnKeeps DEF CheckReturns, Verdict, LaneInv, LaneTypeOK, Agents
<1> QED
  BY <1>1, <1>2, <1>3, <1>4, <1>5, <1>6, <1>7, <1>8, <1>9, <1>10, <1>11 DEF LaneWorks

LEMMA RunsKeep ==
  ASSUME LaneInv, LaneRuns
  PROVE  LaneInv'
<1>1. CASE Fork
  <2>1. PICK p \in Process : procs' = procs \cup {p}
    BY <1>1 DEF Fork
  <2>2. /\ IsFiniteSet(procs) /\ Cardinality(procs) \in Nat /\ Cardinality(procs) < MaxProcs
        /\ procs \subseteq Process
    BY <1>1, FS_CardinalityType DEF Fork, LaneInv, LaneTypeOK
  <2>3. /\ IsFiniteSet(procs \cup {p})
        /\ Cardinality(procs \cup {p}) \in {Cardinality(procs), Cardinality(procs) + 1}
    BY <2>2, FS_AddElement
  <2>4. IsFiniteSet(procs') /\ Cardinality(procs') <= MaxProcs /\ procs' \subseteq Process
    BY <2>1, <2>2, <2>3, WorkspaceAssumption
  <2> QED BY <1>1, <2>4 DEF Fork, LaneInv, LaneTypeOK, SaidOrAborted
<1>2. CASE StrayEnds
  BY <1>2 DEF StrayEnds, LaneInv, LaneTypeOK, SaidOrAborted
<1>3. ASSUME NEW p \in procs, Exit(p) PROVE LaneInv'
  <2>1. procs' \in SUBSET procs
    BY <1>3 DEF Exit
  <2>2. IsFiniteSet(procs') /\ procs' \subseteq Process /\ Cardinality(procs') <= MaxProcs
    BY <2>1, FewerProcesses
  <2> QED BY <1>3, <2>2 DEF Exit, LaneInv, LaneTypeOK, SaidOrAborted
<1> QED BY <1>1, <1>2, <1>3 DEF LaneRuns

LEMMA LaneNext == LaneInv /\ [Next]_vars => LaneInv'
<1> SUFFICES ASSUME LaneInv, [Next]_vars PROVE LaneInv'
  OBVIOUS
<1>1. CASE Prepare \/ Restart \/ UNCHANGED vars
  BY <1>1 DEF Prepare, Restart, vars, lane, LaneInv, LaneTypeOK, SaidOrAborted
<1>2. CASE StartJob
  BY <1>2, StartKeeps DEF StartJob
<1>3. CASE Work
  BY <1>3, WorksKeep DEF Work
<1>4. CASE Processing
  BY <1>4, RunsKeep DEF Processing
<1>5. CASE Abort
  BY <1>5 DEF Abort, LaneAborts, LaneInv, LaneTypeOK, SaidOrAborted
<1>6. CASE Down
  BY <1>6, ReturnKeeps DEF Down, LaneCrash, Silent, Agents
<1> QED BY <1>1, <1>2, <1>3, <1>4, <1>5, <1>6 DEF Next

LEMMA LaneAlways == Spec => []LaneInv
BY LaneInitially, LaneNext, PTL DEF Spec

\* A writing agent or a check that has returned has left nothing of its process group
\* alive, and an agent has said how it ended unless it was aborted
\* (runner-pi/src/index.ts and checks-process, the end of a job).
THEOREM NothingOutlivesItsJob == Spec => []ReturnedIsOver
<1>1. LaneInv => ReturnedIsOver
  BY DEF LaneInv, SaidOrAborted, ReturnedIsOver
<1> QED BY <1>1, LaneAlways, PTL

\* Every variable keeps its type; a job never has more processes than the bound.
THEOREM TypeCorrect == Spec => []TypeOK
<1>1. TreeInv /\ LaneInv => TypeOK
  BY DEF TreeInv, LaneInv, LifeTypeOK, TypeOK
<1> QED BY <1>1, TreeAlways, LaneAlways, PTL
=============================================================================
