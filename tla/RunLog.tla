------------------------------- MODULE RunLog -------------------------------
(***************************************************************************)
(* One run's event log and the handles that write it: RunStore.append with *)
(* its expected seq (packages/kernel/src/store.ts, adapters/store-sqlite), *)
(* commit, startRun and openRun (run.ts), and openRunLog's promise chain   *)
(* (run-log.ts).  Several handles may be open on the same run, in one      *)
(* process or in two; a process may stop at any step.                      *)
(*                                                                         *)
(* commit folds the whole batch before its one append.  The fold is one    *)
(* step per body here: it reads and writes only the handle's own state, so *)
(* the split adds no behaviour, and no definition needs recursion.         *)
(***************************************************************************)
EXTENDS RunState

CONSTANTS
  Handles,     \* RunLog objects, or callers of startRun and openRun
  Processes,   \* the handles that die together: a set of disjoint sets
  Batches,     \* what the engine above may ask a RunLog to write
  MaxLog,      \* bound: no write is asked for once the log is this long
  MaxQueue     \* bound: writes waiting in one RunLog's promise chain

ASSUME RunLogAssumption ==
  /\ Processes \subseteq SUBSET Handles
  /\ Batches \subseteq Seq(EventBodies)
  /\ MaxLog \in Nat
  /\ MaxQueue \in Nat

\* Only recover raises an interrupted-step gate, although the reducer would take one from others.
ASSUME ReservedAssumption ==
  \A b \in Batches : \A i \in 1..Len(b) :
    b[i].type = "gate.raised" => b[i].gate.name # "interrupted-step"

VARIABLES
  log,     \* the store: event bodies in seq order, the first has seq 1
  trail,   \* history: trail[i] is the state log[1..i] folds to
  mode,    \* per handle: closed, opening, open, writing
  view,    \* per handle: the state `current` it believes in
  todo,    \* per handle: bodies of the batch in flight not yet folded
  done,    \* per handle: bodies of the batch in flight already folded
  path,    \* per handle: path[i] is the state done[1..i] folds to
  queue,   \* per handle: batches waiting in the promise chain
  alone    \* history: no other handle was open since this one opened

vars == <<log, trail, mode, view, todo, done, path, queue, alone>>

StateAt(i) == IF i = 0 THEN NullRun ELSE trail[i]
\* A mutant of Tip: bodies fold into, and a commit ends in, the old state.
TipOfView(h) == view[h]
\* The state a handle's next body is folded into.
Tip(h) == IF done[h] = <<>> THEN view[h] ELSE path[h][Len(path[h])]
Committing(h) == mode[h] \in {"opening", "writing"}

Init ==
  /\ log = <<>>
  /\ trail = <<>>
  /\ mode = [h \in Handles |-> "closed"]
  /\ view = [h \in Handles |-> NullRun]
  /\ todo = [h \in Handles |-> <<>>]
  /\ done = [h \in Handles |-> <<>>]
  /\ path = [h \in Handles |-> <<>>]
  /\ queue = [h \in Handles |-> <<>>]
  /\ alone = [h \in Handles |-> FALSE]

\* h starts to open the run from state s and first commits `bodies`.
BeginOpen(h, s, bodies) ==
  /\ mode[h] = "closed"
  /\ mode' = [mode EXCEPT ![h] = "opening"]
  /\ view' = [view EXCEPT ![h] = s]
  /\ todo' = [todo EXCEPT ![h] = bodies]
  /\ alone' = [g \in Handles |->
                 IF g = h THEN \A k \in Handles \ {h} : mode[k] = "closed"
                          ELSE alone[g] /\ mode[g] = "closed"]
  /\ UNCHANGED <<log, trail, done, path, queue>>

\* startRun: commit run.created to a run with no state.
Start(h) == BeginOpen(h, NullRun, <<RunCreated>>)

\* openRun: read the log, fold it, and commit what recover asks for.
Open(h) ==
  /\ Len(log) > 0
  /\ BeginOpen(h, StateAt(Len(log)), Recover(StateAt(Len(log))))

\* RunLog.write: the batch is cloned and waits for the writes before it.
Submit(h, b) ==
  /\ mode[h] \in {"open", "writing"}
  /\ Len(log) < MaxLog
  /\ Len(queue[h]) < MaxQueue
  /\ queue' = [queue EXCEPT ![h] = Append(queue[h], b)]
  /\ UNCHANGED <<log, trail, mode, view, todo, done, path, alone>>

\* The chain reaches the oldest waiting batch.
Take(h) ==
  /\ mode[h] = "open"
  /\ queue[h] # <<>>
  /\ mode' = [mode EXCEPT ![h] = "writing"]
  /\ todo' = [todo EXCEPT ![h] = Head(queue[h])]
  /\ queue' = [queue EXCEPT ![h] = Tail(queue[h])]
  /\ UNCHANGED <<log, trail, view, done, path, alone>>

\* commit's loop: one body folds.
Fold(h) ==
  /\ Committing(h)
  /\ todo[h] # <<>>
  /\ Legal(Tip(h), Head(todo[h]))
  /\ path' = [path EXCEPT ![h] = Append(path[h], Reduce(Tip(h), Head(todo[h])))]
  /\ done' = [done EXCEPT ![h] = Append(done[h], Head(todo[h]))]
  /\ todo' = [todo EXCEPT ![h] = Tail(todo[h])]
  /\ UNCHANGED <<log, trail, mode, view, queue, alone>>

\* The commit rejects: an opener gives up, a RunLog keeps its state and goes on.
CommitFails(h) ==
  /\ mode' = [mode EXCEPT ![h] = IF mode[h] = "opening" THEN "closed" ELSE "open"]
  /\ todo' = [todo EXCEPT ![h] = <<>>]
  /\ done' = [done EXCEPT ![h] = <<>>]
  /\ path' = [path EXCEPT ![h] = <<>>]
  /\ UNCHANGED <<log, trail, view, queue, alone>>

\* reduce throws on a body: nothing of the batch is written.
Reject(h) ==
  /\ Committing(h)
  /\ todo[h] # <<>>
  /\ ~Legal(Tip(h), Head(todo[h]))
  /\ CommitFails(h)

\* A mutant of SeqMatches: append does not compare.
SeqUnchecked(h) == TRUE
\* append's check inside its transaction: the log is where the handle thinks.
SeqMatches(h) == view[h].lastSeq = Len(log)

\* append: all rows or none.  An empty batch returns before the check.
Commit(h) ==
  /\ Committing(h)
  /\ todo[h] = <<>>
  /\ done[h] # <<>> => SeqMatches(h)
  /\ log' = log \o done[h]
  /\ trail' = trail \o path[h]
  /\ view' = [view EXCEPT ![h] = Tip(h)]
  /\ mode' = [mode EXCEPT ![h] = "open"]
  /\ done' = [done EXCEPT ![h] = <<>>]
  /\ path' = [path EXCEPT ![h] = <<>>]
  /\ UNCHANGED <<todo, queue, alone>>

\* StaleSeqError, rolled back.
Stale(h) ==
  /\ Committing(h)
  /\ todo[h] = <<>> /\ done[h] # <<>>
  /\ ~SeqMatches(h)
  /\ CommitFails(h)

\* The store fails (SQLITE_FULL, SQLITE_BUSY after the timeout) and rolls back.
Fault(h) ==
  /\ Committing(h)
  /\ todo[h] = <<>> /\ done[h] # <<>>
  /\ CommitFails(h)

\* A process stops: its handles and what they had in flight are gone.
Crash(P) ==
  /\ \E h \in P : mode[h] # "closed"
  /\ mode' = [h \in Handles |-> IF h \in P THEN "closed" ELSE mode[h]]
  /\ view' = [h \in Handles |-> IF h \in P THEN NullRun ELSE view[h]]
  /\ todo' = [h \in Handles |-> IF h \in P THEN <<>> ELSE todo[h]]
  /\ done' = [h \in Handles |-> IF h \in P THEN <<>> ELSE done[h]]
  /\ path' = [h \in Handles |-> IF h \in P THEN <<>> ELSE path[h]]
  /\ queue' = [h \in Handles |-> IF h \in P THEN <<>> ELSE queue[h]]
  /\ UNCHANGED <<log, trail, alone>>

Next ==
  \/ \E h \in Handles :
       \/ Start(h)
       \/ Open(h)
       \/ \E b \in Batches : Submit(h, b)
       \/ Take(h)
       \/ Fold(h)
       \/ Reject(h)
       \/ Commit(h)
       \/ Stale(h)
       \/ Fault(h)
  \/ \E P \in Processes : Crash(P)

Spec == Init /\ [][Next]_vars

-----------------------------------------------------------------------------
\* Types of the store and of the handles.
TypeOK ==
  /\ log \in Seq(EventBodies)
  /\ Len(trail) = Len(log)
  /\ \A i \in 1..Len(trail) : IsRunState(trail[i])
  /\ mode \in [Handles -> {"closed", "opening", "open", "writing"}]
  /\ \A h \in Handles : IsRunState(view[h])
  /\ todo \in [Handles -> Seq(EventBodies)]
  /\ done \in [Handles -> Seq(EventBodies)]
  /\ \A h \in Handles :
       /\ Len(path[h]) = Len(done[h])
       /\ \A i \in 1..Len(path[h]) : IsRunState(path[h][i])
  /\ queue \in [Handles -> Seq(Seq(EventBodies))]
  /\ alone \in [Handles -> BOOLEAN]

\* The log can always be folded again, whichever handles wrote it and however
\* they interleaved: each row is legal in the state the rows before it fold to.
\* (fold must not throw when a restarted server reads the run, run.ts openRun.)
LogReplays ==
  /\ Len(trail) = Len(log)
  /\ \A i \in 1..Len(log) :
       /\ Legal(StateAt(i - 1), log[i])
       /\ trail[i] = Reduce(StateAt(i - 1), log[i])

\* Every state the log ever folded to is sound: no attempt runs outside a
\* running step, a recovery gate stands for an interrupted attempt, and nothing
\* runs or waits in a run that ended.
RunStatesSound == \A i \in 1..Len(log) : RunInv(trail[i])

\* A handle never invents state: what it believes in, however stale, is a state
\* the log really went through (so a matching seq means a matching state).
ViewsAreHistory ==
  \A h \in Handles : mode[h] # "closed" =>
    /\ view[h].lastSeq \in 0..Len(log)
    /\ view[h] = StateAt(view[h].lastSeq)

\* Without a second handle on the run no write is ever refused as stale: what
\* run-log.ts asks for ("One open RunLog per run per process") is enough.
SoleHandleNeverStale ==
  \A h \in Handles : mode[h] \in {"open", "writing"} /\ alone[h] => SeqMatches(h)

\* run-log.ts: a second writer leaves a log stale, and every later write of the
\* stale log fails.  No step of a handle that is behind adds rows to the log or
\* brings the handle up to date.
StaleStaysStale ==
  [][\A h \in Handles :
       /\ mode[h] \in {"open", "writing"} /\ ~SeqMatches(h)
       /\ mode'[h] # "closed"
       => view'[h] = view[h]]_vars

\* Recovery is never refused by the reducer: whatever a crash left behind, the
\* gates it raises are new and their attempts and steps are as it found them.
RecoveryLegal ==
  \A h \in Handles :
    mode[h] = "opening" /\ todo[h] # <<>> => Legal(Tip(h), Head(todo[h]))

\* Recovery is complete and runs once: the state an opener hands out has no
\* running attempt, every running step has an open gate, and a second recovery
\* of it would append nothing.
RecoverySettles ==
  [][\A h \in Handles :
       mode[h] = "opening" /\ mode'[h] = "open" =>
         /\ RunningAttempts(view'[h]) = {}
         /\ \A st \in DOMAIN view'[h].steps :
              RunningStep(view'[h], st) => Gated(view'[h], st)
         /\ Recover(view'[h]) = <<>>]_vars
=============================================================================
