----------------------------- MODULE PiHandler -----------------------------
(***************************************************************************)
(* agentic-hub's Pi handler (src/agentic_hub/pi_handler): `pi apply` makes *)
(* the part of Pi's settings.json that a manifest names agree with it, and *)
(* keeps in pi-state.json what it owns, what was there before, and the one *)
(* operation it has begun.  Setting leaves are written by the handler,     *)
(* package declarations by a Pi subprocess.                                *)
(*                                                                         *)
(* People edit settings.json and the manifest at any time, two applies may *)
(* be called, each may fail or be killed at any step, and an installer may *)
(* outlive the apply that started it.  The operator follows the recovery   *)
(* checklist of docs/pi/pi-handler.md.                                     *)
(*                                                                         *)
(* A value is a number; a leaf, a package and an object that holds leaves  *)
(* are names.  One manifest path is used, and its shapes do not overlap.   *)
(* The last look at a file's identity and its replacement are one step, as *)
(* the docs ask that nobody edits in between.                              *)
(***************************************************************************)
EXTENDS Naturals, Sequences, FiniteSets, SequencesExt

CONSTANTS
  Order,      \* managed names in plan order: packages, then setting leaves
  Packages,   \* those that are packages
  Boxes,      \* JSON objects that hold leaves
  Above,      \* per name: the objects around it
  Outside,    \* per object: the objects around it
  Values,     \* what a leaf or a declaration may be
  Manifests,  \* what the manifest may say
  Hubs,       \* processes that run `pi apply`
  \* bounds
  Starts,     \* settings files before the first apply: the values and the objects
  MaxEdits,   \* edits of settings.json by people
  MaxRevisions,  \* edits of the manifest
  MaxFaults   \* exceptions, crashes, and misbehaviour of Pi

Keys == ToSet(Order)
Absent == 0

\* Package declarations stand in one list, outside of every object that holds leaves;
\* objects are nested.
ASSUME PiHandlerAssumption ==
  /\ Order \in Seq(Keys) /\ "none" \notin Keys
  /\ Packages \subseteq Keys /\ Absent \notin Values
  /\ Above \in [Keys -> SUBSET Boxes] /\ Outside \in [Boxes -> SUBSET Boxes]
  /\ \A p \in Packages : Above[p] = {}
  /\ \A k \in Keys : \A b \in Above[k] : Outside[b] \subseteq Above[k]
  /\ \A b \in Boxes : \A c \in Outside[b] : Outside[c] \subseteq Outside[b]
  /\ Manifests \subseteq [Keys -> Values \cup {Absent}]
  /\ Starts \subseteq [val : [Keys -> Values \cup {Absent}], boxes : SUBSET Boxes]
  /\ MaxEdits \in Nat /\ MaxRevisions \in Nat /\ MaxFaults \in Nat

VARIABLES
  file,     \* settings.json
  journal,  \* pi-state.json
  lock,     \* apply.lock exists
  want,     \* the manifest
  hub,      \* per process: where it is, and the manifest it loaded
  mem,      \* locals of the process that took the lock
  child,    \* the installer that runs: the declaration it makes
  mine,     \* history: what a person last made of each name and object
  touched,  \* history: names that somebody changed while the hub managed them
  spent

disk == <<file, journal, lock>>
history == <<mine, touched>>
vars == <<disk, want, hub, mem, child, history, spent>>

(***************************************************************************)
(* The plan (planner.py): what a manifest asks of a name that is owned as  *)
(* the state says and declared as the file says.                           *)
(***************************************************************************)
NotOwned == [last |-> Absent, orig |-> Absent]
Owned(owned, k) == owned[k].last # Absent

Conflict(goal, f, owned, k) ==
  LET own == owned[k]  now == f.val[k] IN
  \/ Owned(owned, k) /\ now \notin {Absent, own.last}
  \/ Owned(owned, k) /\ now = Absent /\ goal[k] = Absent
  \/ ~Owned(owned, k) /\ goal[k] # Absent /\ now \notin {Absent, goal[k]}
  \/ /\ k \in Packages /\ Owned(owned, k) /\ own.orig # Absent
     /\ goal[k] \notin {Absent, own.last}

\* A mutant of Needs: a name that is as it should be is planned again.
NeedsAlways(goal, f, owned, k) == Owned(owned, k) \/ goal[k] # Absent
Needs(goal, f, owned, k) ==
  IF goal[k] = Absent THEN Owned(owned, k)
                      ELSE ~Owned(owned, k) \/ f.val[k] # goal[k]

\* The places in the plan's order where something is to be done.
Planned(goal, f, owned) == {i \in 1..Len(Order) : Needs(goal, f, owned, Order[i])}

(***************************************************************************)
(* One operation of a plan, and the file and ownership it leads to.        *)
(***************************************************************************)
NoOp == [key |-> "none", before |-> Absent, after |-> Absent, prune |-> {},
         owned |-> <<>>, boxes |-> {}]
\* Change.subprocess: Pi runs for a package that is not adopted or released.
Subprocess(op) == op.key \in Packages /\ op.before # op.after

\* Objects that op empties and may take away, the inner ones first.
Emptied(val, boxes, prune) ==
  {b \in prune \cap boxes :
     /\ \A k \in Keys : b \in Above[k] => val[k] = Absent
     /\ \A c \in boxes : b \in Outside[c] => c \in prune}

\* A mutant of Changed: the objects around a new leaf are not made.
ChangedFlat(f, op) == [f EXCEPT !.val[op.key] = op.after]
\* _changed_settings and _changed_packages.
Changed(f, op) ==
  IF op.before = op.after THEN f
  ELSE LET val == [f.val EXCEPT ![op.key] = op.after]
           boxes == f.boxes \cup Above[op.key]
       IN [f EXCEPT !.val = val, !.boxes = boxes \ Emptied(val, boxes, op.prune)]

\* A mutant of OwnerOf: an update takes the value it finds for the original.
OwnerOfLatest(goal, f, owned, k) ==
  IF goal[k] = Absent THEN NotOwned ELSE [last |-> goal[k], orig |-> f.val[k]]
OwnerOf(goal, f, owned, k) ==
  IF goal[k] = Absent THEN NotOwned
  ELSE [last |-> goal[k],
        orig |-> IF Owned(owned, k) THEN owned[k].orig ELSE f.val[k]]

\* _settings and _packages for one name, with _next_state.
Operation(goal, f, st, k) ==
  LET owned == [st.owned EXCEPT ![k] = OwnerOf(goal, f, st.owned, k)]
      made == IF goal[k] = Absent THEN {} ELSE Above[k] \ f.boxes
      op == [NoOp EXCEPT
               !.key = k, !.before = f.val[k],
               !.after = IF goal[k] = Absent THEN st.owned[k].orig ELSE goal[k],
               !.prune = IF goal[k] = Absent /\ k \notin Packages THEN st.boxes ELSE {},
               !.owned = owned]
      kept == {b \in st.boxes \cup made :
                 /\ b \in Changed(f, op).boxes
                 /\ \E j \in Keys : Owned(owned, j) /\ b \in Above[j]}
  IN [op EXCEPT !.boxes = IF k \in Packages THEN st.boxes ELSE kept]

(***************************************************************************)
(* _preflight: an operation the journal has begun is taken as done when    *)
(* its target is as it wanted it, as not begun when it is as it found it.  *)
(***************************************************************************)
Pending(st) == st.op # NoOp
Ambiguous(f, st) == Pending(st) /\ f.val[st.op.key] \notin {st.op.before, st.op.after}
Candidate(f, st) ==
  IF Pending(st) /\ f.val[st.op.key] = st.op.after THEN st.op.owned ELSE st.owned

Blocked(goal, f, st) ==
  \/ f.torn \/ st.repair \/ Ambiguous(f, st)
  \/ \E k \in Keys : Conflict(goal, f, Candidate(f, st), k)

(***************************************************************************)
(* Processes.  A process at one of these places has taken the lock.        *)
(***************************************************************************)
Working == {"locked", "plan", "journal", "execute", "verify", "wait", "inspect", "record"}
At(h, pc) == hub[h].pc = pc
Goto(h, pc) == hub' = [hub EXCEPT ![h].pc = pc]
Holders == {h \in Hubs : hub[h].pc \in Working}

NoGoal == [k \in Keys |-> Absent]
NoMem == [op |-> NoOp, seen |-> [val |-> NoGoal, boxes |-> {}, torn |-> FALSE],
          expected |-> [val |-> NoGoal, boxes |-> {}, torn |-> FALSE],
          fresh |-> TRUE, failed |-> FALSE]
NoChild == [key |-> "none", to |-> Absent, wrote |-> FALSE]

Return(h) == hub' = [hub EXCEPT ![h] = [pc |-> "idle", goal |-> NoGoal]]
Leave(h) == Return(h) /\ mem' = NoMem
\* The apply ends, well or not, and _finish_lock releases the lock.
Ends(h) == Leave(h) /\ lock' = FALSE
\* It ends and keeps the lock, as an installer may still be running.
EndsLocked(h) == Leave(h) /\ UNCHANGED lock

SpendFault == spent.faults < MaxFaults /\ spent' = [spent EXCEPT !.faults = @ + 1]
SpendEdit == spent.edits < MaxEdits /\ spent' = [spent EXCEPT !.edits = @ + 1]

\* apply_setup up to the lock.  Where nothing is to be done, or is blocked, it
\* returns and has changed nothing.
Apply(h) ==
  /\ At(h, "idle") /\ ~lock
  /\ ~Blocked(want, file, journal)
  /\ Pending(journal) \/ Planned(want, file, journal.owned) # {}
  /\ hub' = [hub EXCEPT ![h] = [pc |-> "checked", goal |-> want]]
  /\ UNCHANGED <<disk, want, mem, child, history, spent>>

AcquireLock(h) ==
  /\ At(h, "checked")
  /\ IF lock THEN Return(h) /\ UNCHANGED lock
             ELSE Goto(h, "locked") /\ lock' = TRUE
  /\ UNCHANGED <<file, journal, want, mem, child, history, spent>>

\* _apply_locked reads everything again; a pending operation is taken up first.
TakeUp(h) ==
  /\ At(h, "locked")
  /\ LET op == journal.op  now == file.val[op.key]
         resumed == [NoMem EXCEPT !.op = op, !.seen = file,
                       !.expected = IF ~Subprocess(op) /\ now # op.before THEN file
                                                                          ELSE Changed(file, op)]
     IN IF Blocked(hub[h].goal, file, journal)
          THEN Ends(h)
          ELSE CASE ~Pending(journal) -> Goto(h, "plan") /\ UNCHANGED <<mem, lock>>
                 [] Pending(journal) /\ Subprocess(op) /\ op.after = Absent /\ now # op.before ->
                      Goto(h, "record") /\ mem' = resumed /\ UNCHANGED lock
                 [] OTHER -> Goto(h, "execute") /\ mem' = resumed /\ UNCHANGED lock
  /\ UNCHANGED <<file, journal, want, child, history, spent>>

\* The head of _apply_locked's loop: the first change of a new plan.
PlanNext(h) ==
  /\ At(h, "plan")
  /\ LET goal == hub[h].goal  todo == Planned(goal, file, journal.owned) IN
     IF Blocked(goal, file, journal) \/ todo = {}
       THEN Ends(h)
       ELSE /\ \E i \in todo :
                 /\ \A j \in todo : i <= j
                 /\ \E op \in {Operation(goal, file, journal, Order[i])} :
                      mem' = [NoMem EXCEPT !.op = op, !.seen = file, !.expected = Changed(file, op)]
            /\ Goto(h, "journal") /\ UNCHANGED lock
  /\ UNCHANGED <<file, journal, want, child, history, spent>>

\* checkpoint with the operation pending.
Journal(h) ==
  /\ At(h, "journal")
  /\ journal' = [journal EXCEPT !.op = mem.op]
  /\ Goto(h, "execute")
  /\ UNCHANGED <<file, lock, want, mem, child, history, spent>>

\* A mutant of Unchanged: the file is not compared with what was read.
UnchangedAnyway(m) == TRUE
\* unchanged: the file is still the one that was read.
Unchanged(m) == m.fresh

\* _execute_setting: atomic_json, when there is anything to write.
ExecuteSetting(h) ==
  /\ At(h, "execute") /\ ~Subprocess(mem.op)
  /\ IF mem.seen # mem.expected /\ ~Unchanged(mem)
       THEN Ends(h) /\ UNCHANGED file
       ELSE /\ file' = IF mem.seen = mem.expected THEN file ELSE mem.expected
            /\ Goto(h, "verify") /\ UNCHANGED <<mem, lock>>
  /\ UNCHANGED <<journal, want, child, history, spent>>

Verify(h) ==
  /\ At(h, "verify")
  /\ IF file = mem.expected THEN Goto(h, "record") /\ UNCHANGED <<mem, lock>> ELSE Ends(h)
  /\ UNCHANGED <<file, journal, want, child, history, spent>>

\* _execute_package up to the end of Popen and its checkpoint.
ExecutePackage(h) ==
  /\ At(h, "execute") /\ Subprocess(mem.op)
  /\ IF Unchanged(mem)
       THEN /\ child' = [key |-> mem.op.key, to |-> mem.op.after, wrote |-> FALSE]
            /\ Goto(h, "wait") /\ UNCHANGED <<mem, lock>>
       ELSE Ends(h) /\ UNCHANGED child
  /\ UNCHANGED <<file, journal, want, history, spent>>

\* PiRuntime._run: the installer has exited, with a code.
Exited(h) ==
  /\ At(h, "wait") /\ child = NoChild
  /\ \E failed \in BOOLEAN : mem' = [mem EXCEPT !.failed = failed]
  /\ Goto(h, "inspect")
  /\ UNCHANGED <<disk, want, child, history, spent>>

\* A timeout, an interrupt, descendants that still run: _shutdown stops the group.
Stopped(h) ==
  /\ At(h, "wait") /\ child # NoChild
  /\ child' = NoChild /\ mem' = [mem EXCEPT !.failed = TRUE]
  /\ Goto(h, "inspect")
  /\ UNCHANGED <<disk, want, history, spent>>

\* _shutdown cannot tell whether the group is gone: lock and journal stay.
StopUncertain(h) ==
  /\ At(h, "wait") /\ child # NoChild /\ SpendFault
  /\ EndsLocked(h)
  /\ UNCHANGED <<file, journal, want, child, history>>

\* The rest of _execute_package: what Pi made of the file.
Spoiled ==
  \/ file.torn
  \/ [file EXCEPT !.val[mem.op.key] = Absent] # [mem.seen EXCEPT !.val[mem.op.key] = Absent]
Inspect(h) ==
  /\ At(h, "inspect")
  /\ CASE Spoiled -> Ends(h) /\ journal' = [journal EXCEPT !.repair = TRUE]
       [] ~Spoiled /\ (mem.failed \/ file # mem.expected) -> Ends(h) /\ UNCHANGED journal
       [] OTHER -> Goto(h, "record") /\ UNCHANGED <<journal, mem, lock>>
  /\ UNCHANGED <<file, want, child, history, spent>>
\* _mark_repair cannot write its marker.
InspectUnmarked(h) ==
  /\ At(h, "inspect") /\ Spoiled /\ SpendFault
  /\ EndsLocked(h)
  /\ UNCHANGED <<file, journal, want, child, history>>

\* checkpoint of the next state.
Record(h) ==
  /\ At(h, "record")
  /\ journal' = [journal EXCEPT !.owned = mem.op.owned, !.boxes = mem.op.boxes, !.op = NoOp]
  /\ Goto(h, "plan") /\ mem' = NoMem
  /\ UNCHANGED <<file, lock, want, child, history, spent>>

\* Anything throws, the runtime is not ready, or the operator interrupts.
Fault(h) ==
  /\ hub[h].pc \in Working \ {"wait"} /\ SpendFault
  /\ Ends(h)
  /\ UNCHANGED <<file, journal, want, child, history>>
\* The process is killed.  Its installer is not.
Crash(h) ==
  /\ h \in Holders /\ SpendFault
  /\ Leave(h)
  /\ UNCHANGED <<disk, want, child, history>>

HubStep(h) ==
  \/ AcquireLock(h) \/ TakeUp(h) \/ PlanNext(h) \/ Journal(h) \/ ExecuteSetting(h)
  \/ Verify(h) \/ ExecutePackage(h) \/ Exited(h) \/ Stopped(h) \/ Inspect(h) \/ Record(h)
HubFails(h) == StopUncertain(h) \/ InspectUnmarked(h) \/ Fault(h) \/ Crash(h)

(***************************************************************************)
(* The installer, which writes the whole file, and people.                 *)
(***************************************************************************)
Stale == mem' = IF Holders = {} THEN mem ELSE [mem EXCEPT !.fresh = FALSE]
Managed(k) ==
  \/ Owned(journal.owned, k) \/ journal.op.key = k
  \/ \E h \in Holders : At(h, "journal") /\ mem.op.key = k

PiWrites ==
  /\ child # NoChild /\ ~child.wrote /\ ~file.torn
  /\ file' = [file EXCEPT !.val[child.key] = child.to]
  /\ child' = [child EXCEPT !.wrote = TRUE]
  /\ Stale /\ UNCHANGED <<journal, lock, want, hub, history, spent>>
\* It is stopped in the middle of a write, or loses somebody's value.
PiSpoils ==
  /\ child # NoChild /\ ~child.wrote /\ ~file.torn /\ SpendFault
  /\ \/ file' = [file EXCEPT !.torn = TRUE] /\ UNCHANGED touched
     \/ \E k \in Keys \ {child.key} :
          /\ file.val[k] # Absent
          /\ file' = [file EXCEPT !.val[child.key] = child.to, !.val[k] = Absent]
          /\ touched' = touched \cup {k}
  /\ child' = [child EXCEPT !.wrote = TRUE]
  /\ Stale /\ UNCHANGED <<journal, lock, want, hub, mine>>
PiExits ==
  /\ child # NoChild
  /\ child' = NoChild
  /\ UNCHANGED <<disk, want, hub, mem, history, spent>>

Edit(k, v) ==
  /\ ~file.torn /\ file.val[k] # v /\ SpendEdit
  /\ file' = [file EXCEPT !.val[k] = v,
                          !.boxes = IF v = Absent THEN @ ELSE @ \cup Above[k]]
  /\ mine' = [val |-> IF Managed(k) THEN mine.val ELSE [mine.val EXCEPT ![k] = v],
              boxes |-> IF v = Absent THEN mine.boxes ELSE mine.boxes \cup Above[k]]
  /\ touched' = IF Managed(k) THEN touched \cup {k} ELSE touched
  /\ Stale /\ UNCHANGED <<journal, lock, want, hub, child>>
EditManifest ==
  /\ spent.revisions < MaxRevisions /\ spent' = [spent EXCEPT !.revisions = @ + 1]
  /\ want' \in Manifests \ {want}
  /\ UNCHANGED <<disk, hub, mem, child, history>>

Idle == Holders = {} /\ child = NoChild
\* Recovery checklist, items 2 and 3.
RemoveLock ==
  /\ lock /\ Idle
  /\ lock' = FALSE
  /\ UNCHANGED <<file, journal, want, hub, mem, child, history, spent>>
\* Items 4 and 6.
Mend ==
  /\ Idle /\ ~lock
  /\ \/ file.torn /\ file' = [file EXCEPT !.torn = FALSE] /\ UNCHANGED journal
     \/ /\ journal.repair /\ ~file.torn /\ ~Ambiguous(file, journal)
        /\ journal' = [journal EXCEPT !.repair = FALSE] /\ UNCHANGED file
  /\ UNCHANGED <<lock, want, hub, mem, child, history, spent>>

People == (\E k \in Keys, v \in Values \cup {Absent} : Edit(k, v)) \/ EditManifest
            \/ RemoveLock \/ Mend

Shaped(f) ==
  /\ \A k \in Keys : f.val[k] # Absent => Above[k] \subseteq f.boxes
  /\ \A b \in f.boxes : Outside[b] \subseteq f.boxes
Init ==
  /\ \E s \in Starts : file = [val |-> s.val, boxes |-> s.boxes, torn |-> FALSE]
  /\ Shaped(file)
  /\ journal = [owned |-> [k \in Keys |-> NotOwned], boxes |-> {}, op |-> NoOp,
                repair |-> FALSE]
  /\ lock = FALSE
  /\ want \in Manifests
  /\ hub = [h \in Hubs |-> [pc |-> "idle", goal |-> NoGoal]]
  /\ mem = NoMem /\ child = NoChild
  /\ mine = [val |-> file.val, boxes |-> file.boxes] /\ touched = {}
  /\ spent = [edits |-> 0, revisions |-> 0, faults |-> 0]

PiNext ==
  \/ \E h \in Hubs : Apply(h) \/ HubStep(h) \/ HubFails(h)
  \/ PiWrites \/ PiSpoils \/ PiExits
  \/ People

\* A process that runs gets on: waits have timeouts, reads and writes return.
Fairness == \A h \in Hubs : WF_vars(HubStep(h))
Spec == Init /\ [][PiNext]_vars /\ Fairness

(***************************************************************************)
(* Properties.                                                             *)
(***************************************************************************)
Declarations == [Keys -> Values \cup {Absent}]
\* The files have their shapes: what is set has its objects around it, and what is
\* owned has a value.
TypeOK ==
  /\ file.val \in Declarations /\ file.boxes \subseteq Boxes /\ Shaped(file)
  /\ file.torn \in BOOLEAN
  /\ journal.owned \in [Keys -> [last : Values \cup {Absent}, orig : Values \cup {Absent}]]
  /\ journal.boxes \subseteq Boxes /\ journal.repair \in BOOLEAN
  /\ journal.op = NoOp \/ journal.op.key \in Keys
  /\ lock \in BOOLEAN /\ want \in Manifests /\ touched \subseteq Keys

\* pi-handler.md: "For each leaf the hub tracks its path, last applied value, original
\* presence and value".  Whatever failed and was resumed: a name nobody else changed
\* while it was managed is as the journal says it was left, or as its pending
\* operation found it or wants it; what is not owned is as its person made it; the
\* original kept for the release is the person's; and when all is released the objects
\* are those of the beginning.
Explained ==
  /\ \A k \in Keys \ touched :
       IF journal.op.key = k
         THEN file.val[k] \in {journal.op.before, journal.op.after}
         ELSE file.val[k] = IF Owned(journal.owned, k) THEN journal.owned[k].last
                                                      ELSE mine.val[k]
  /\ \A k \in Keys \ touched : Owned(journal.owned, k) => journal.owned[k].orig = mine.val[k]
  /\ (touched = {} /\ ~Pending(journal) /\ \A k \in Keys : ~Owned(journal.owned, k))
       => file.boxes \subseteq mine.boxes

\* pi-handler.md: "There is no force or adopt-overwrite option."  A write of the
\* handler, and the start of an installer, changes one name, and that held nothing or
\* what the handler had put there: no edit is lost, whenever it was made.
EditsSurvive ==
  [][\A h \in Hubs :
       At(h, "execute") /\ hub'[h].pc \in {"verify", "wait"}
         /\ <<file, child>>' # <<file, child>> =>
           /\ file.val[mem.op.key] \in {Absent, journal.owned[mem.op.key].last, mem.op.after}
           /\ \A k \in Keys \ {mem.op.key} : file'.val[k] = file.val[k]
           /\ file.boxes \ file'.boxes \subseteq journal.boxes]_vars

\* pi-handler.md: "If group shutdown cannot be established, both lock and journal
\* remain and retry is blocked."  While an installer runs, the lock is there, the
\* journal names what it does, and no other apply is at work.
InstallerHoldsLock ==
  /\ child # NoChild =>
       /\ lock /\ journal.op.key = child.key
       /\ \A h \in Holders : At(h, "wait")
  /\ Cardinality(Holders) <= 1 /\ (Holders # {} => lock)

\* Whatever an apply, or an installer that outlives it, has done is told by the journal
\* the next apply reads, under the lock.
JournalExplains == Explained /\ InstallerHoldsLock

\* An apply that took the lock ends, whatever is edited and however Pi behaves.
ApplyEnds == \A h \in Hubs : h \in Holders ~> h \notin Holders
=============================================================================
