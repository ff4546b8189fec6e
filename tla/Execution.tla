----------------------------- MODULE Execution -----------------------------
(***************************************************************************)
(* One execution run of Payo (modules/factory/src/execution.ts with        *)
(* execution-state.ts, execution-review.ts and the git workspace adapter   *)
(* adapters/git/src/execution.ts): an approved PR is implemented phase by  *)
(* phase in a worktree; each phase is checked, reviewed, committed by the  *)
(* engine and recorded, then the whole PR is checked and reviewed again.   *)
(*                                                                         *)
(* One action is what the engine does between two points where something   *)
(* else can happen: it ends with a durable write (checkpoint) or a change  *)
(* of the worktree.  The process may stop at any point and restart, the    *)
(* operator resumes, people edit the worktree, commit on its branch or     *)
(* commit elsewhere in the repository, any call may throw.                 *)
(*                                                                         *)
(* A content of the worktree is a version number; every edit makes a new   *)
(* version (no edit restores by chance what a fingerprint remembers) or,   *)
(* for a writer, the version of HEAD again.  Reports, findings, diffs and  *)
(* roles are what they make the engine do.  Agent steps are module         *)
(* AgentStep's; here one starts, edits, and ends or fails.                 *)
(***************************************************************************)
EXTENDS Naturals, Sequences, FiniteSets, FiniteSetsExt, SequencesExt

CONSTANTS
  Phases,     \* phases of the approved PR
  Lenses,     \* implementation review lenses (eight in the code)
  MaxCycles,  \* MAX_VALIDATION_CYCLES (three in the code)
  \* bounds on what the environment does
  MaxVersions,    \* contents of the worktree
  MaxResumes,     \* resumes by the operator
  MaxDisruptions  \* crashes, shutdowns, faults, changes by other people and by commit hooks

ASSUME ExecutionAssumption ==
  /\ Phases \in Nat \ {0} /\ Lenses \in Nat \ {0} /\ MaxCycles \in Nat \ {0}
  /\ MaxVersions \in Nat /\ MaxResumes \in Nat /\ MaxDisruptions \in Nat

VARIABLES
  cp,         \* the durable checkpoint
  running,    \* steps of the run's log that are running
  open,       \* steps of the run's log with an open gate
  ended,      \* the run has ended as reviewed
  wt,         \* the worktree, its branch and the repository around it
  pc, mem,    \* where the engine is, and the locals it will read again
  aborted,    \* the shutdown has aborted the engine's signal
  green,      \* history: (unit, version) whose checks passed and left it alone
  accepted,   \* history: (unit, version) whose review was accepted
  spent       \* what the environment has used of its bounds

log == <<running, open, ended>>
history == <<green, accepted>>
vars == <<cp, log, wt, pc, mem, aborted, history, spent>>

Final == Phases + 1     \* the unit of scope "final"
Stages == {"Prepare", "Implement", "Check", "Review", "Repair", "Finalize",
           "Escalated", "Completed"}

(***************************************************************************)
(* The worktree.                                                           *)
(***************************************************************************)
HeadOf(w) == Len(w.commits)
HeadTree(w) == w.commits[HeadOf(w)].tree
Dirty(w) == w.tree # HeadTree(w)    \* changedPaths is not empty

\* inspect: what the fingerprint tells apart.  `elsewhere` counts the refs and
\* reflog entries other branches of the repository have gained.
Snapshot(w) == [head |-> HeadOf(w), tree |-> w.tree,
                staged |-> w.staged /\ Dirty(w), elsewhere |-> w.elsewhere]
NoSnapshot == [head |-> 0, tree |-> 0, staged |-> FALSE, elsewhere |-> 0]
SameHistory(s, t) == s.head = t.head /\ s.elsewhere = t.elsewhere

Edited(w, v) == [w EXCEPT !.tree = v, !.staged = @ /\ v = w.tree,
                          !.latest = IF v > @ THEN v ELSE @]
Staged(w) == [w EXCEPT !.staged = Dirty(w)]
\* A commit of what the worktree holds, with or without an intent's trailer.
WithCommit(w, by, unit, trailer) ==
  [w EXCEPT !.commits = Append(@, [by |-> by, unit |-> unit, tree |-> w.tree,
                                   trailer |-> trailer]),
            !.staged = FALSE]
NewVersions(w) == {w.latest + 1} \cap 0..MaxVersions
WriterVersions(w) == {w.tree, HeadTree(w)} \cup NewVersions(w)

(***************************************************************************)
(* The checkpoint.                                                         *)
(***************************************************************************)
NoIntent == [unit |-> 0, parent |-> 0, snapshot |-> NoSnapshot]
NoFlight == [op |-> "none", steps |-> {}]
Flight(op, steps) == [op |-> op, steps |-> steps]

InitialCheckpoint ==
  [stage |-> "Prepare", phase |-> 1, scope |-> "phase", round |-> 0,
   manifest |-> FALSE, ws |-> NoSnapshot, checks |-> NoSnapshot, review |-> FALSE,
   intent |-> NoIntent, receipts |-> <<>>, flight |-> NoFlight,
   pinned |-> FALSE,      \* gated by the approved plan: no resume
   partial |-> FALSE]     \* statusDetail is "reconciliation-required"

Unit(c) == IF c.scope = "final" THEN Final ELSE c.phase
\* phaseStartCommit.
PhaseStart(c) == IF c.receipts = <<>> THEN 1 ELSE Last(c.receipts)

Transitions(stage) ==
  CASE stage = "Prepare" -> {"Prepare", "Implement", "Escalated"}
    [] stage = "Implement" -> {"Implement", "Check", "Escalated"}
    [] stage = "Check" -> {"Check", "Review", "Repair", "Escalated"}
    [] stage = "Review" -> {"Review", "Implement", "Repair", "Finalize",
                            "Completed", "Escalated"}
    [] stage = "Repair" -> {"Repair", "Check", "Escalated"}
    [] stage = "Finalize" -> {"Finalize", "Check", "Completed", "Repair", "Escalated"}
    [] stage = "Escalated" -> Stages \ {"Completed"}
    [] stage = "Completed" -> {}

\* applyExecutionCheckpoint.
LegalCheckpoint(c, d) ==
  /\ d.phase \in {c.phase, c.phase + 1}
  /\ d.phase > c.phase => Len(d.receipts) = Len(c.receipts) + 1
  /\ IsPrefix(c.receipts, d.receipts)
  /\ d.stage \in Transitions(c.stage)

(***************************************************************************)
(* Locals.                                                                 *)
(***************************************************************************)
NoMem == [seen |-> NoSnapshot, now |-> NoSnapshot, res |-> "none", todo |-> {},
          owned |-> {}, commit |-> 0]

\* newId: n ids that nothing refers to any more.
UsedIds == running \cup open \cup cp.flight.steps \cup mem.owned
NewIds(n) == LET free == (1..(Cardinality(UsedIds) + n)) \ UsedIds
             IN {x \in free : Cardinality({y \in free : y < x}) < n}
NewId == CHOOSE x \in NewIds(1) : TRUE

(***************************************************************************)
(* How a handler ends: a checkpoint written with its step and gate events, *)
(* an exception unwound to runOrGate, or a gate.                           *)
(***************************************************************************)
Unwind == pc' = "catch" /\ mem' = NoMem /\ UNCHANGED <<cp, log>>

Write(d, steps, gates, where, m) ==
  IF LegalCheckpoint(cp, d)
  THEN /\ cp' = d /\ running' = steps /\ open' = gates
       /\ pc' = where /\ mem' = m /\ UNCHANGED ended
  ELSE Unwind

Goto(where, m) == pc' = where /\ mem' = m /\ UNCHANGED <<cp, log>>

\* A mutant of RaiseOn: the gate does not take over the steps it interrupts.
RaiseOnDisowned(c, op, steps, gates, pinned) ==
  LET g == NewId
  IN Write([c EXCEPT !.stage = "Escalated", !.flight = Flight(op, {g}),
                     !.pinned = pinned, !.partial = FALSE],
           running, gates \cup {g}, "idle", NoMem)

\* raiseExecutionGateWithEvidence on the checkpoint c.  The gate's own step is
\* started and finished in the same write.
RaiseOn(c, op, steps, gates, pinned) ==
  LET g == NewId
  IN Write([c EXCEPT !.stage = "Escalated", !.flight = Flight(op, steps \cup {g}),
                     !.pinned = pinned, !.partial = FALSE],
           running, gates \cup {g}, "idle", NoMem)
Raise(op, steps, pinned) == RaiseOn(cp, op, steps, open, pinned)

(***************************************************************************)
(* runExecution: what a checkpoint makes the engine do next.               *)
(***************************************************************************)
Dispatch(c) ==
  CASE c.intent # NoIntent -> "reconcile"
    [] c.intent = NoIntent /\ c.stage = "Prepare" ->
         IF c.ws = NoSnapshot THEN "prepare" ELSE "manifest"
    [] c.intent = NoIntent /\ c.stage = "Implement" -> "implement"
    [] c.intent = NoIntent /\ c.stage \in {"Check", "Review", "Repair", "Finalize"} -> "check"
    [] OTHER -> "idle"

\* diff: what was changed fits in the bound on a captured diff, or it does not.
DiffFits == BOOLEAN

Busy == pc \notin {"down", "idle"}
\* Where the engine's next call is a git command or an inspection, which an
\* aborted signal makes throw.
Inspecting == {"worktree", "prepared", "implement", "capture", "check", "checked",
               "evidence", "repair", "review", "scope", "verdict", "record",
               "escalate", "commit", "satisfied", "git", "committed", "complete",
               "reconcile"}
At(p) == pc = p /\ (p \in Inspecting => ~aborted)
Env == <<aborted, history, spent>>
Disrupt ==
  /\ spent.disruptions < MaxDisruptions
  /\ spent' = [spent EXCEPT !.disruptions = @ + 1]
Now == Snapshot(wt)

(***************************************************************************)
(* prepareWorkspace and the adapter's prepare.                             *)
(***************************************************************************)
PrepareStarts ==
  /\ At("prepare")
  /\ LET s == NewId
     IN Write([cp EXCEPT !.stage = "Prepare", !.flight = Flight("Prepare", {s})],
              running \cup {s}, open, "worktree", NoMem)
  /\ UNCHANGED <<wt, Env>>

\* A worktree found on disk is one this run's earlier attempt created.
PrepareWorktree ==
  /\ At("worktree")
  /\ IF wt.exists /\ (HeadOf(wt) # 1 \/ Dirty(wt))
     THEN Raise("Prepare", cp.flight.steps, FALSE) /\ UNCHANGED wt
     ELSE Goto("prepared", NoMem) /\ wt' = [wt EXCEPT !.exists = TRUE]
  /\ UNCHANGED Env

PrepareEnds ==
  /\ At("prepared")
  /\ IF HeadOf(wt) # 1
     THEN Raise("Prepare", cp.flight.steps, FALSE)
     ELSE Write([cp EXCEPT !.ws = Now, !.flight = NoFlight],
                running \ cp.flight.steps, open,
                IF cp.manifest THEN "implement" ELSE "manifest", NoMem)
  /\ UNCHANGED <<wt, Env>>

(***************************************************************************)
(* prepareManifest, implementPhase, repairScope: a checkpoint that owns a  *)
(* step, the agent step, its report.                                       *)
(***************************************************************************)
ManifestStarts ==
  /\ At("manifest")
  /\ Write([cp EXCEPT !.stage = "Prepare", !.flight = Flight("Prepare", {NewId})],
           running, open, "agent", NoMem)
  /\ UNCHANGED <<wt, Env>>

ImplementStarts ==
  /\ At("implement")
  /\ \/ /\ HeadOf(wt) # PhaseStart(cp)          \* assertKnownWorkspace
        /\ Unwind
     \/ /\ HeadOf(wt) = PhaseStart(cp)
        /\ cp.partial /\ Dirty(wt)            \* the partial diff is too large
        /\ Raise("Implement", {}, FALSE)
     \/ /\ HeadOf(wt) = PhaseStart(cp)
        /\ Write([cp EXCEPT !.stage = "Implement", !.ws = Now,
                            !.flight = Flight("Implement", {NewId})],
                 running, open, "agent", [NoMem EXCEPT !.seen = Now])
  /\ UNCHANGED <<wt, Env>>

RepairStarts ==
  /\ At("repair")
  /\ IF HeadOf(wt) # cp.ws.head
     THEN Unwind
     ELSE Write([cp EXCEPT !.stage = "Repair", !.ws = Now,
                           !.flight = Flight("Repair", {NewId})],
                running, open, "agent", [NoMem EXCEPT !.seen = Now])
  /\ UNCHANGED <<wt, Env>>

\* The step starts; a writer edits (a crash from here on leaves its edits).
AgentStarts ==
  /\ At("agent")
  /\ running' = running \cup cp.flight.steps
  /\ \E v \in IF cp.flight.op = "Prepare" \/ aborted THEN {wt.tree} ELSE WriterVersions(wt) :
       wt' = Edited(wt, v)
  /\ pc' = "work"
  /\ UNCHANGED <<cp, open, ended, mem, Env>>

\* accountRepair: a repair that does not name every accepted finding once is
\* refused; one that does may leave some unresolved.
RepairAccounts == {"accounting", "unresolved"}
Reports(op) ==
  {"failed", "ok", "plan"} \cup
  CASE op = "Prepare" -> {} [] op = "Implement" -> {"incomplete"}
    [] op = "Repair" -> RepairAccounts

\* The step ends; one that failed leaves its escalation gate open, unless the
\* abort failed it.
AgentEnds ==
  /\ At("work")
  /\ \E r \in Reports(cp.flight.op) :
       /\ mem' = [mem EXCEPT !.res = r]
       /\ open' = IF r = "failed" /\ ~aborted THEN open \cup cp.flight.steps ELSE open
  /\ running' = running \ cp.flight.steps
  /\ pc' = "report"
  /\ UNCHANGED <<cp, ended, wt, Env>>

\* These reports may be answered without a git command.
Uninspected(op) == {"failed"} \cup (CASE op = "Prepare" -> {"plan", "ok"} [] op = "Implement" -> {}
                                     [] op = "Repair" -> {"accounting"})
\* The manifest's prerequisites are verified with git, when it has any.
Prerequisites == pc = "report" /\ cp.flight.op = "Prepare" /\ mem.res = "ok"
Reporting(op) ==
  At("report") /\ cp.flight.op = op /\ (aborted => mem.res \in Uninspected(op))

ManifestEnds ==
  /\ Reporting("Prepare")
  /\ IF mem.res = "ok"
     THEN Write([cp EXCEPT !.stage = "Implement", !.manifest = TRUE, !.flight = NoFlight],
                running, open, "implement", NoMem)
     ELSE Raise("Prepare", cp.flight.steps, mem.res = "plan")
  /\ UNCHANGED <<wt, Env>>

ImplementEnds ==
  /\ Reporting("Implement")
  /\ IF mem.res = "ok" /\ SameHistory(Now, mem.seen)
     THEN \E fits \in DiffFits :
            IF fits THEN Goto("capture", [NoMem EXCEPT !.seen = Now])
            ELSE Raise("Implement", cp.flight.steps, FALSE)
     ELSE Raise("Implement", cp.flight.steps,
                mem.res = "plan" /\ SameHistory(Now, mem.seen))
  /\ UNCHANGED <<wt, Env>>

ImplementationCaptured ==
  /\ At("capture")
  /\ IF Now # mem.seen
     THEN Raise("Implement", cp.flight.steps, FALSE)
     ELSE Write([cp EXCEPT !.stage = "Check", !.ws = Now, !.checks = NoSnapshot,
                           !.review = FALSE, !.flight = NoFlight, !.partial = FALSE],
                running, open, "check", NoMem)
  /\ UNCHANGED <<wt, Env>>

RepairEnds ==
  /\ Reporting("Repair")
  /\ CASE mem.res \in {"failed", "accounting"} \/ ~SameHistory(Now, mem.seen) ->
            Raise("Repair", cp.flight.steps, FALSE)
       [] mem.res \in {"plan", "unresolved"} /\ SameHistory(Now, mem.seen) ->
            Write([cp EXCEPT !.ws = Now], running, open, "unrepaired", mem)
       [] OTHER ->
            Write([cp EXCEPT !.stage = "Check", !.ws = Now, !.flight = NoFlight],
                  running, open, "check", NoMem)
  /\ UNCHANGED <<wt, Env>>

Unrepaired ==
  /\ At("unrepaired")
  /\ Raise("Repair", cp.flight.steps, mem.res = "plan")
  /\ UNCHANGED <<wt, Env>>

(***************************************************************************)
(* runCheckCycle: a cycle of the configured checks.                        *)
(***************************************************************************)
\* A mutant of NextRound: a cycle is not counted.
NextRoundUncounted(c) == c.round
NextRound(c) == c.round + 1

CheckStarts ==
  /\ At("check") /\ cp.round < MaxCycles
  /\ LET s == NewId
     IN IF HeadOf(wt) # cp.ws.head
        THEN Unwind
        ELSE Write([cp EXCEPT !.stage = "Check", !.round = NextRound(cp), !.ws = Now,
                              !.checks = NoSnapshot, !.review = FALSE,
                              !.flight = Flight("Check", {s})],
                   running \cup {s}, open, "checking", [NoMem EXCEPT !.seen = Now])
  /\ UNCHANGED <<wt, Env>>

\* The checks run in the worktree and may change it.
ChecksRun ==
  /\ At("checking")
  /\ \E r \in {"passed", "failed"} : mem' = [mem EXCEPT !.res = r]
  /\ \E v \in {wt.tree} \cup NewVersions(wt) : wt' = Edited(wt, v)
  /\ pc' = "checked"
  /\ UNCHANGED <<cp, log, Env>>

ChecksThrow ==
  /\ At("checking")
  /\ Write([cp EXCEPT !.flight = NoFlight], running \ cp.flight.steps, open,
           "unchecked", [NoMem EXCEPT !.owned = cp.flight.steps])
  /\ UNCHANGED <<wt, Env>>

ChecksUnrun ==
  /\ At("unchecked")
  /\ Raise("Check", mem.owned, FALSE)
  /\ UNCHANGED <<wt, Env>>

ChecksEnd ==
  /\ At("checked")
  /\ IF Now # mem.seen
     THEN Write([cp EXCEPT !.stage = "Check", !.ws = Now, !.flight = NoFlight],
                running \ cp.flight.steps, open,
                IF cp.round = MaxCycles THEN "exhausted" ELSE "check", NoMem)
     ELSE \E fits \in DiffFits :
            IF fits THEN Goto("evidence", mem)
            ELSE Raise("Check", cp.flight.steps, FALSE)
  /\ UNCHANGED <<wt, Env>>

\* cp.checks names the fingerprint that stable, passing checks saw.
ChecksRecorded ==
  /\ At("evidence")
  /\ IF Now # mem.seen
     THEN Raise("Check", cp.flight.steps, FALSE) /\ UNCHANGED green
     ELSE LET ok == mem.res = "passed"
          IN /\ Write([cp EXCEPT !.stage = IF ok THEN "Review" ELSE "Repair",
                                 !.ws = mem.seen,
                                 !.checks = IF ok THEN mem.seen ELSE NoSnapshot,
                                 !.flight = NoFlight],
                      running \ cp.flight.steps, open,
                      CASE ok -> "review"
                        [] ~ok /\ cp.round = MaxCycles -> "exhausted"
                        [] OTHER -> "repair",
                      NoMem)
             /\ green' = IF ok THEN green \cup {<<Unit(cp), wt.tree>>} ELSE green
  /\ UNCHANGED <<wt, aborted, accepted, spent>>

ChecksExhausted ==
  /\ At("exhausted")
  /\ Raise("Check", {}, FALSE)
  /\ UNCHANGED <<wt, Env>>

(***************************************************************************)
(* reviewMutableImplementation: a scout, the lenses side by side, a        *)
(* verifier.  One checkpoint owns the ids of all their steps.              *)
(***************************************************************************)
Scout == {Min(cp.flight.steps)}
Verifier == {Max(cp.flight.steps)}
Turn(p) == CASE p = "scout" -> Scout [] p = "verifier" -> Verifier
             [] p = "lenses" -> cp.flight.steps \ (Scout \cup Verifier)
ReviewPCs == {"scout", "lenses", "verifier"}

Unreviewed(why) == Goto("escalate", [NoMem EXCEPT !.res = why])

\* hasPassingStableChecks, for the fingerprint of the moment.
StableChecks == cp.checks = Now

\* The bounded diff throws when it does not fit: here nothing catches it.
ReviewStarts ==
  /\ At("review")
  /\ IF Now # cp.ws \/ ~StableChecks
     THEN Unreviewed("stale")
     ELSE \E fits \in DiffFits :
            IF fits THEN Goto("scope", [NoMem EXCEPT !.seen = Now]) ELSE Unwind
  /\ UNCHANGED <<wt, Env>>

ReviewScoped ==
  /\ At("scope")
  /\ IF Now # mem.seen
     THEN Unreviewed("stale")
     ELSE LET ids == NewIds(Lenses + 2)
          IN Write([cp EXCEPT !.stage = "Review", !.flight = Flight("Review", ids)],
                   running, open, "scout", [mem EXCEPT !.todo = ids])
  /\ UNCHANGED <<wt, Env>>

ReviewStepStarts(s) ==
  /\ pc \in ReviewPCs /\ s \in Turn(pc) \cap mem.todo
  /\ running' = running \cup {s}
  /\ mem' = [mem EXCEPT !.todo = @ \ {s}]
  /\ UNCHANGED <<cp, open, ended, wt, pc, Env>>

\* What a step that succeeds reports: the scout and the verifier may find the
\* approved plan in conflict, the verifier settles the blockers.
ReviewReports == CASE pc = "scout" -> {"none", "plan"} [] pc = "lenses" -> {mem.res}
                   [] pc = "verifier" -> {"clean", "blockers", "plan"}

\* The lenses or the verifier the engine still waits for after step s.
Awaited(s) == Turn(pc) \cap (mem.todo \cup (running \ {s}))

\* The step failed, or what it answered is no report of its lens
\* (validateLensOutput) a second time: the review is incomplete.
ReviewStepFails(s) ==
  /\ pc \in ReviewPCs /\ s \in Turn(pc) \cap running
  /\ running' = running \ {s}
  /\ open' = IF aborted THEN open ELSE open \cup {s}
  /\ mem' = [mem EXCEPT !.res = "unchecked"]
  /\ pc' = IF Awaited(s) = {} THEN "verdict" ELSE pc
  /\ UNCHANGED <<cp, ended, wt, Env>>

\* validateScopeMap: the scout's map must name the changed paths and their
\* instructions; it is looked at after the step has succeeded, and throws.
ScopeMapRefused(s) ==
  /\ pc = "scout" /\ s \in Turn(pc) \cap running
  /\ running' = running \ {s}
  /\ pc' = "catch" /\ mem' = NoMem
  /\ UNCHANGED <<cp, open, ended, wt, Env>>

ReviewStepEnds(s) ==
  /\ pc \in ReviewPCs /\ s \in Turn(pc) \cap running
  /\ running' = running \ {s}
  /\ \E r \in ReviewReports :
       /\ mem' = [mem EXCEPT !.res = r]
       /\ pc' = CASE Awaited(s) # {} -> pc
                  [] Awaited(s) = {} /\ pc = "scout" /\ r = "none" -> "lenses"
                  [] Awaited(s) = {} /\ pc = "lenses" /\ r = "none" -> "verifier"
                  [] OTHER -> "verdict"
  /\ UNCHANGED <<cp, open, ended, wt, Env>>

\* decideImplementationReview, after the worktree is inspected once more.
Decision == CASE Now # mem.seen -> "mutated"
              [] Now = mem.seen /\ mem.res = "blockers" /\ cp.round >= MaxCycles -> "budget"
              [] OTHER -> mem.res

ReviewDecided ==
  /\ At("verdict")
  /\ Goto("record", [mem EXCEPT !.res = Decision, !.todo = {}])
  /\ accepted' = IF Decision = "clean" THEN accepted \cup {<<Unit(cp), mem.seen.tree>>}
                 ELSE accepted
  /\ UNCHANGED <<wt, aborted, green, spent>>

\* The checkpoint takes the worktree as it is now for the reviewed one.
ReviewRecorded ==
  /\ At("record")
  /\ Write([cp EXCEPT !.stage = "Review", !.ws = Now, !.review = TRUE, !.flight = NoFlight],
           running, open,
           CASE mem.res = "clean" -> "commit" [] mem.res = "blockers" -> "repair"
             [] OTHER -> "escalate",
           IF mem.res = "blockers" THEN NoMem ELSE mem)
  /\ UNCHANGED <<wt, Env>>

\* openGateSteps: the gate owns the steps of every open gate.
ReviewEscalates ==
  /\ At("escalate")
  /\ RaiseOn(IF mem.res = "mutated" THEN [cp EXCEPT !.checks = NoSnapshot, !.review = FALSE]
             ELSE cp,
             "Review", open, open, mem.res = "plan")
  /\ UNCHANGED <<wt, Env>>

(***************************************************************************)
(* commitReviewedWorkspace, with the adapter's prepareCommit and commit.   *)
(***************************************************************************)
AsReviewed == Now = mem.seen /\ Now.head = cp.ws.head

CommitPrepared ==
  /\ At("commit")
  /\ IF ~AsReviewed
     THEN Raise("Review", open, FALSE) /\ UNCHANGED wt
     ELSE /\ wt' = Staged(wt)
          /\ Goto(IF Dirty(wt) THEN "intent" ELSE "satisfied",
                  [NoMem EXCEPT !.seen = Snapshot(wt'), !.now = Now])
  /\ UNCHANGED Env

\* The unit's content is on the branch already.
AlreadySatisfied ==
  /\ At("satisfied")
  /\ IF Now # mem.seen
     THEN Raise("Review", open, FALSE)
     ELSE Goto("complete", [NoMem EXCEPT !.commit = HeadOf(wt)])
  /\ UNCHANGED <<wt, Env>>

IntentRecorded ==
  /\ At("intent")
  /\ LET s == NewId
     IN Write([cp EXCEPT !.stage = "Review", !.ws = mem.now,
                         !.intent = [unit |-> Unit(cp), parent |-> mem.seen.head,
                                     snapshot |-> mem.seen],
                         !.flight = Flight("Review", {s})],
              running \cup {s}, open, "git", NoMem)
  /\ UNCHANGED <<wt, Env>>

\* commit: the intended content is handed to git, whose hooks may restage other
\* content (t), rewrite the message, and leave the worktree with yet another (v).
GitCommit ==
  /\ At("git")
  /\ IF Now # cp.intent.snapshot
     THEN Unwind /\ UNCHANGED <<wt, spent>>
     ELSE /\ \E t \in {wt.tree} \cup NewVersions(wt), trailer \in BOOLEAN :
               LET w == WithCommit(Edited(wt, t), "payo", cp.intent.unit, trailer)
               IN \E v \in {t, wt.tree} \cup NewVersions(w) :
                    /\ wt' = Edited(w, v)
                    /\ IF {t, v} = {wt.tree} /\ trailer THEN UNCHANGED spent ELSE Disrupt
          /\ Goto("committed", NoMem)
  /\ UNCHANGED <<aborted, history>>

\* A mutant of MatchesIntent: the commit's tree and trailer are not compared.
MatchesParent(w, i) == HeadOf(w) = i.parent + 1
\* inspectCommit: HEAD is the child of the intended parent, with the intended
\* tree and trailer.
MatchesIntent(w, i) ==
  /\ HeadOf(w) = i.parent + 1
  /\ Last(w.commits) = [by |-> "payo", unit |-> i.unit, tree |-> i.snapshot.tree,
                        trailer |-> TRUE]

\* commit and its callers look at what the hooks have left before they take it.
CommitInspected ==
  /\ At("committed")
  /\ IF MatchesIntent(wt, cp.intent) /\ ~Dirty(wt)
     THEN Goto("complete", [NoMem EXCEPT !.commit = HeadOf(wt)])
     ELSE Unwind
  /\ UNCHANGED <<wt, Env>>

\* reconcileCommitIntent: after a resume, a commit that was made is taken, one
\* that was not is made, anything else is gated again.
CommitReconciled ==
  /\ At("reconcile")
  /\ IF HeadOf(wt) = cp.intent.parent
     THEN IF Now.elsewhere # cp.ws.elsewhere
          THEN Raise("Review", open, FALSE)
          ELSE Goto("git", NoMem)
     ELSE IF MatchesIntent(wt, cp.intent) /\ ~Dirty(wt)
          THEN Goto("complete", [NoMem EXCEPT !.commit = HeadOf(wt)])
          ELSE Raise("Review", open, FALSE)
  /\ UNCHANGED <<wt, Env>>

(***************************************************************************)
(* completePhase and completeExecution: the receipt (the result), the end  *)
(* of the commit's step and the checkpoint are one write.                  *)
(***************************************************************************)
Accountable ==
  /\ HeadOf(wt) = mem.commit /\ ~Dirty(wt)
  /\ cp.intent # NoIntent => cp.intent.unit = Unit(cp)

Recorded(c, more) ==
  [c EXCEPT !.stage = IF more THEN "Implement" ELSE "Finalize",
            !.phase = IF more THEN @ + 1 ELSE @,
            !.scope = IF more THEN "phase" ELSE "final",
            !.round = 0, !.ws = Now, !.checks = NoSnapshot, !.review = FALSE,
            !.intent = NoIntent, !.receipts = Append(@, mem.commit),
            !.flight = NoFlight, !.partial = FALSE]
\* Mutants of PhaseAccepted: the last phase is taken for one with a successor;
\* the phase does not advance.
PhaseAcceptedOnceMore(c) == Recorded(c, c.phase <= Phases)
PhaseAcceptedInPlace(c) == [Recorded(c, c.phase < Phases) EXCEPT !.phase = c.phase]
PhaseAccepted(c) == Recorded(c, c.phase < Phases)

PhaseCompletes ==
  /\ At("complete") /\ cp.scope = "phase"
  /\ IF ~Accountable \/ Len(cp.receipts) + 1 # cp.phase
     THEN Unwind
     ELSE LET next == PhaseAccepted(cp)
          IN Write(next, running \ cp.flight.steps, open, Dispatch(next), NoMem)
  /\ UNCHANGED <<wt, Env>>

ExecutionCompletes ==
  /\ At("complete") /\ cp.scope = "final"
  /\ LET next == [cp EXCEPT !.stage = "Completed", !.ws = Now, !.intent = NoIntent,
                            !.flight = NoFlight, !.partial = FALSE]
     IN IF /\ Accountable /\ cp.checks # NoSnapshot /\ cp.review
           /\ LegalCheckpoint(cp, next)
           /\ running \subseteq cp.flight.steps /\ open = {}   \* run.ended is legal
        THEN /\ cp' = next /\ running' = {} /\ ended' = TRUE
             /\ pc' = "idle" /\ mem' = NoMem /\ UNCHANGED open
        ELSE Unwind
  /\ UNCHANGED <<wt, Env>>

(***************************************************************************)
(* runOrGate's catch.  After an abort there is no gate: restart raises it. *)
(***************************************************************************)
Caught ==
  /\ At("catch")
  /\ IF aborted \/ cp.stage = "Escalated"
     THEN Goto("idle", NoMem)
     ELSE Raise(cp.stage, cp.flight.steps, FALSE)
  /\ UNCHANGED <<wt, Env>>

AbortThrows ==
  /\ aborted /\ Busy /\ pc # "catch"
  /\ \/ pc \in Inspecting \/ Prerequisites
     \/ pc = "report" /\ mem.res \notin Uninspected(cp.flight.op)
  /\ Unwind
  /\ UNCHANGED <<wt, Env>>

(***************************************************************************)
(* resumeExecution and openExecution.                                      *)
(***************************************************************************)
Resumable ==
  /\ cp.stage = "Escalated" /\ cp.flight # NoFlight
  /\ open \subseteq cp.flight.steps
  /\ ~cp.pinned

ResumeStage ==
  CASE ~cp.manifest -> "Prepare"
    [] cp.manifest /\ cp.intent # NoIntent -> "Review"
    [] cp.manifest /\ cp.intent = NoIntent /\ cp.scope = "final" -> "Finalize"
    [] OTHER -> IF cp.flight.op \in {"Check", "Review", "Repair"} THEN "Check" ELSE "Implement"

Resumed(c) ==
  [c EXCEPT !.stage = ResumeStage, !.ws = IF @ = NoSnapshot THEN @ ELSE Now,
            !.round = IF c.intent # NoIntent THEN @ ELSE 0, !.flight = NoFlight,
            !.partial = c.manifest /\ c.intent = NoIntent]
\* A mutant of ResumeCheckpoint: the commit's intent is forgotten.
ResumeCheckpointForgetful(c) == [Resumed(c) EXCEPT !.intent = NoIntent]
ResumeCheckpoint(c) == Resumed(c)

Resume ==
  /\ pc = "idle" /\ ~aborted /\ Resumable /\ spent.resumes < MaxResumes
  /\ cp.ws # NoSnapshot /\ cp.intent = NoIntent => SameHistory(Now, cp.ws)
  /\ LET next == ResumeCheckpoint(cp)
     IN Write(next, running \ cp.flight.steps, open \ cp.flight.steps,
              Dispatch(next), NoMem)
  /\ spent' = [spent EXCEPT !.resumes = @ + 1]
  /\ UNCHANGED <<wt, aborted, history>>

\* The kernel's recovery gates every step that was running; then openExecution
\* gates the run unless a gate of its own is already in place.
Restart ==
  /\ pc = "down"
  /\ LET gated == IF ended THEN open ELSE open \cup running
     IN IF ended \/ (cp.stage = "Escalated" /\ cp.flight # NoFlight)
        THEN open' = gated /\ pc' = "idle" /\ UNCHANGED <<cp, running, ended, mem>>
        ELSE RaiseOn(cp, IF cp.flight = NoFlight THEN cp.stage ELSE cp.flight.op,
                     cp.flight.steps, gated, FALSE)
  /\ UNCHANGED <<wt, Env>>

(***************************************************************************)
(* The environment, within its bounds.                                     *)
(***************************************************************************)
Engines == <<cp, log, pc, mem, aborted, history>>

Crash ==
  /\ pc # "down" /\ ~aborted /\ Disrupt
  /\ pc' = "down" /\ mem' = NoMem
  /\ UNCHANGED <<cp, log, wt, aborted, history>>

\* A shutdown aborts the running command and lets it unwind before it exits.
Shutdown ==
  /\ Busy /\ ~aborted /\ Disrupt
  /\ aborted' = TRUE
  /\ UNCHANGED <<cp, log, wt, pc, mem, history>>

Exit ==
  /\ aborted /\ pc = "idle"
  /\ pc' = "down" /\ aborted' = FALSE
  /\ UNCHANGED <<cp, log, wt, mem, history, spent>>

\* A git command, an inspection, the store or a parser throws.  When it is the
\* catch's own gate that fails, nothing is written.
Fault ==
  /\ Busy /\ Disrupt
  /\ IF pc = "catch" THEN Goto("idle", NoMem) ELSE Unwind
  /\ UNCHANGED <<wt, aborted, history>>

\* Someone edits the worktree.
Touch ==
  /\ wt.exists /\ Disrupt
  /\ \E v \in NewVersions(wt) : wt' = Edited(wt, v)
  /\ UNCHANGED Engines

\* Someone commits on the execution's branch.
ForeignCommit ==
  /\ wt.exists /\ Disrupt
  /\ wt' = WithCommit(wt, "foreign", 0, FALSE)
  /\ UNCHANGED Engines

\* Someone moves another branch of the repository.
OtherBranch ==
  /\ Disrupt
  /\ wt' = [wt EXCEPT !.elsewhere = @ + 1]
  /\ UNCHANGED Engines

(***************************************************************************)
(* The specification.                                                      *)
(***************************************************************************)
Init ==
  /\ cp = InitialCheckpoint
  /\ running = {} /\ open = {} /\ ended = FALSE
  /\ wt = [commits |-> <<[by |-> "base", unit |-> 0, tree |-> 0, trailer |-> FALSE]>>, tree |-> 0,
           staged |-> FALSE, elsewhere |-> 0, latest |-> 0, exists |-> FALSE]
  /\ pc = "prepare" /\ mem = NoMem /\ aborted = FALSE
  /\ green = {} /\ accepted = {}
  /\ spent = [resumes |-> 0, disruptions |-> 0]

Engine ==
  \/ PrepareStarts \/ PrepareWorktree \/ PrepareEnds
  \/ ManifestStarts \/ ImplementStarts \/ RepairStarts
  \/ AgentStarts \/ AgentEnds
  \/ ManifestEnds \/ ImplementEnds \/ ImplementationCaptured \/ RepairEnds \/ Unrepaired
  \/ CheckStarts \/ ChecksRun \/ ChecksThrow \/ ChecksUnrun \/ ChecksEnd
  \/ ChecksRecorded \/ ChecksExhausted
  \/ ReviewStarts \/ ReviewScoped
  \/ \E s \in cp.flight.steps : \/ ReviewStepStarts(s) \/ ReviewStepFails(s)
                                \/ ScopeMapRefused(s) \/ ReviewStepEnds(s)
  \/ ReviewDecided \/ ReviewRecorded \/ ReviewEscalates
  \/ CommitPrepared \/ AlreadySatisfied \/ IntentRecorded \/ GitCommit
  \/ CommitInspected \/ CommitReconciled \/ PhaseCompletes \/ ExecutionCompletes
  \/ Caught \/ AbortThrows
Process == Resume \/ Restart \/ Crash \/ Shutdown \/ Exit \/ Fault
World == Touch \/ ForeignCommit \/ OtherBranch

ExecutionNext == Engine \/ Process \/ World
Spec == Init /\ [][ExecutionNext]_vars

\* Agent steps return (AgentStep), checks have timeouts, and the rest is the
\* engine's own promise chain; a stopped server is started again.
Fairness == WF_vars(Engine) /\ WF_vars(Restart) /\ WF_vars(Exit)
LiveSpec == Spec /\ Fairness

(***************************************************************************)
(* Properties.                                                             *)
(***************************************************************************)
StepIds == Nat
Snapshots == [head: Nat, tree: Nat, staged: BOOLEAN, elsewhere: Nat]
TypeOK ==
  /\ cp.stage \in Stages /\ cp.phase \in 1..Phases /\ cp.scope \in {"phase", "final"}
  /\ cp.round \in 0..MaxCycles
  /\ {cp.ws, cp.checks, cp.intent.snapshot, mem.seen, mem.now} \subseteq Snapshots
  /\ cp.intent.unit \in 0..Final
  /\ Len(cp.receipts) <= Phases
  /\ cp.scope = "phase" => cp.phase = Len(cp.receipts) + 1
  /\ running \cup open \cup cp.flight.steps \subseteq StepIds
  /\ wt.tree \in 0..wt.latest /\ wt.latest <= MaxVersions

Vetted(unit, v) == <<unit, v>> \in green \cap accepted

\* What the engine takes over or records for a unit is a content that passed that
\* unit's checks untouched and that the unit's reviewers accepted, whatever was
\* edited, crashed or resumed in between.  A commit whose content a hook changed
\* may be on the branch; it is the one the durable intent still waits for, and no
\* later receipt, resume or end of the run takes it for that one.
Doubtful(i) == cp.intent # NoIntent /\ i = cp.intent.parent + 1 /\ pc # "complete"
CommitsAreVetted ==
  /\ \A i \in 1..HeadOf(wt) : wt.commits[i].by = "payo" =>
       Vetted(wt.commits[i].unit, wt.commits[i].tree) \/ Doubtful(i)
  /\ \A p \in 1..Len(cp.receipts) : Vetted(p, wt.commits[cp.receipts[p]].tree)
  /\ ended => \E i \in 1..HeadOf(wt) : Vetted(Final, wt.commits[i].tree)

\* A commit without its receipt is one the durable intent still names: no crash
\* between the commit and the receipt can lose or repeat it.
CommitsAreCovered ==
  \A i \in 1..HeadOf(wt) : wt.commits[i].by = "payo" =>
    \/ wt.commits[i].unit <= Len(cp.receipts)
    \/ cp.intent.unit = wt.commits[i].unit
    \/ ended /\ wt.commits[i].unit = Final

\* While a writer may edit the worktree its step is the only one running and no
\* gate of the run is open: an engine that waits for an operator does not write.
WriterAlone ==
  pc = "work" /\ cp.flight.op \in {"Implement", "Repair"} =>
    running = cp.flight.steps /\ open = {}

\* Every step still running when the run is gated belongs to the gate, so the
\* resume ends it, nothing of it is there beside the next writer, and a later end of
\* the run is legal.
GateOwnsRunningSteps ==
  /\ WriterAlone
  /\ pc = "idle" /\ cp.stage = "Escalated" => running \subseteq cp.flight.steps
  /\ ended => running = {} /\ open = {}

\* The phases are committed and recorded as the abstract ledger allows.
Own(w) == {i \in 1..HeadOf(w) : w.commits[i].by = "payo"}
Ledger == INSTANCE ExecutionLedger WITH
  made <- [i \in Own(wt) |-> wt.commits[i].unit],
  recorded <- Len(cp.receipts),
  over <- ended
ImplementsLedger == Ledger!LedgerSpec

\* The engine never runs for ever: it completes or stops at a gate (or, when
\* even the gate cannot be written, stops until a restart).
EngineSettles == Busy ~> ~Busy

\* After a restart a run that is not over is at a gate, and the operator can
\* resume it unless its plan is at fault.
RestartedRunResumable ==
  pc = "idle" /\ cp.stage = "Escalated" /\ ~cp.pinned => Resumable

\* The engine never builds on a commit it did not make: unexpected history
\* stays gated.
UnexpectedHistoryStaysGated ==
  \A i \in 1..HeadOf(wt), j \in 1..HeadOf(wt) :
    i < j /\ wt.commits[i].by = "foreign" => wt.commits[j].by # "payo"
=============================================================================
