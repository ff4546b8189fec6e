------------------------------ MODULE Planning ------------------------------
(***************************************************************************)
(* One planning run of Payo (modules/factory/src/commands.ts, review.ts,   *)
(* plans.ts): a work item is resolved, an agent drafts a plan, reviewers   *)
(* and a verifier judge it, a reviser repairs it, and the operator         *)
(* answers, edits, updates, restores and approves it.                      *)
(*                                                                         *)
(* Two copies of the plan exist: the versions recorded in the run's log,   *)
(* and the working copy plan.md, which people edit at any time.  One       *)
(* action is what the engine or a command does between two durable         *)
(* writes.  The process may stop between any two of them.                  *)
(*                                                                         *)
(* A content is a text and the managed answers section after it.  Texts    *)
(* are numbers: an agent's draft or a person's edit is a new one.  A       *)
(* question is answered or not; what an answer says is left out.           *)
(***************************************************************************)
EXTENDS Naturals, Sequences, FiniteSets, FiniteSetsExt, SequencesExt

CONSTANTS
  Lenses,          \* review lenses
  MaxRounds,       \* reviews before the run escalates (three in the code)
  Questions,       \* open questions a plan may have
  \* bounds
  MaxTexts,        \* texts that are ever written
  MaxCommands,     \* commands of the operator
  MaxDisruptions,  \* crashes, faults and edits of plan.md
  MaxSpent         \* commands and disruptions together

ASSUME PlanningAssumption ==
  /\ Lenses \in Nat \ {0} /\ MaxRounds \in Nat \ {0, 1}
  /\ MaxTexts \in Nat \ {0} /\ MaxCommands \in Nat /\ MaxDisruptions \in Nat
  /\ MaxSpent \in Nat

VARIABLES
  cp,         \* the durable checkpoint
  versions,   \* the plan versions recorded in the log
  running,    \* steps of the log that are running
  open,       \* open gates: their step and kind
  ended,      \* the run has ended as approved
  file,       \* plan.md
  worktree,   \* the planning worktree exists
  pc, mem,    \* where the engine or a command is, and its locals
  threw,      \* an exception has stopped the engine since the last restart
  texts,      \* texts written so far
  spent       \* what has been used of the bounds

log == <<cp, versions, running, open, ended>>
disk == <<file, worktree>>
vars == <<log, disk, pc, mem, threw, texts, spent>>

Stages == {"ResolveWorkItem", "Plan", "PlanReview", "Revise", "Approval", "Approved",
           "Escalated"}

(***************************************************************************)
(* Contents and versions.                                                  *)
(***************************************************************************)
\* sec is {} without a managed section, else it holds the set of answers.
Content(t, sec) == [text |-> t, sec |-> sec]
NoFile == Content(0, {})
Rendered(c, answers) == [c EXCEPT !.sec = {answers}]    \* renderAnswers

Version(by, md, answers, asks) == [by |-> by, md |-> md, answers |-> answers, asks |-> asks]

NoUpdate == [kind |-> "none", base |-> 0, expected |-> NoFile, result |-> 0]
NoFlight == [stage |-> "none", steps |-> {}]
Flight(stage, steps) == [stage |-> stage, steps |-> steps]

Current == versions[cp.plan]          \* version(handle)
Updating == cp.pending # NoUpdate

(***************************************************************************)
(* Steps, gates and the end of a handler.                                  *)
(***************************************************************************)
NoMem == [todo |-> {}, unchecked |-> FALSE, res |-> "none", save |-> {}]
Gate(s, kind) == [step |-> s, kind |-> kind]
GatedSteps == {g.step : g \in open}
UsedIds == running \cup GatedSteps \cup cp.flight.steps
NewIds(n) == LET free == (1..(Cardinality(UsedIds) + n)) \ UsedIds
             IN {x \in free : Cardinality({y \in free : y < x}) < n}
NewId == Min(NewIds(1))

AtStage(c) ==
  CASE c.stage = "ResolveWorkItem" -> "resolve"
    [] c.stage \in {"Plan", "Revise"} -> "draft"
    [] c.stage = "PlanReview" -> "review"
    [] OTHER -> "idle"
\* The head of run's loop: what the checkpoint c makes the engine do.
\* A mutant of Loop: an update's result is applied again.
LoopReapplies(c) == IF c.pending.result # 0 THEN "update" ELSE AtStage(c)
Loop(c) ==
  IF c.pending.result # 0 /\ c.plan # c.pending.result THEN "update" ELSE AtStage(c)

\* checkpoint: the new checkpoint, its plan versions and its events are one write.
Write(c, saved, steps, gates, where, m) ==
  /\ cp' = c /\ versions' = versions \o saved
  /\ running' = steps /\ open' = gates
  /\ pc' = where /\ mem' = m
  /\ UNCHANGED ended
Goto(where, m) == pc' = where /\ mem' = m /\ UNCHANGED log
Mark(stage, ids, where, m) ==
  Write([cp EXCEPT !.stage = stage, !.flight = Flight(stage, ids)], <<>>,
        running, open, where, m)

\* writePlan: plan.md is replaced as a whole.
WritePlan(md) == file' = md

Rest == <<disk, threw, texts, spent>>
Engine == {"update", "applied", "resolve", "begun", "resolving", "resolved", "draft",
           "drafting", "writing", "drafted", "review", "lenses", "verifier", "decide",
           "approving", "asking", "pause", "paused"}
Commands == {"answering", "approving plan", "removing"}

(***************************************************************************)
(* pause: the run escalates behind a gate that owns the interrupted steps; *)
(* then plan.md shows the plan, unless an update is pending.               *)
(***************************************************************************)
\* A mutant of Pausing: the interrupted steps are not taken over.
PausingAlone(s) == Flight(cp.flight.stage, {s})
Pausing(s) == Flight(cp.flight.stage, cp.flight.steps \cup {s})

PauseGates ==
  /\ pc = "pause"
  /\ LET s == NewId
     IN Write([cp EXCEPT !.stage = "Escalated", !.flight = Pausing(s)], <<>>,
              running, open \cup {Gate(s, "escalation")}, "paused", NoMem)
  /\ UNCHANGED Rest

PauseWrites ==
  /\ pc = "paused"
  /\ IF cp.plan # 0 /\ ~Updating THEN WritePlan(Current.md) ELSE UNCHANGED file
  /\ Goto("idle", NoMem)
  /\ UNCHANGED <<worktree, threw, texts, spent>>

(***************************************************************************)
(* run: a pending update's result replaces plan.md, if nobody edited it.   *)
(* (The check and the replacement are one step: the docs name the race     *)
(* that remains between the two.)                                          *)
(***************************************************************************)
\* A mutant of Untouched: the working copy is not looked at.
UntouchedUnseen == TRUE
Untouched == file = cp.pending.expected

UpdateWrites ==
  /\ pc = "update"
  /\ LET md == versions[cp.pending.result].md
     IN IF Untouched \/ file = md
        THEN WritePlan(md) /\ Goto("applied", NoMem)
        ELSE Mark("PlanReview", {NewId}, "pause", NoMem) /\ UNCHANGED file
  /\ UNCHANGED <<worktree, threw, texts, spent>>

\* A mutant of Applied: the answers of the restored version are left behind.
AppliedPlanOnly(v) ==
  [cp EXCEPT !.plan = cp.pending.result, !.pending.expected = v.md]
Applied(v) ==
  [cp EXCEPT !.plan = cp.pending.result, !.answers = v.answers, !.pending.expected = v.md]

UpdateApplied ==
  /\ pc = "applied"
  /\ LET next == Applied(versions[cp.pending.result])
     IN Write(next, <<>>, running, open, Loop(next), NoMem)
  /\ UNCHANGED Rest

(***************************************************************************)
(* ResolveWorkItem.                                                        *)
(***************************************************************************)
ResolveMarked ==
  /\ pc = "resolve"
  /\ Mark("ResolveWorkItem", {NewId}, "begun", NoMem)
  /\ UNCHANGED Rest

ResolveStarts ==
  /\ pc = "begun"
  /\ Write(cp, <<>>, running \cup cp.flight.steps, open, "resolving", NoMem)
  /\ UNCHANGED Rest

ResolveFails ==
  Write(cp, <<>>, running \ cp.flight.steps, open, "pause", NoMem)

WorktreeCreated ==
  /\ pc = "resolving"
  /\ \/ worktree' = TRUE /\ Goto("resolved", NoMem)
     \/ ResolveFails /\ UNCHANGED worktree
  /\ UNCHANGED <<file, threw, texts, spent>>

Resolved ==
  /\ pc = "resolved"
  /\ \/ LET next == [cp EXCEPT !.stage = "Plan", !.flight = NoFlight]
        IN Write(next, <<>>, running \ cp.flight.steps, open, Loop(next), NoMem)
     \/ ResolveFails
  /\ UNCHANGED Rest

(***************************************************************************)
(* How an agent step ends, besides well: with its escalation gate, without *)
(* one (a cancel), or by throwing, its step finished or not.               *)
(***************************************************************************)
StepFails(s) ==
  \/ open' = open \cup {Gate(s, "escalation")} /\ running' = running \ {s}
  \/ open' = open /\ running' \in {running, running \ {s}}

(***************************************************************************)
(* Plan and Revise.                                                        *)
(***************************************************************************)
DraftMarked ==
  /\ pc = "draft"
  /\ Mark(cp.stage, {NewId}, "drafting", NoMem)
  /\ UNCHANGED Rest

DraftStarts ==
  /\ pc = "drafting"
  /\ \/ Write(cp, <<>>, running \cup cp.flight.steps, open, "writing", NoMem)
     \/ Goto("pause", NoMem)                 \* roleSpec throws
  /\ UNCHANGED Rest

DraftEnds ==
  /\ pc = "writing"
  /\ \/ /\ Write(cp, <<>>, running \ cp.flight.steps, open, "drafted", NoMem)
     \/ /\ StepFails(Min(cp.flight.steps))
        /\ pc' = "pause" /\ UNCHANGED <<cp, versions, ended, mem>>
  /\ UNCHANGED Rest

DraftRound(unreconciled) ==
  IF unreconciled \/ (Updating /\ cp.pending.result = 0) THEN cp.round ELSE cp.round + 1

\* A draft's text is new, until the bound makes it the last one again.
NextText == Min({texts + 1, MaxTexts})

\* The draft is a new version.  Under an update it is the update's result, not
\* yet the plan.
Drafted ==
  /\ pc = "drafted"
  /\ \E unreconciled \in IF cp.stage = "Revise" THEN BOOLEAN ELSE {FALSE},
        asks \in SUBSET Questions :
       LET md == Content(NextText, {})
           v == Version("agent", IF Updating THEN Rendered(md, cp.answers) ELSE md,
                        cp.answers, asks)
           n == Len(versions) + 1
           next == [cp EXCEPT !.stage = "PlanReview",
                              !.plan = IF Updating THEN @ ELSE n,
                              !.pending.result = IF Updating THEN n ELSE 0,
                              !.round = DraftRound(unreconciled),
                              !.flight = IF unreconciled THEN Flight("Revise", @.steps)
                                         ELSE NoFlight]
       IN Write(next, <<v>>, running, open,
                IF unreconciled THEN "pause" ELSE Loop(next), NoMem)
  /\ texts' = NextText
  /\ UNCHANGED <<disk, threw, spent>>

(***************************************************************************)
(* PlanReview: the lenses side by side, then the verifier.                 *)
(***************************************************************************)
Verifier == {Max(cp.flight.steps)}
Turn == IF pc = "lenses" THEN cp.flight.steps \ Verifier ELSE Verifier
AfterTurn(steps) ==
  IF (Turn \cap steps) # {} THEN pc ELSE IF pc = "lenses" THEN "verifier" ELSE "decide"

ReviewMarked ==
  /\ pc = "review"
  /\ LET ids == NewIds(Lenses + 1)
     IN Mark("PlanReview", ids, "lenses", [NoMem EXCEPT !.todo = ids])
  /\ UNCHANGED Rest

ReviewStepStarts(s) ==
  /\ pc \in {"lenses", "verifier"} /\ s \in Turn \cap mem.todo
  /\ Write(cp, <<>>, running \cup {s}, open, pc, [mem EXCEPT !.todo = @ \ {s}])
  /\ UNCHANGED Rest

\* roleSpec throws: a lens is unchecked, without the verifier there is no review.
ReviewStepUnborn(s) ==
  /\ pc \in {"lenses", "verifier"} /\ s \in Turn \cap mem.todo
  /\ IF pc = "verifier"
     THEN Goto("pause", NoMem)
     ELSE Goto(AfterTurn((mem.todo \ {s}) \cup running),
               [mem EXCEPT !.todo = @ \ {s}, !.unchecked = TRUE])
  /\ UNCHANGED Rest

ReviewStepEnds(s) ==
  /\ pc \in {"lenses", "verifier"} /\ s \in Turn \cap running /\ s \notin mem.todo
  /\ \/ \E res \in IF pc = "lenses" THEN {"none"} ELSE {"clean", "blockers"} :
          Write(cp, <<>>, running \ {s}, open, AfterTurn(mem.todo \cup (running \ {s})),
                [mem EXCEPT !.res = res])
     \/ /\ StepFails(s)
        /\ pc' = AfterTurn(mem.todo \cup (running \ {s}))
        /\ mem' = [mem EXCEPT !.unchecked = TRUE]
        /\ UNCHANGED <<cp, versions, ended>>
  /\ UNCHANGED Rest

\* decideReview.
DecisionWithin(limit) ==
  CASE mem.unchecked -> "Escalated"
    [] ~mem.unchecked /\ mem.res = "blockers" ->
         IF cp.round >= limit THEN "Escalated" ELSE "Revise"
    [] OTHER -> "Approval"
\* A mutant of Decision: one round too many.
DecisionLate == DecisionWithin(MaxRounds + 1)
Decision == DecisionWithin(MaxRounds)

ReviewDecided ==
  /\ pc = "decide"
  /\ CASE Decision = "Escalated" -> Goto("pause", NoMem)
       [] Decision = "Revise" ->
            LET next == [cp EXCEPT !.stage = "Revise", !.flight = NoFlight]
            IN Write(next, <<>>, running, open, Loop(next), NoMem)
       [] OTHER -> Goto("approving", NoMem)
  /\ UNCHANGED Rest

Shown == Current.md

\* plan.md shows the reviewed plan, if nobody edited it during an update.  (One
\* step, as in UpdateWrites.)
ApprovalWrites ==
  /\ pc = "approving"
  /\ IF Updating /\ ~Untouched
     THEN Goto("pause", NoMem) /\ UNCHANGED file
     ELSE Goto("asking", NoMem) /\ WritePlan(Shown)
  /\ UNCHANGED <<worktree, threw, texts, spent>>

ApprovalAsked ==
  /\ pc = "asking"
  /\ LET s == NewId
     IN Write([cp EXCEPT !.stage = "Approval", !.flight = NoFlight, !.pending = NoUpdate],
              <<>>, running \cup {s}, open \cup {Gate(s, "approval")}, "idle", NoMem)
  /\ UNCHANGED Rest

(***************************************************************************)
(* Commands.                                                               *)
(***************************************************************************)
Spending == spent.commands + spent.disruptions < MaxSpent

Command ==
  /\ pc = "idle" /\ ~ended
  /\ Spending /\ spent.commands < MaxCommands
  /\ spent' = [spent EXCEPT !.commands = @ + 1]

\* approvalGate: the approval gate is the only open one.
AtApproval == cp.stage = "Approval" /\ \E g \in open : g.kind = "approval" /\ open = {g}
\* The approval is answered: its gate is resolved and its step finished.
Answered == running \ GatedSteps

\* assertResumable.
Resumable ==
  cp.stage = "Escalated" /\ cp.flight # NoFlight /\ GatedSteps \subseteq cp.flight.steps

\* Whose questions and answers an edited working copy takes over.
Basis ==
  LET answered == /\ Current.by = "answer"
                  /\ cp.plan \notin {cp.pending.base, cp.pending.result}
  IN IF answered \/ cp.pending.result = 0
     THEN [asks |-> Current.asks, answers |-> cp.answers]
     ELSE [asks |-> versions[cp.pending.result].asks,
           answers |-> versions[cp.pending.result].answers]

EditedUnderUpdate ==
  Updating /\ ~Untouched
    /\ (cp.pending.result = 0 \/ file # versions[cp.pending.result].md)

Edited(answers, asks, md) == Version("human", Rendered(md, answers), answers, asks)

\* A mutant of ResumeUpdate: the edited file is not what the update expects now.
ResumeUpdateUnhashed(n) ==
  [cp EXCEPT !.stage = "PlanReview", !.plan = n, !.answers = Basis.answers,
             !.pending.result = n, !.flight = NoFlight]
ResumeUpdate(n) ==
  [cp EXCEPT !.stage = "PlanReview", !.plan = n, !.answers = Basis.answers,
             !.pending.result = n, !.pending.expected = file, !.flight = NoFlight]

\* resume: the gates the run owns are resolved, their steps finished; an edited
\* plan.md becomes a version and is reviewed.
Resume ==
  /\ Command /\ Resumable
  /\ LET n == Len(versions) + 1
         steps == running \ cp.flight.steps
         gates == {g \in open : g.step \notin cp.flight.steps}
         Resumed(c, saved) == Write(c, saved, steps, gates, Loop(c), NoMem)
     IN CASE EditedUnderUpdate ->
               Resumed(ResumeUpdate(n), <<Edited(Basis.answers, Basis.asks, file)>>)
          [] ~Updating /\ cp.plan # 0 /\ cp.flight.stage \in {"PlanReview", "Revise"} ->
               Resumed([cp EXCEPT !.stage = "PlanReview", !.plan = n, !.round = 1,
                                  !.flight = NoFlight],
                       <<Edited(cp.answers, Current.asks,
                                IF file = NoFile THEN Current.md ELSE file)>>)
          [] OTHER ->
               Resumed([cp EXCEPT !.stage = cp.flight.stage, !.flight = NoFlight], <<>>)
  /\ UNCHANGED <<disk, threw, texts>>

RequestChanges ==
  /\ Command /\ AtApproval
  /\ Write([cp EXCEPT !.stage = "PlanReview", !.plan = Len(versions) + 1, !.round = 1],
           <<Edited(cp.answers, Current.asks, file)>>, Answered, {}, "review", NoMem)
  /\ UNCHANGED <<disk, threw, texts>>

\* acceptPlanUpdate: what plan.md held when it was accepted is the update's base,
\* and a restored version is its result.  v is the restored version, 0 for a prompt.
UpdateAccepted(v) ==
  /\ Command /\ AtApproval
  /\ LET edited == IF file = Current.md THEN <<>>
                   ELSE <<Version("human", file, cp.answers, Current.asks)>>
         restored == IF v = 0 THEN <<>>
                     ELSE <<Version("restore", versions[v].md, versions[v].answers,
                                    versions[v].asks)>>
         saved == edited \o restored
         base == IF edited = <<>> THEN cp.plan ELSE Len(versions) + 1
         next == [cp EXCEPT !.stage = IF v = 0 THEN "Revise" ELSE "PlanReview",
                            !.plan = base, !.round = 1, !.flight = NoFlight,
                            !.pending = [kind |-> IF v = 0 THEN "prompt" ELSE "restore",
                                         base |-> base, expected |-> file,
                                         result |-> IF v = 0 THEN 0
                                                    ELSE Len(versions) + Len(saved)]]
     IN Write(next, saved, Answered, {}, Loop(next), NoMem)
  /\ UNCHANGED <<disk, threw, texts>>

\* answer: plan.md is read, rendered with the new answer, read again and written,
\* then the version is recorded.
AnswerWrites(q) ==
  /\ Command /\ cp.stage \in {"Approval", "Escalated"}
  /\ cp.plan # 0 /\ q \in Current.asks /\ file # NoFile
  /\ LET answers == cp.answers \cup {q}
         md == Rendered(file, answers)
     IN /\ WritePlan(md)
        /\ Goto("answering",
                [NoMem EXCEPT !.save = {Version("answer", md, answers, Current.asks)}])
  /\ UNCHANGED <<worktree, threw, texts>>

AnswerRecorded ==
  /\ pc = "answering"
  /\ \E v \in mem.save :
       Write([cp EXCEPT !.plan = Len(versions) + 1, !.answers = v.answers], <<v>>,
             running, open, "idle", NoMem)
  /\ UNCHANGED Rest

\* approve: the answers are rendered into plan.md, the worktree is removed, then
\* the approval is recorded and the run ends.
Approvable ==
  /\ AtApproval
  /\ running = GatedSteps
  /\ Current.asks \subseteq cp.answers

ApproveWrites ==
  /\ Command /\ Approvable /\ file # NoFile
  /\ LET v == Edited(cp.answers, Current.asks, file)
     IN WritePlan(v.md) /\ Goto("approving plan", [NoMem EXCEPT !.save = {v}])
  /\ UNCHANGED <<worktree, threw, texts>>

ApproveRemoves ==
  /\ pc = "approving plan"
  /\ worktree' = FALSE
  /\ Goto("removing", mem)
  /\ UNCHANGED <<file, threw, texts, spent>>

ApproveRecorded ==
  /\ pc = "removing"
  /\ cp' = [cp EXCEPT !.stage = "Approved", !.plan = Len(versions) + 1]
  /\ \E v \in mem.save : versions' = Append(versions, v)
  /\ running' = Answered /\ open' = {} /\ ended' = TRUE
  /\ pc' = "idle" /\ mem' = NoMem
  /\ UNCHANGED Rest

(***************************************************************************)
(* openFactory: the kernel's recovery gates the steps that were running;   *)
(* then a run nobody could continue is gated, with its interrupted stage.  *)
(***************************************************************************)
\* A mutant of Stranded: a run between two stages is not gated.
StrandedInFlight(gates) == ~ended /\ cp.stage # "Escalated" /\ cp.flight # NoFlight
Stranded(gates) ==
  /\ ~ended
  /\ ~(cp.stage = "Escalated" /\ cp.flight # NoFlight)
  /\ cp.flight # NoFlight \/ gates = {}

Restart ==
  /\ pc = "down"
  /\ LET gates == open \cup {Gate(s, "interrupted") : s \in running \ GatedSteps}
         s == NewId
         stage == IF cp.flight = NoFlight THEN cp.stage ELSE cp.flight.stage
     IN IF Stranded(gates)
        THEN Write([cp EXCEPT !.stage = "Escalated",
                              !.flight = Flight(stage, cp.flight.steps \cup {s})],
                   <<>>, running, gates \cup {Gate(s, "escalation")}, "idle", NoMem)
        ELSE Write(cp, <<>>, running, IF ended THEN open ELSE gates, "idle", NoMem)
  /\ threw' = FALSE
  /\ UNCHANGED <<disk, texts, spent>>

(***************************************************************************)
(* The environment, within its bounds.                                     *)
(***************************************************************************)
Disrupt ==
  /\ Spending /\ spent.disruptions < MaxDisruptions
  /\ spent' = [spent EXCEPT !.disruptions = @ + 1]

Crash ==
  /\ pc # "down" /\ Disrupt
  /\ pc' = "down" /\ mem' = NoMem
  /\ UNCHANGED <<log, disk, threw, texts>>

\* The store, the disk, git or a parser throws, not inside an agent step.  Where
\* commands.ts catches, the run is paused; elsewhere the engine stops, or the
\* command is refused.
Resolving == pc \in {"resolving", "resolved"}
Caught ==
  \/ Resolving \/ pc \in {"drafting", "decide"}
  \/ pc = "verifier" /\ running \cap Turn = {}
Uncaught ==
  \/ pc \in Commands \cup (Engine \ {"resolving", "resolved", "writing", "lenses", "verifier"})
  \/ pc = "lenses" /\ mem.todo = cp.flight.steps
Fault ==
  /\ Disrupt
  /\ \/ /\ Caught
        /\ Write(cp, <<>>, IF Resolving THEN running \ cp.flight.steps ELSE running, open,
                 "pause", NoMem)
        /\ UNCHANGED threw
     \/ /\ Uncaught
        /\ Goto("idle", NoMem)
        /\ threw' = (threw \/ pc \in Engine)
  /\ UNCHANGED <<disk, texts>>

\* Someone edits the text of plan.md.
Edit ==
  /\ file # NoFile /\ texts < MaxTexts /\ Disrupt
  /\ file' = [file EXCEPT !.text = texts + 1]
  /\ texts' = texts + 1
  /\ UNCHANGED <<log, worktree, pc, mem, threw>>

(***************************************************************************)
(* The specification: beginFactory's run, then the engine and commands.    *)
(***************************************************************************)
Init ==
  /\ cp = [stage |-> "ResolveWorkItem", round |-> 0, plan |-> 0, answers |-> {},
           pending |-> NoUpdate, flight |-> NoFlight]
  /\ versions = <<>> /\ running = {} /\ open = {} /\ ended = FALSE
  /\ file = NoFile /\ worktree = FALSE
  /\ pc = "resolve" /\ mem = NoMem /\ threw = FALSE
  /\ texts = 0
  /\ spent = [commands |-> 0, disruptions |-> 0]

EngineNext ==
  \/ PauseGates \/ PauseWrites \/ UpdateWrites \/ UpdateApplied
  \/ ResolveMarked \/ ResolveStarts \/ WorktreeCreated \/ Resolved
  \/ DraftMarked \/ DraftStarts \/ DraftEnds \/ Drafted
  \/ ReviewMarked
  \/ \E s \in cp.flight.steps :
       ReviewStepStarts(s) \/ ReviewStepUnborn(s) \/ ReviewStepEnds(s)
  \/ ReviewDecided \/ ApprovalWrites \/ ApprovalAsked
  \/ AnswerRecorded \/ ApproveRemoves \/ ApproveRecorded
CommandNext ==
  \/ Resume \/ RequestChanges \/ ApproveWrites
  \/ \E v \in 0..Len(versions) : UpdateAccepted(v)
  \/ \E q \in Questions : AnswerWrites(q)
PlanningNext == EngineNext \/ CommandNext \/ Restart \/ Crash \/ Fault \/ Edit

\* Agent steps return (AgentStep); the rest is the engine's own promise chain;
\* a stopped server is started again.
Fairness == WF_vars(EngineNext) /\ WF_vars(Restart)
Spec == Init /\ [][PlanningNext]_vars
LiveSpec == Spec /\ Fairness

(***************************************************************************)
(* Properties.                                                             *)
(***************************************************************************)
Contents == [text: 0..MaxTexts, sec: SUBSET SUBSET Questions]
Versions == [by: {"agent", "human", "answer", "restore"}, md: Contents,
             answers: SUBSET Questions, asks: SUBSET Questions]
\* The checkpoint, the versions it names and plan.md have their types.
TypeOK ==
  /\ cp.stage \in Stages /\ cp.round \in 0..MaxRounds
  /\ cp.plan \in 0..Len(versions) /\ cp.answers \subseteq Questions
  /\ cp.pending.result \in 0..Len(versions) /\ cp.pending.expected \in Contents
  /\ versions \in Seq(Versions)
  /\ file \in Contents /\ worktree \in BOOLEAN
  /\ ended <=> cp.stage = "Approved"

\* commands.ts, openFactory: "Any active nonterminal run must expose a command to
\* continue it, even when a crash landed between a stage transition and the next
\* operation marker."  Whatever was interrupted, a run that is not at work takes a
\* resume or, at its approval gate, a decision.  (Not after an exception that no
\* handler catches, until the next restart.)
EveryRunHasCommand ==
  pc = "idle" /\ ~ended /\ ~threw =>
    \/ Resumable /\ running \subseteq cp.flight.steps
    \/ AtApproval /\ running = GatedSteps

\* A text that only plan.md holds: someone wrote it, and no version records it.
Saved(c) == \E i \in 1..Len(versions) : versions[i].md.text = c.text
\* usage.md: "If an editor changes the file during work, the run escalates and
\* preserves the file".  While an update is pending, nothing but another edit
\* replaces a text that only plan.md holds.
UpdateKeepsEdits ==
  [][Updating /\ file # NoFile /\ file'.text # file.text =>
       Saved(file) \/ ~Saved(file)']_vars

\* At the approval gate plan.md is what the reviewers were shown, or what a person
\* wrote since: never an older version of the plan.
ApprovalShowsPlan ==
  AtApproval /\ pc = "idle" => file.text = Current.md.text \/ ~Saved(file)

\* At the approval gate the answers are those of the plan on it, through updates,
\* restores, edits and answers given while the run was escalated.
AnswersFollowPlan ==
  AtApproval => cp.answers = Current.answers

\* A run that ended as approved has an approved plan with an answer to each of its
\* questions, and leaves no worktree, step or gate behind.
ApprovedIsComplete ==
  ended =>
    /\ Current.asks \subseteq Current.answers /\ Current.md.sec = {Current.answers}
    /\ ~worktree /\ running = {} /\ open = {}

\* What is approved is what was shown: at the approval gate plan.md, the plan and the
\* answers belong together, and a run that ends as approved has all three complete.
ApprovalIsConsistent == ApprovalShowsPlan /\ AnswersFollowPlan /\ ApprovedIsComplete

\* The planning loop never runs for ever: it reaches the approval gate or
\* escalates, and a command's answer is given.
PlanningSettles == []<>(pc \notin Engine \cup Commands)
=============================================================================
