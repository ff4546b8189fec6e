------------------------------ MODULE RunState ------------------------------
(***************************************************************************)
(* The run-state reducer of Payo's kernel (packages/kernel/src/state.ts)   *)
(* and the startup recovery computed from a folded state (recover in       *)
(* packages/kernel/src/run.ts).  A run is an append-only log of events;    *)
(* its state is the fold of that log.  This module holds operators only:   *)
(* RunLog gives the log its writers, AgentStep drives one step through it. *)
(*                                                                         *)
(* Ids are constants.  Names, reasons, models, usage and artifact contents *)
(* are left out; an artifact is the value its sha256 tells apart.          *)
(***************************************************************************)
EXTENDS Naturals, Sequences, FiniteSets, SequencesExt

CONSTANTS
  Steps,      \* step ids
  Attempts,   \* attempt ids
  Artifacts   \* artifacts, told apart by sha256

StepOutcomes == {"succeeded", "failed", "escalated"}
AttemptOutcomes == {"succeeded", "failed", "timed_out", "cancelled", "interrupted"}
Commands == {"retry", "abandon", "resume"}

(***************************************************************************)
(* Gate ids.  The code builds them as strings: "interrupted:<attempt>",    *)
(* "interrupted-step:<step>:<seq>", "escalation:<step>", and names that    *)
(* the modules above the kernel choose ("factory:<step>" here).            *)
(***************************************************************************)
InterruptedGate(a) == [name |-> "interrupted", of |-> a, at |-> 0]
\* A mutant of InterruptedStepGate: one id for every recovery of the step.
InterruptedStepGateOnce(st, seq) == [name |-> "interrupted-step", of |-> st, at |-> 0]
InterruptedStepGate(st, seq) == [name |-> "interrupted-step", of |-> st, at |-> seq]
EscalationGate(st) == [name |-> "escalation", of |-> st, at |-> 0]
FactoryGate(st) == [name |-> "factory", of |-> st, at |-> 0]

GateIds == [name: {"interrupted"}, of: Attempts, at: {0}]
     \cup [name: {"interrupted-step"}, of: Steps, at: Nat]
     \cup [name: {"escalation", "factory"}, of: Steps, at: {0}]
GateKinds == {"interrupted-attempt", "interrupted-step", "escalation", "factory"}

StepRecords == [status: {"running"} \cup StepOutcomes]
AttemptRecords == [step: Steps, status: {"running"} \cup AttemptOutcomes]
GateRecords == [step: Steps, kind: GateKinds, allowed: SUBSET Commands,
                status: {"open", "resolved"}]

\* Map.set on an immutable copy of the map.
Put(f, k, v) == [x \in DOMAIN f \cup {k} |-> IF x = k THEN v ELSE f[x]]
EmptyMap == [x \in {} |-> 0]
IsMap(f, K, V) ==
  /\ DOMAIN f \subseteq K /\ IsFiniteSet(DOMAIN f)
  /\ f = [x \in DOMAIN f |-> f[x]]
  /\ \A x \in DOMAIN f : f[x] \in V

\* `null` in the code: the state of a run whose log is empty.
NullRun == [status |-> "none", lastSeq |-> 0, steps |-> EmptyMap,
            attempts |-> EmptyMap, gates |-> EmptyMap, artifacts |-> {}]

IsRunState(s) ==
  /\ s = [status |-> s.status, lastSeq |-> s.lastSeq, steps |-> s.steps,
          attempts |-> s.attempts, gates |-> s.gates, artifacts |-> s.artifacts]
  /\ s.status \in {"none", "active", "ended"}
  /\ s.lastSeq \in Nat
  /\ IsMap(s.steps, Steps, StepRecords)
  /\ IsMap(s.attempts, Attempts, AttemptRecords)
  /\ IsMap(s.gates, GateIds, GateRecords)
  /\ s.artifacts \subseteq Artifacts

(***************************************************************************)
(* Event bodies (RunEventBody).                                            *)
(***************************************************************************)
RunCreated == [type |-> "run.created"]
RunEnded == [type |-> "run.ended"]
StepStarted(st) == [type |-> "step.started", step |-> st]
StepFinished(st, o) == [type |-> "step.finished", step |-> st, outcome |-> o]
AttemptStarted(a, st) == [type |-> "attempt.started", attempt |-> a, step |-> st]
AttemptEvent(a) == [type |-> "attempt.event", attempt |-> a]
AttemptFinished(a, o) == [type |-> "attempt.finished", attempt |-> a, outcome |-> o]
GateRaised(g, st, k, cmds) ==
  [type |-> "gate.raised", gate |-> g, step |-> st, kind |-> k, allowed |-> cmds]
GateResolved(g, c) == [type |-> "gate.resolved", gate |-> g, command |-> c]
ArtifactRecorded(x, a) == [type |-> "artifact.recorded", artifact |-> x, attempt |-> a]
NoAttempt == "none"   \* null: the artifact is the run's own

\* The bodies RunEventBody.parse lets through: every field has its type.
EventBodies ==
  [type: {"run.created", "run.ended"}]
    \cup [type: {"step.started"}, step: Steps]
    \cup [type: {"step.finished"}, step: Steps, outcome: StepOutcomes]
    \cup [type: {"attempt.started"}, attempt: Attempts, step: Steps]
    \cup [type: {"attempt.event"}, attempt: Attempts]
    \cup [type: {"attempt.finished"}, attempt: Attempts, outcome: AttemptOutcomes]
    \cup [type: {"gate.raised"}, gate: GateIds, step: Steps, kind: GateKinds,
          allowed: SUBSET Commands]
    \cup [type: {"gate.resolved"}, gate: GateIds, command: Commands]
    \cup [type: {"artifact.recorded"}, artifact: Artifacts, attempt: Attempts \cup {NoAttempt}]

(***************************************************************************)
(* reduce                                                                  *)
(***************************************************************************)
RunningStep(s, st) == st \in DOMAIN s.steps /\ s.steps[st].status = "running"
RunningAttempt(s, a) == a \in DOMAIN s.attempts /\ s.attempts[a].status = "running"
OpenGate(s, g) == g \in DOMAIN s.gates /\ s.gates[g].status = "open"
\* A mutant of Busy: a step is finished without a look at its attempts.
BusyUnseen(s, st) == FALSE
Busy(s, st) == \E a \in DOMAIN s.attempts :
                 s.attempts[a].step = st /\ s.attempts[a].status = "running"
Gated(s, st) == \E g \in DOMAIN s.gates :
                  s.gates[g].step = st /\ s.gates[g].status = "open"

\* Nothing keeps the run from ending.
Settled(s) ==
  /\ \A a \in DOMAIN s.attempts : s.attempts[a].status # "running"
  /\ \A g \in DOMAIN s.gates : s.gates[g].status # "open"
  /\ \A st \in DOMAIN s.steps : s.steps[st].status # "running"

\* Ids reserved for recovery name a gate of the attempt or step they were raised for.
ReservedIdOK(s, e) ==
  /\ e.gate.name = "interrupted" =>
       /\ e.kind = "interrupted-attempt"
       /\ e.gate.of \in DOMAIN s.attempts
       /\ s.attempts[e.gate.of].status = "interrupted"
       /\ s.attempts[e.gate.of].step = e.step
  /\ e.gate.name = "interrupted-step" =>
       e.kind = "interrupted-step" /\ e.gate.of = e.step

\* reduce(state, event) returns, rather than throws.
Legal(s, e) ==
  \/ s.status = "none" /\ e.type = "run.created"
  \/ /\ s.status = "active"
     /\ \/ e.type = "run.ended" /\ Settled(s)
        \/ e.type = "step.started" /\ e.step \notin DOMAIN s.steps
        \/ e.type = "step.finished" /\ RunningStep(s, e.step) /\ ~Busy(s, e.step)
        \/ /\ e.type = "attempt.started"
           /\ e.attempt \notin DOMAIN s.attempts
           /\ RunningStep(s, e.step)
        \/ e.type \in {"attempt.event", "attempt.finished"} /\ RunningAttempt(s, e.attempt)
        \/ /\ e.type = "gate.raised"
           /\ e.gate \notin DOMAIN s.gates
           /\ RunningStep(s, e.step)
           /\ ReservedIdOK(s, e)
        \/ /\ e.type = "gate.resolved"
           /\ OpenGate(s, e.gate)
           /\ e.command \in s.gates[e.gate].allowed
        \/ /\ e.type = "artifact.recorded"
           /\ e.attempt = NoAttempt \/ e.attempt \in DOMAIN s.attempts

\* The maps after an event: new records are set, none is ever removed.
StepsAfter(s, e) ==
  CASE e.type = "step.started" -> Put(s.steps, e.step, [status |-> "running"])
    [] e.type = "step.finished" -> Put(s.steps, e.step, [status |-> e.outcome])
    [] OTHER -> s.steps

AttemptsAfter(s, e) ==
  CASE e.type = "attempt.started" ->
         Put(s.attempts, e.attempt, [step |-> e.step, status |-> "running"])
    [] e.type = "attempt.finished" ->
         Put(s.attempts, e.attempt,
             [step |-> s.attempts[e.attempt].step, status |-> e.outcome])
    [] OTHER -> s.attempts

\* A mutant of GatesAfter: the command is stored as the status.
GatesAfterCommand(s, e) ==
  CASE e.type = "gate.raised" ->
         Put(s.gates, e.gate, [step |-> e.step, kind |-> e.kind,
                               allowed |-> e.allowed, status |-> "open"])
    [] e.type = "gate.resolved" ->
         Put(s.gates, e.gate, [s.gates[e.gate] EXCEPT !.status = e.command])
    [] OTHER -> s.gates

GatesAfter(s, e) ==
  CASE e.type = "gate.raised" ->
         Put(s.gates, e.gate, [step |-> e.step, kind |-> e.kind,
                               allowed |-> e.allowed, status |-> "open"])
    [] e.type = "gate.resolved" ->
         Put(s.gates, e.gate, [step |-> s.gates[e.gate].step, kind |-> s.gates[e.gate].kind,
                               allowed |-> s.gates[e.gate].allowed, status |-> "resolved"])
    [] OTHER -> s.gates

\* The state reduce returns; meant for legal events.
Reduce(s, e) ==
  [status |-> CASE e.type = "run.created" -> "active"
                [] e.type = "run.ended" -> "ended"
                [] OTHER -> s.status,
   lastSeq |-> s.lastSeq + 1,
   steps |-> StepsAfter(s, e),
   attempts |-> AttemptsAfter(s, e),
   gates |-> GatesAfter(s, e),
   artifacts |-> IF e.type = "artifact.recorded" THEN s.artifacts \cup {e.artifact}
                 ELSE s.artifacts]

\* commit's fold: Folded(s, b)[i] is the state after the first i bodies of b.
Folded(s, bodies) ==
  LET after[i \in 0..Len(bodies)] ==
        IF i = 0 THEN s ELSE Reduce(after[i - 1], bodies[i])
  IN after
ReduceBatch(s, bodies) == Folded(s, bodies)[Len(bodies)]
LegalBatch(s, bodies) ==
  \A i \in 1..Len(bodies) : Legal(Folded(s, SubSeq(bodies, 1, i - 1))[i - 1], bodies[i])

(***************************************************************************)
(* recover: what a restarted process appends before it uses a run.  The    *)
(* order inside a set is the Maps' insertion order in the code; any order  *)
(* gives the same state.                                                   *)
(***************************************************************************)
RunningAttempts(s) == {a \in DOMAIN s.attempts : s.attempts[a].status = "running"}
\* A mutant of IdleSteps: a step that has a gate already is gated again.
IdleStepsRegardless(s) == {st \in DOMAIN s.steps :
                             s.steps[st].status = "running" /\ ~Busy(s, st)}
IdleSteps(s) == {st \in DOMAIN s.steps :
                   s.steps[st].status = "running" /\ ~Busy(s, st) /\ ~Gated(s, st)}
RecoveryCommands == {"retry", "abandon"}

Recover(s) ==
  LET as == SetToSeq(RunningAttempts(s))
      sts == SetToSeq(IdleSteps(s))
      Interrupt(a) == AttemptFinished(a, "interrupted")
      AttemptGate(a) ==
        GateRaised(InterruptedGate(a), s.attempts[a].step, "interrupted-attempt",
                   RecoveryCommands)
      StepGate(st) ==
        GateRaised(InterruptedStepGate(st, s.lastSeq), st, "interrupted-step",
                   RecoveryCommands)
  IN [i \in 1..(2 * Len(as) + Len(sts)) |->
        IF i > 2 * Len(as) THEN StepGate(sts[i - 2 * Len(as)])
        ELSE IF i % 2 = 1 THEN Interrupt(as[(i + 1) \div 2])
        ELSE AttemptGate(as[i \div 2])]

(***************************************************************************)
(* What the reducer keeps true of every state it returns.                  *)
(***************************************************************************)
\* A running attempt belongs to a running step.
AttemptsInRunningSteps(s) ==
  \A a \in RunningAttempts(s) : RunningStep(s, s.attempts[a].step)
\* An attempt's or a gate's step is known.
OwnersKnown(s) ==
  /\ \A a \in DOMAIN s.attempts : s.attempts[a].step \in DOMAIN s.steps
  /\ \A g \in DOMAIN s.gates : s.gates[g].step \in DOMAIN s.steps
\* Nothing is running or waiting in a run that ended.
EndedIsSettled(s) == s.status = "ended" => Settled(s)
\* A recovery gate stands for an attempt that was interrupted, in its own step.
RecoveryGatesTrue(s) ==
  \A a \in Attempts : InterruptedGate(a) \in DOMAIN s.gates =>
    /\ a \in DOMAIN s.attempts
    /\ s.attempts[a].status = "interrupted"
    /\ s.gates[InterruptedGate(a)].step = s.attempts[a].step

RunInv(s) ==
  /\ AttemptsInRunningSteps(s)
  /\ OwnersKnown(s)
  /\ EndedIsSettled(s)
  /\ RecoveryGatesTrue(s)
  /\ s.status = "none" => s = NullRun
=============================================================================
