--------------------------- MODULE AgentStepProofs ---------------------------
(***************************************************************************)
(* Proofs about module AgentStep, for any steps, permits and bounds on the *)
(* environment: the limiter counts its permits, no task runs beside a      *)
(* writer, the first terminal decides an attempt, no runner starts after   *)
(* the abort, and what a step returns is what its rows in the log say.     *)
(***************************************************************************)
EXTENDS AgentStep, RunStateProofs

(***************************************************************************)
(* The rows of one step, and what they leave alone: everything in the log  *)
(* that belongs to another step.                                           *)
(***************************************************************************)
OfStep(e, st) ==
  \/ e.type \in {"step.started", "step.finished"} /\ e.step = st
  \/ e.type = "attempt.started" /\ e.step = st /\ e.attempt[1] = st
  \/ e.type \in {"attempt.event", "attempt.finished"} /\ e.attempt[1] = st
  \/ e.type = "gate.raised" /\ e.step = st /\ e.gate = EscalationGate(st)
  \/ e.type = "artifact.recorded"

SameIn(s, t, x) ==
  /\ x \in DOMAIN t.steps <=> x \in DOMAIN s.steps
  /\ x \in DOMAIN s.steps => t.steps[x] = s.steps[x]
  /\ \A a : a[1] = x =>
       /\ a \in DOMAIN t.attempts <=> a \in DOMAIN s.attempts
       /\ a \in DOMAIN s.attempts => t.attempts[a] = s.attempts[a]
  /\ \A g \in DOMAIN t.gates : t.gates[g].step = x => g \in DOMAIN s.gates
  /\ \A g \in DOMAIN s.gates : s.gates[g].step = x =>
       g \in DOMAIN t.gates /\ t.gates[g] = s.gates[g]
  /\ \A g \in DOMAIN s.gates : g \in DOMAIN t.gates /\ t.gates[g].step = s.gates[g].step

\* What the log of this module's steps keeps true: a step's attempts carry its id.
SoundLog(s) ==
  /\ IsRunState(s) /\ RunInv(s) /\ s.status = "active"
  /\ \A a \in DOMAIN s.attempts : s.attempts[a].step = a[1]
\* Unless the run is opened again, its only gates are the escalations of its steps.
OnlyEscalations(s) == \A g \in DOMAIN s.gates : g = EscalationGate(s.gates[g].step)

LEMMA SameInTransitive ==
  ASSUME NEW s, NEW t, NEW u, NEW x, SameIn(s, t, x), SameIn(t, u, x)
  PROVE  SameIn(s, u, x)
<1>1. \A g \in DOMAIN u.gates : u.gates[g].step = x => g \in DOMAIN s.gates
  <2>1. SUFFICES ASSUME NEW g \in DOMAIN u.gates, u.gates[g].step = x
                 PROVE  g \in DOMAIN s.gates
    OBVIOUS
  <2>2. g \in DOMAIN t.gates /\ t.gates[g].step = u.gates[g].step
    BY <2>1 DEF SameIn
  <2> QED BY <2>1, <2>2 DEF SameIn
<1>2. /\ x \in DOMAIN u.steps <=> x \in DOMAIN s.steps
      /\ x \in DOMAIN s.steps => u.steps[x] = s.steps[x]
  BY DEF SameIn
<1>3. \A a : a[1] = x =>
        /\ a \in DOMAIN u.attempts <=> a \in DOMAIN s.attempts
        /\ a \in DOMAIN s.attempts => u.attempts[a] = s.attempts[a]
  BY DEF SameIn
<1>4. /\ \A g \in DOMAIN s.gates : s.gates[g].step = x =>
           g \in DOMAIN u.gates /\ u.gates[g] = s.gates[g]
      /\ \A g \in DOMAIN s.gates : g \in DOMAIN u.gates /\ u.gates[g].step = s.gates[g].step
  BY DEF SameIn
<1> QED BY <1>1, <1>2, <1>3, <1>4 DEF SameIn

\* The new maps, by the type of the row.
LEMMA StepRow ==
  ASSUME NEW s, NEW st, NEW e, OfStep(e, st), Legal(s, e), NEW t, t = Reduce(s, e)
  PROVE  /\ t.status = "active"
         /\ e.type \notin {"step.started", "step.finished"} => t.steps = s.steps
         /\ e.type \in {"step.started", "step.finished"} =>
              /\ e.step = st
              /\ DOMAIN t.steps = DOMAIN s.steps \cup {e.step}
              /\ \A x \in DOMAIN s.steps : x # e.step => t.steps[x] = s.steps[x]
         /\ e.type = "step.started" => t.steps[e.step].status = "running"
         /\ e.type = "step.finished" => t.steps[e.step].status = e.outcome
<1>1. t.status = "active"
  BY DEF Reduce, OfStep, Legal
<1>2. t.steps = StepsAfter(s, e)
  BY DEF Reduce
<1>3. CASE e.type = "step.started"
  <2> DEFINE r == [status |-> "running"]
  <2>1. t.steps = Put(s.steps, e.step, r) /\ e.step = st
    BY <1>2, <1>3 DEF StepsAfter, OfStep
  <2>2. r.status = "running"
    OBVIOUS
  <2> HIDE DEF r
  <2>3. /\ DOMAIN t.steps = DOMAIN s.steps \cup {e.step} /\ t.steps[e.step] = r
        /\ \A x \in DOMAIN s.steps : x # e.step => t.steps[x] = s.steps[x]
    BY <2>1 DEF Put
  <2> QED BY <1>1, <1>3, <2>1, <2>2, <2>3
<1>4. CASE e.type = "step.finished"
  <2> DEFINE r == [status |-> e.outcome]
  <2>1. t.steps = Put(s.steps, e.step, r) /\ e.step = st
    BY <1>2, <1>4 DEF StepsAfter, OfStep
  <2>2. r.status = e.outcome
    OBVIOUS
  <2> HIDE DEF r
  <2>3. /\ DOMAIN t.steps = DOMAIN s.steps \cup {e.step} /\ t.steps[e.step] = r
        /\ \A x \in DOMAIN s.steps : x # e.step => t.steps[x] = s.steps[x]
    BY <2>1 DEF Put
  <2> QED BY <1>1, <1>4, <2>1, <2>2, <2>3
<1> QED BY <1>1, <1>2, <1>3, <1>4 DEF StepsAfter

LEMMA AttemptRow ==
  ASSUME NEW s, NEW st, NEW e, OfStep(e, st), Legal(s, e), NEW t, t = Reduce(s, e)
  PROVE  /\ e.type \notin {"attempt.started", "attempt.finished"} => t.attempts = s.attempts
         /\ e.type \in {"attempt.started", "attempt.finished"} =>
              /\ DOMAIN t.attempts = DOMAIN s.attempts \cup {e.attempt}
              /\ \A a \in DOMAIN s.attempts : a # e.attempt => t.attempts[a] = s.attempts[a]
              /\ e.attempt[1] = st
         /\ e.type = "attempt.started" =>
              t.attempts[e.attempt].step = st /\ t.attempts[e.attempt].status = "running"
         /\ e.type = "attempt.finished" =>
              /\ t.attempts[e.attempt].step = s.attempts[e.attempt].step
              /\ t.attempts[e.attempt].status = e.outcome
              /\ e.attempt \in DOMAIN s.attempts
<1>1. t.attempts = AttemptsAfter(s, e)
  BY DEF Reduce
<1>2. CASE e.type = "attempt.started"
  <2> DEFINE r == [step |-> e.step, status |-> "running"]
  <2>1. t.attempts = Put(s.attempts, e.attempt, r) /\ e.step = st /\ e.attempt[1] = st
    BY <1>1, <1>2 DEF AttemptsAfter, OfStep
  <2>2. r.status = "running" /\ r.step = e.step
    OBVIOUS
  <2> HIDE DEF r
  <2>3. /\ DOMAIN t.attempts = DOMAIN s.attempts \cup {e.attempt}
        /\ t.attempts[e.attempt] = r
        /\ \A a \in DOMAIN s.attempts : a # e.attempt => t.attempts[a] = s.attempts[a]
    BY <2>1 DEF Put
  <2> QED BY <1>2, <2>1, <2>2, <2>3
<1>3. CASE e.type = "attempt.finished"
  <2> DEFINE r == [step |-> s.attempts[e.attempt].step, status |-> e.outcome]
  <2>1. t.attempts = Put(s.attempts, e.attempt, r) /\ e.attempt[1] = st
    BY <1>1, <1>3 DEF AttemptsAfter, OfStep
  <2>2. r.status = e.outcome /\ r.step = s.attempts[e.attempt].step
    OBVIOUS
  <2>3. e.attempt \in DOMAIN s.attempts
    BY <1>3 DEF Legal, RunningAttempt
  <2> HIDE DEF r
  <2>4. /\ DOMAIN t.attempts = DOMAIN s.attempts \cup {e.attempt}
        /\ t.attempts[e.attempt] = r
        /\ \A a \in DOMAIN s.attempts : a # e.attempt => t.attempts[a] = s.attempts[a]
    BY <2>1 DEF Put
  <2> QED BY <1>3, <2>1, <2>2, <2>3, <2>4
<1> QED BY <1>1, <1>2, <1>3 DEF AttemptsAfter

LEMMA GateRow ==
  ASSUME NEW s, NEW st, NEW e, OfStep(e, st), Legal(s, e), NEW t, t = Reduce(s, e)
  PROVE  /\ e.type # "gate.raised" => t.gates = s.gates
         /\ e.type = "gate.raised" =>
              /\ e.gate = EscalationGate(st) /\ e.step = st
              /\ e.gate \notin DOMAIN s.gates
              /\ DOMAIN t.gates = DOMAIN s.gates \cup {e.gate}
              /\ \A g \in DOMAIN s.gates : t.gates[g] = s.gates[g]
              /\ t.gates[e.gate].step = e.step
              /\ t.gates[e.gate].status = "open"
<1>1. t.gates = GatesAfter(s, e) /\ e.type # "gate.resolved"
  BY DEF Reduce, OfStep
<1>2. CASE e.type = "gate.raised"
  <2> DEFINE r == [step |-> e.step, kind |-> e.kind, allowed |-> e.allowed, status |-> "open"]
  <2>1. t.gates = Put(s.gates, e.gate, r) /\ e.step = st /\ e.gate \notin DOMAIN s.gates
    BY <1>1, <1>2 DEF GatesAfter, OfStep, Legal
  <2>2. r.step = e.step /\ r.status = "open"
    OBVIOUS
  <2> HIDE DEF r
  <2>3. /\ DOMAIN t.gates = DOMAIN s.gates \cup {e.gate} /\ t.gates[e.gate] = r
        /\ \A x \in DOMAIN s.gates : t.gates[x] = s.gates[x]
    BY <2>1 DEF Put
  <2> QED BY <1>2, <2>1, <2>2, <2>3 DEF OfStep
<1> QED BY <1>1, <1>2 DEF GatesAfter

LEMMA RowElsewhere ==
  ASSUME NEW s, NEW st, NEW e, OfStep(e, st), Legal(s, e), NEW x, x # st
  PROVE  SameIn(s, Reduce(s, e), x)
<1> DEFINE t == Reduce(s, e)
<1>0. t = Reduce(s, e)
  OBVIOUS
<1> HIDE DEF t
<1>1. /\ x \in DOMAIN t.steps <=> x \in DOMAIN s.steps
      /\ x \in DOMAIN s.steps => t.steps[x] = s.steps[x]
  BY <1>0, StepRow
<1>2. ASSUME NEW a, a[1] = x
      PROVE  /\ a \in DOMAIN t.attempts <=> a \in DOMAIN s.attempts
             /\ a \in DOMAIN s.attempts => t.attempts[a] = s.attempts[a]
  BY <1>0, <1>2, AttemptRow
<1>3. /\ \A g \in DOMAIN t.gates : t.gates[g].step = x => g \in DOMAIN s.gates
      /\ \A g \in DOMAIN s.gates : g \in DOMAIN t.gates /\ t.gates[g] = s.gates[g]
  BY <1>0, GateRow
<1> QED BY <1>0, <1>1, <1>2, <1>3 DEF SameIn

LEMMA RowSound ==
  ASSUME NEW s, SoundLog(s), NEW st, NEW e \in EventBodies, OfStep(e, st), Legal(s, e)
  PROVE  /\ SoundLog(Reduce(s, e))
         /\ OnlyEscalations(s) => OnlyEscalations(Reduce(s, e))
<1> DEFINE t == Reduce(s, e)
<1>0. t = Reduce(s, e)
  OBVIOUS
<1>1. IsRunState(t) /\ RunInv(t)
  BY ReduceTyped, ReduceSound DEF SoundLog
<1> HIDE DEF t
<1>2. t.status = "active"
  BY <1>0, StepRow
<1>3. \A a \in DOMAIN t.attempts : t.attempts[a].step = a[1]
  BY <1>0, AttemptRow DEF SoundLog
<1>4. ASSUME OnlyEscalations(s)
      PROVE  OnlyEscalations(t)
  BY <1>0, <1>4, GateRow DEF OnlyEscalations
<1> QED BY <1>0, <1>1, <1>2, <1>3, <1>4 DEF SoundLog

\* A batch of one step's rows.
IsBatchOf(b, st) ==
  b \in Seq(EventBodies) /\ \A i \in 1..Len(b) : OfStep(b[i], st)

LEMMA BatchElsewhere ==
  ASSUME NEW s, SoundLog(s), NEW st, NEW b, IsBatchOf(b, st), LegalBatch(s, b)
  PROVE  /\ SoundLog(ReduceBatch(s, b))
         /\ OnlyEscalations(s) => OnlyEscalations(ReduceBatch(s, b))
         /\ \A x : x # st => SameIn(s, ReduceBatch(s, b), x)
<1> DEFINE f == Folded(s, b)
           S == {i \in 0..Len(b) : /\ SoundLog(f[i])
                                   /\ OnlyEscalations(s) => OnlyEscalations(f[i])
                                   /\ \A x : x # st => SameIn(s, f[i], x)}
<1>0. /\ b \in Seq(EventBodies) /\ Len(b) \in Nat
      /\ \A i \in 1..Len(b) : OfStep(b[i], st)
  BY DEF IsBatchOf
<1>1. /\ f[0] = s
      /\ \A i \in 1..Len(b) : /\ f[i] = Reduce(f[i - 1], b[i])
                              /\ Legal(f[i - 1], b[i])
                              /\ b[i] \in EventBodies
  BY <1>0, FoldedIs, LegalBatchIs, ElementOfSeq
<1> HIDE DEF f
<1>2. 0 \in S
  <2>1. \A x : SameIn(s, s, x)
    BY DEF SameIn
  <2> QED BY <2>1, <1>0, <1>1
<1>3. ASSUME NEW i \in 0..Len(b), i < Len(b), i \in S
      PROVE  i + 1 \in S
  <2>1. i + 1 \in 1..Len(b) /\ (i + 1) - 1 = i /\ i + 1 \in 0..Len(b)
    BY <1>0, <1>3
  <2>2. /\ f[i + 1] = Reduce(f[i], b[i + 1]) /\ Legal(f[i], b[i + 1])
        /\ b[i + 1] \in EventBodies /\ OfStep(b[i + 1], st)
    BY <2>1, <1>0, <1>1
  <2>3. /\ SoundLog(f[i])
        /\ OnlyEscalations(s) => OnlyEscalations(f[i])
        /\ \A x : x # st => SameIn(s, f[i], x)
    BY <1>3
  <2>4. SoundLog(f[i + 1]) /\ (OnlyEscalations(s) => OnlyEscalations(f[i + 1]))
    BY <2>2, <2>3, RowSound
  <2>5. ASSUME NEW x, x # st
        PROVE  SameIn(s, f[i + 1], x)
    BY <2>2, <2>3, <2>5, RowElsewhere, SameInTransitive
  <2> QED BY <2>1, <2>4, <2>5
<1> HIDE DEF S
<1>4. \A i \in 0..Len(b) : i \in S
  BY <1>0, <1>2, <1>3, UpTo
<1>5. Len(b) \in 0..Len(b)
  BY <1>0
<1> QED BY <1>4, <1>5 DEF S, f, ReduceBatch

-----------------------------------------------------------------------------
(* What a step asks the log to write.                                      *)

LEMMA ShortBatches ==
  ASSUME NEW st
  PROVE  /\ IsBatchOf(<<>>, st)
         /\ \A e \in EventBodies : OfStep(e, st) => IsBatchOf(<<e>>, st)
         /\ \A e, d \in EventBodies :
              OfStep(e, st) /\ OfStep(d, st) => IsBatchOf(<<e, d>>, st)
<1>1. IsBatchOf(<<>>, st)
  BY DEF IsBatchOf
<1>2. ASSUME NEW e \in EventBodies, OfStep(e, st)
      PROVE  IsBatchOf(<<e>>, st)
  <2> DEFINE b == <<e>>
  <2>1. b \in Seq(EventBodies) /\ Len(b) = 1 /\ b[1] = e
    OBVIOUS
  <2> HIDE DEF b
  <2>2. \A i \in 1..Len(b) : i = 1
    BY <2>1
  <2>3. IsBatchOf(b, st)
    BY <2>1, <2>2, <1>2 DEF IsBatchOf
  <2> QED BY <2>3 DEF b
<1>3. ASSUME NEW e \in EventBodies, NEW d \in EventBodies, OfStep(e, st), OfStep(d, st)
      PROVE  IsBatchOf(<<e, d>>, st)
  <2> DEFINE b == <<e, d>>
  <2>1. b \in Seq(EventBodies) /\ Len(b) = 2 /\ b[1] = e /\ b[2] = d
    OBVIOUS
  <2> HIDE DEF b
  <2>2. \A i \in 1..Len(b) : i = 1 \/ i = 2
    BY <2>1
  <2>3. IsBatchOf(b, st)
    BY <2>1, <2>2, <1>3 DEF IsBatchOf
  <2> QED BY <2>3 DEF b
<1> QED BY <1>1, <1>2, <1>3

LEMMA IdTyped ==
  ASSUME TypeOK, NEW st \in Steps
  PROVE  Id(st) \in Attempts /\ Id(st)[1] = st /\ Id(st)[2] = att[st] /\ att[st] \in {1, 2}
BY AgentStepAssumption DEF TypeOK, Id

LEMMA BodiesTyped ==
  ASSUME TypeOK, NEW st \in Steps
  PROVE  /\ StepStarted(st) \in EventBodies /\ OfStep(StepStarted(st), st)
         /\ \A o \in StepOutcomes :
              StepFinished(st, o) \in EventBodies /\ OfStep(StepFinished(st, o), st)
         /\ AttemptStarted(Id(st), st) \in EventBodies
         /\ OfStep(AttemptStarted(Id(st), st), st)
         /\ AttemptEvent(Id(st)) \in EventBodies /\ OfStep(AttemptEvent(Id(st)), st)
         /\ \A o \in AttemptOutcomes :
              AttemptFinished(Id(st), o) \in EventBodies /\ OfStep(AttemptFinished(Id(st), o), st)
         /\ \A x \in Artifacts :
              ArtifactRecorded(x, Id(st)) \in EventBodies /\ OfStep(ArtifactRecorded(x, Id(st)), st)
         /\ LET e == GateRaised(EscalationGate(st), st, "escalation", RecoveryCommands)
            IN  e \in EventBodies /\ OfStep(e, st)
<1>1. Id(st) \in Attempts /\ Id(st)[1] = st
  BY IdTyped
<1>2. StepStarted(st) \in EventBodies /\ OfStep(StepStarted(st), st)
  BY DEF StepStarted, EventBodies, OfStep
<1>3. ASSUME NEW o \in StepOutcomes
      PROVE  StepFinished(st, o) \in EventBodies /\ OfStep(StepFinished(st, o), st)
  BY DEF StepFinished, EventBodies, OfStep
<1>4. /\ AttemptStarted(Id(st), st) \in EventBodies
      /\ OfStep(AttemptStarted(Id(st), st), st)
  BY <1>1 DEF AttemptStarted, EventBodies, OfStep
<1>5. AttemptEvent(Id(st)) \in EventBodies /\ OfStep(AttemptEvent(Id(st)), st)
  BY <1>1 DEF AttemptEvent, EventBodies, OfStep
<1>6. ASSUME NEW o \in AttemptOutcomes
      PROVE  AttemptFinished(Id(st), o) \in EventBodies /\ OfStep(AttemptFinished(Id(st), o), st)
  BY <1>1 DEF AttemptFinished, EventBodies, OfStep
<1>7. ASSUME NEW x \in Artifacts
      PROVE  ArtifactRecorded(x, Id(st)) \in EventBodies /\ OfStep(ArtifactRecorded(x, Id(st)), st)
  BY <1>1 DEF ArtifactRecorded, EventBodies, OfStep
<1>8. LET e == GateRaised(EscalationGate(st), st, "escalation", RecoveryCommands)
      IN  e \in EventBodies /\ OfStep(e, st)
  <2> DEFINE g == EscalationGate(st)
             e == GateRaised(g, st, "escalation", RecoveryCommands)
  <2>1. g \in GateIds
    BY DEF EscalationGate, GateIds
  <2>2. RecoveryCommands \in SUBSET Commands /\ "escalation" \in GateKinds
    BY DEF RecoveryCommands, Commands, GateKinds
  <2>3. e.type = "gate.raised" /\ e.step = st /\ e.gate = g
    BY DEF GateRaised
  <2>4. OfStep(e, st)
    BY <2>3 DEF OfStep
  <2> HIDE DEF g
  <2>5. e \in [type: {"gate.raised"}, gate: GateIds, step: Steps, kind: GateKinds,
               allowed: SUBSET Commands]
    BY <2>1, <2>2 DEF GateRaised
  <2>6. e \in EventBodies
    BY <2>5 DEF EventBodies
  <2> QED BY <2>4, <2>6 DEF g
<1> QED BY <1>2, <1>3, <1>4, <1>5, <1>6, <1>7, <1>8

\* The rows a step asks for are its own, wherever it is.
LEMMA BatchTypedOf ==
  ASSUME TypeOK, NEW st \in Steps
  PROVE  IsBatchOf(Batch(st), st)
<1>1. CASE pc[st] = "start"
  BY <1>1, BodiesTyped, ShortBatches DEF Batch
<1>2. CASE pc[st] = "begin"
  BY <1>2, BodiesTyped, ShortBatches DEF Batch
<1>3. CASE pc[st] \in {"flush", "last"}
  <2> DEFINE e == AttemptEvent(Id(st))
             b == [i \in 1..pend[st] |-> e]
  <2>1. Batch(st) = b
    BY <1>3 DEF Batch
  <2>2. e \in EventBodies /\ OfStep(e, st)
    BY BodiesTyped
  <2>3. pend[st] \in Nat
    BY AgentStepAssumption DEF TypeOK
  <2> HIDE DEF e
  <2>4. b \in Seq(EventBodies) /\ \A i \in 1..Len(b) : b[i] = e
    BY <2>2, <2>3
  <2> QED BY <2>1, <2>2, <2>4 DEF IsBatchOf
<1>4. CASE pc[st] \in {"capture", "output", "repair"}
  <2>1. "raw" \in Artifacts /\ "text" \in Artifacts
    BY AgentStepAssumption
  <2> QED BY <1>4, <2>1, BodiesTyped, ShortBatches DEF Batch
<1>5. CASE pc[st] \in {"finish", "failing"}
  <2>1. term[st] \in Terminals
    BY DEF TypeOK
  <2>2. "failed" \in AttemptOutcomes /\ AttemptOutcome(term[st]) \in AttemptOutcomes
    BY <2>1 DEF AttemptOutcome, AttemptOutcomes, Terminals
  <2> QED BY <1>5, <2>2, BodiesTyped, ShortBatches DEF Batch
<1>6. CASE pc[st] = "close"
  <2> DEFINE g == GateRaised(EscalationGate(st), st, "escalation", RecoveryCommands)
             last == StepFinished(st, IF term[st] = "invalid" THEN "escalated" ELSE "failed")
  <2>1. /\ "succeeded" \in StepOutcomes /\ "failed" \in StepOutcomes
        /\ (IF term[st] = "invalid" THEN "escalated" ELSE "failed") \in StepOutcomes
    BY DEF StepOutcomes
  <2>2. Batch(st) = Closing(st)
    BY <1>6 DEF Batch
  <2>3. \/ Closing(st) = <<StepFinished(st, "succeeded")>>
        \/ Closing(st) = <<StepFinished(st, "failed")>>
        \/ Closing(st) = <<g, last>>
    BY DEF Closing
  <2>4. g \in EventBodies /\ OfStep(g, st) /\ last \in EventBodies /\ OfStep(last, st)
    BY <2>1, BodiesTyped
  <2>5. IsBatchOf(<<g, last>>, st)
    BY <2>4, ShortBatches
  <2>6. /\ IsBatchOf(<<StepFinished(st, "succeeded")>>, st)
        /\ IsBatchOf(<<StepFinished(st, "failed")>>, st)
    BY <2>1, BodiesTyped, ShortBatches
  <2> QED BY <2>2, <2>3, <2>5, <2>6
<1>7. CASE pc[st] = "catch"
  <2>1. "failed" \in StepOutcomes
    BY DEF StepOutcomes
  <2> QED BY <1>7, <2>1, BodiesTyped, ShortBatches DEF Batch
<1>8. CASE pc[st] \notin {"start", "begin", "flush", "last", "capture", "output", "repair",
                          "finish", "failing", "close", "catch"}
  <2>1. Batch(st) = <<>>
    BY <1>8 DEF Batch
  <2> QED BY <2>1, ShortBatches
<1> QED BY <1>1, <1>2, <1>3, <1>4, <1>5, <1>6, <1>7, <1>8

\* The state without what nothing here reads.
LEMMA Forgotten ==
  ASSUME NEW t, SoundLog(t), NEW u, u = [t EXCEPT !.lastSeq = 0, !.artifacts = {}]
  PROVE  /\ u.status = t.status /\ u.steps = t.steps /\ u.attempts = t.attempts
         /\ u.gates = t.gates /\ u.lastSeq = 0
         /\ SoundLog(u)
         /\ OnlyEscalations(t) => OnlyEscalations(u)
         /\ \A s, x : SameIn(s, t, x) => SameIn(s, u, x)
<1>1. IsRunState(t) /\ RunInv(t) /\ t.status = "active"
      /\ \A a \in DOMAIN t.attempts : t.attempts[a].step = a[1]
  BY DEF SoundLog
<1>2. /\ u.status = t.status /\ u.steps = t.steps /\ u.attempts = t.attempts
      /\ u.gates = t.gates /\ u.lastSeq = 0 /\ u.artifacts = {}
      /\ u = [status |-> u.status, lastSeq |-> u.lastSeq, steps |-> u.steps,
              attempts |-> u.attempts, gates |-> u.gates, artifacts |-> u.artifacts]
  BY <1>1 DEF IsRunState
<1>3. IsRunState(u)
  BY <1>1, <1>2 DEF IsRunState
<1>4. RunInv(u)
  BY <1>1, <1>2 DEF RunInv, AttemptsInRunningSteps, OwnersKnown, EndedIsSettled,
                    RecoveryGatesTrue, RunningAttempts, RunningStep
<1>5. SoundLog(u)
  BY <1>1, <1>2, <1>3, <1>4 DEF SoundLog
<1>6. OnlyEscalations(t) => OnlyEscalations(u)
  BY <1>2 DEF OnlyEscalations
<1>7. ASSUME NEW s, NEW x, SameIn(s, t, x)
      PROVE  SameIn(s, u, x)
  BY <1>2, <1>7 DEF SameIn
<1> QED BY <1>2, <1>5, <1>6, <1>7

\* A write that resolves keeps the log sound, and everything of the steps beside this one.
LEMMA WrittenKeeps ==
  ASSUME TypeOK, SoundLog(state), NEW st \in Steps, Written(st)
  PROVE  /\ SoundLog(state)'
         /\ OnlyEscalations(state) => OnlyEscalations(state)'
         /\ \A x : x # st => SameIn(state, state', x)
<1>1. IsBatchOf(Batch(st), st)
  BY BatchTypedOf
<1> DEFINE b == Batch(st)
           t == ReduceBatch(state, b)
           u == state'
<1>2. u = [t EXCEPT !.lastSeq = 0, !.artifacts = {}] /\ LegalBatch(state, b)
  BY DEF Written, Rows
<1>3. /\ SoundLog(t)
      /\ OnlyEscalations(state) => OnlyEscalations(t)
      /\ \A x : x # st => SameIn(state, t, x)
  BY <1>1, <1>2, BatchElsewhere
<1> HIDE DEF t, u
<1>4. /\ SoundLog(u)
      /\ OnlyEscalations(t) => OnlyEscalations(u)
      /\ \A x : SameIn(state, t, x) => SameIn(state, u, x)
  BY <1>2, <1>3, Forgotten
<1>5. /\ SoundLog(u)
      /\ OnlyEscalations(state) => OnlyEscalations(u)
      /\ \A x : x # st => SameIn(state, u, x)
  BY <1>3, <1>4
<1> QED BY <1>5 DEF u

(***************************************************************************)
(* The control of the steps, apart from the log.                           *)
(***************************************************************************)
Unstarted == {"idle", "start"}
Undecided == {"idle", "start", "acquire", "queued", "granted"}
Fresh == Undecided \cup {"begin"}
Underway == {"run", "stream", "flush", "cleanup", "last", "capture", "finish", "failing"}
Unwinding == {"cleanup", "last", "capture", "failing", "catch", "threw"}

Ordered(st) ==
  /\ pc[st] \in Undecided => term[st] = "none"
  /\ pc[st] \in Unstarted \cup {"repair"} => att[st] = 1
  /\ pc[st] \in {"output", "repair"} => term[st] = "invalid"
  /\ pc[st] = "close" /\ term[st] = "invalid" => att[st] = 2
  /\ pc[st] \notin Unwinding => err[st] = "none"
  /\ pc[st] = "failing" => err[st] # "none"
  /\ pc[st] \notin {"stream", "flush", "cleanup", "last"} => pend[st] = 0
  /\ pc[st] = "stream" => pend[st] < BatchSize
  /\ term[st] = "aborted" => aborted
  /\ aborted /\ pc[st] \in Watched => term[st] # "none"

\* The runner of a write attempt is alive only while its step streams or cleans up.
Writer(st) ==
  st \in WriteSteps /\ <<st, 1>> \in alive =>
    att[st] = 1 /\ pc[st] \in {"stream", "flush", "cleanup"}

Holders == {st \in Steps : pc[st] \in Holding}
Permits ==
  /\ IsFiniteSet(Holders) /\ active = Cardinality(Holders)
  /\ waiting # <<>> => active = MaxPermits
  /\ \A i \in 1..Len(waiting) : pc[waiting[i]] = "queued"
  /\ \A st \in Steps : pc[st] = "queued" => \E i \in 1..Len(waiting) : waiting[i] = st
  /\ \A i, j \in 1..Len(waiting) : waiting[i] = waiting[j] => i = j

Control ==
  /\ TypeOK /\ SoundLog(state) /\ Permits
  /\ ~stale => OnlyEscalations(state)
  /\ \A st \in Steps : Ordered(st) /\ Writer(st)

\* What a handler of one step leaves of the others: at most, it passes its permit on.
Beside(st) ==
  /\ UNCHANGED <<stale, aborted>>
  /\ Written(st) \/ Refused(st) \/ UNCHANGED <<state, faults>>
  /\ \A x \in Steps \ {st} :
       /\ pc'[x] = pc[x] \/ (pc[x] = "queued" /\ pc'[x] = "granted")
       /\ att'[x] = att[x] /\ term'[x] = term[x] /\ err'[x] = err[x] /\ pend'[x] = pend[x]
       /\ sent'[x] = sent[x]
  /\ \A a \in Attempts : a[1] # st => (a \in alive' <=> a \in alive)

\* The handlers of a step: all but a runner that exits.
Handler(st) ==
  \/ Call(st) \/ Start(st) \/ Acquire(st) \/ Admit(st) \/ Begin(st) \/ Run(st)
  \/ Receive(st) \/ Flush(st) \/ EndStream(st) \/ Cleanup(st) \/ LastFlush(st)
  \/ Capture(st) \/ Finish(st) \/ Failing(st) \/ Output(st) \/ Repair(st)
  \/ Close(st) \/ Catch(st) \/ Deadline(st)

LEMMA HeadQueued ==
  ASSUME TypeOK, Permits, waiting # <<>>
  PROVE  /\ Head(waiting) = waiting[1] /\ 1 \in 1..Len(waiting)
         /\ Head(waiting) \in Steps /\ pc[Head(waiting)] = "queued"
<1>1. waiting \in Seq(Steps) /\ Len(waiting) \in Nat /\ Len(waiting) # 0
  BY EmptySeq DEF TypeOK
<1>2. 1 \in 1..Len(waiting) /\ Head(waiting) = waiting[1]
  BY <1>1
<1> QED BY <1>1, <1>2, ElementOfSeq DEF Permits

LEMMA GotoMoves ==
  ASSUME TypeOK, NEW st \in Steps, NEW next \in PCs, Goto(st, next)
  PROVE  /\ pc' \in [Steps -> PCs] /\ pc'[st] = next
         /\ \A x \in Steps \ {st} : pc'[x] = pc[x]
BY DEF TypeOK, Goto

\* One handler's step in the pc: its own place, and the head of the queue's.
LEMMA ReleaseMoves ==
  ASSUME TypeOK, Permits, NEW st \in Steps, NEW next \in PCs, ReleaseTo(st, next),
         pc[st] # "queued"
  PROVE  /\ pc' \in [Steps -> PCs] /\ pc'[st] = next
         /\ \A x \in Steps \ {st} :
              pc'[x] = pc[x] \/ (pc[x] = "queued" /\ pc'[x] = "granted")
<1>0. pc \in [Steps -> PCs]
  BY DEF TypeOK
<1>1. CASE waiting = <<>>
  <2>1. Goto(st, next)
    BY <1>1 DEF ReleaseTo
  <2> QED BY <2>1, GotoMoves
<1>2. CASE waiting # <<>>
  <2> DEFINE h == Head(waiting)
  <2>1. h \in Steps /\ pc[h] = "queued" /\ h # st /\ "granted" \in PCs
    BY <1>2, HeadQueued DEF PCs
  <2>2. pc' = [pc EXCEPT ![st] = next, ![h] = "granted"]
    BY <1>2 DEF ReleaseTo
  <2> HIDE DEF h
  <2> QED BY <1>0, <2>1, <2>2
<1> QED BY <1>1, <1>2

Locals ==
  /\ pc \in [Steps -> PCs] /\ att \in [Steps -> {1, 2}] /\ term \in [Steps -> Terminals]
  /\ err \in [Steps -> {"none", "runner", "write"}] /\ pend \in [Steps -> 0..BatchSize]
  /\ \A st \in Steps : sent[st] \in 0..MaxEvents[st]
  /\ DOMAIN sent = Steps /\ alive \subseteq Attempts

LEMMA HandlerSteps ==
  ASSUME Control, NEW st \in Steps, Handler(st)
  PROVE  Locals' /\ Beside(st) /\ Ordered(st)' /\ Writer(st)'
<1>0. /\ TypeOK /\ Permits /\ Ordered(st) /\ Writer(st) /\ Locals
  BY DEF Control, TypeOK, Locals
<1>1. CASE Call(st)
  <2>1. /\ pc' \in [Steps -> PCs] /\ pc'[st] = "start"
        /\ \A x \in Steps \ {st} : pc'[x] = pc[x]
    BY <1>0, <1>1, GotoMoves DEF Call, PCs
  <2>2. Locals' /\ Beside(st)
    BY <1>0, <1>1, <2>1 DEF Locals, Call, Beside, watch, limiter
  <2>3. Ordered(st)'
    BY <1>0, <1>1, <2>1 DEF Ordered, Call, watch, Undecided, Unstarted, Unwinding, Watched
  <2>4. Writer(st)'
    BY <1>0, <1>1, <2>1 DEF Writer, Call
  <2> QED BY <2>2, <2>3, <2>4
<1>2. CASE Start(st)
  <2>1. /\ pc' \in [Steps -> PCs] /\ pc'[st] \in {"acquire", "threw"}
        /\ \A x \in Steps \ {st} : pc'[x] = pc[x]
    BY <1>0, <1>2, GotoMoves DEF Start, PCs
  <2>2. Locals' /\ Beside(st)
    BY <1>0, <1>2, <2>1 DEF Locals, Start, Beside, watch, limiter
  <2>3. Ordered(st)'
    BY <1>0, <1>2, <2>1 DEF Ordered, Start, watch, Undecided, Unstarted, Unwinding, Watched
  <2>4. Writer(st)'
    BY <1>0, <1>2, <2>1 DEF Writer, Start
  <2> QED BY <2>2, <2>3, <2>4
<1>3. CASE Receive(st)
  <2>1. PICK kind \in {"text", "valid", "invalid", "error"} :
          /\ kind = "text" => sent[st] < MaxEvents[st]
          /\ sent' = IF kind = "text" THEN [sent EXCEPT ![st] = @ + 1] ELSE sent
          /\ term' = IF kind # "text" /\ term[st] = "none"
                       THEN [term EXCEPT ![st] = kind] ELSE term
    BY <1>3 DEF Receive
  <2>2. /\ pc[st] = "stream" /\ pend' = [pend EXCEPT ![st] = @ + 1]
        /\ UNCHANGED <<state, stale, aborted, att, err, faults, alive>>
        /\ Goto(st, IF term'[st] # "none" \/ pend'[st] >= BatchSize THEN "flush" ELSE "stream")
    BY <1>3 DEF Receive
  <2>3. /\ pc' \in [Steps -> PCs]
        /\ pc'[st] = IF term'[st] # "none" \/ pend'[st] >= BatchSize THEN "flush" ELSE "stream"
        /\ \A x \in Steps \ {st} : pc'[x] = pc[x]
    BY <1>0, <2>2, GotoMoves DEF PCs
  <2>4. \A m \in Nat, n \in Nat : m < n => m + 1 \in 0..n
    OBVIOUS
  <2>5. pend[st] \in Nat /\ BatchSize \in Nat /\ pend[st] < BatchSize
    BY <1>0, <2>2, AgentStepAssumption DEF Locals, Ordered
  <2>6. pend' \in [Steps -> 0..BatchSize] /\ pend'[st] = pend[st] + 1
    <3>1. pend[st] + 1 \in 0..BatchSize
      BY <2>4, <2>5
    <3> QED BY <1>0, <2>2, <3>1 DEF Locals
  <2>7. DOMAIN sent' = Steps /\ (\A x \in Steps : sent'[x] \in 0..MaxEvents[x])
        /\ \A x \in Steps \ {st} : sent'[x] = sent[x]
    <3>1. CASE kind = "text"
      <4>a. sent[st] \in 0..MaxEvents[st] /\ MaxEvents[st] \in Nat
        BY <1>0, AgentStepAssumption DEF Locals
      <4>b. sent[st] < MaxEvents[st]
        BY <2>1, <3>1
      <4>1. sent[st] \in Nat /\ MaxEvents[st] \in Nat /\ sent[st] < MaxEvents[st]
        BY <4>a, <4>b
      <4>2. sent[st] + 1 \in 0..MaxEvents[st]
        BY <2>4, <4>1
      <4>3. sent' = [sent EXCEPT ![st] = sent[st] + 1] /\ DOMAIN sent = Steps
        BY <1>0, <2>1, <3>1 DEF Locals
      <4> QED BY <1>0, <4>2, <4>3 DEF Locals
    <3>2. CASE kind # "text"
      BY <1>0, <2>1, <3>2 DEF Locals
    <3> QED BY <3>1, <3>2
  <2>8. /\ term' \in [Steps -> Terminals]
        /\ \A x \in Steps \ {st} : term'[x] = term[x]
        /\ term'[st] # "aborted" \/ term'[st] = term[st]
        /\ term[st] # "none" => term'[st] = term[st]
    BY <1>0, <2>1 DEF Locals, Terminals
  <2>9. Locals' /\ Beside(st)
    BY <1>0, <2>2, <2>3, <2>6, <2>7, <2>8 DEF Locals, Beside
  <2>10. pc'[st] = "stream" => pend'[st] < BatchSize
    <3>1. pend'[st] \in Nat /\ BatchSize \in Nat
      BY <2>5, <2>6
    <3>2. pc'[st] = "stream" => ~(pend'[st] >= BatchSize)
      BY <2>3
    <3> QED BY <3>1, <3>2
  <2>11. Ordered(st)'
    BY <1>0, <2>2, <2>3, <2>8, <2>10
    DEF Ordered, Undecided, Unstarted, Unwinding, Watched
  <2>12. Writer(st)'
    BY <1>0, <2>2, <2>3 DEF Writer
  <2> QED BY <2>9, <2>11, <2>12
<1>4. CASE Acquire(st)
  <2>1. /\ pc' \in [Steps -> PCs] /\ pc'[st] \in {"granted", "queued"}
        /\ \A x \in Steps \ {st} : pc'[x] = pc[x]
    BY <1>0, <1>4, GotoMoves DEF Acquire, PCs
  <2>2. Locals' /\ Beside(st)
    BY <1>0, <1>4, <2>1, IdTyped, AgentStepAssumption DEF Locals, Acquire, Beside, watch, limiter, Terminals
  <2>3. Ordered(st)'
    BY <1>0, <1>4, <2>1, GotoMoves, ReleaseMoves, AgentStepAssumption
    DEF Ordered, Acquire, watch, Undecided, Unstarted, Unwinding, Watched, Locals, PCs
  <2>4. Writer(st)'
    BY <1>0, <1>4, <2>1, IdTyped DEF Writer, Acquire, Writes, Id
  <2> QED BY <2>2, <2>3, <2>4
<1>5. CASE Admit(st)
  <2>1. /\ pc' \in [Steps -> PCs] /\ pc'[st] \in {"close", "begin"}
        /\ \A x \in Steps \ {st} : pc'[x] = pc[x] \/ (pc[x] = "queued" /\ pc'[x] = "granted")
    BY <1>0, <1>5, GotoMoves, ReleaseMoves DEF Admit, PCs
  <2>2. Locals' /\ Beside(st)
    BY <1>0, <1>5, <2>1, IdTyped, AgentStepAssumption DEF Locals, Admit, Beside, watch, limiter, Terminals
  <2>3. Ordered(st)'
    BY <1>0, <1>5, <2>1, GotoMoves, ReleaseMoves, AgentStepAssumption
    DEF Ordered, Admit, watch, Undecided, Unstarted, Unwinding, Watched, Locals, PCs
  <2>4. Writer(st)'
    BY <1>0, <1>5, <2>1, IdTyped DEF Writer, Admit, Writes, Id
  <2> QED BY <2>2, <2>3, <2>4
<1>6. CASE Begin(st)
  <2>1. /\ pc' \in [Steps -> PCs] /\ pc'[st] \in {"run", "catch"}
        /\ \A x \in Steps \ {st} : pc'[x] = pc[x] \/ (pc[x] = "queued" /\ pc'[x] = "granted")
    BY <1>0, <1>6, GotoMoves, ReleaseMoves DEF Begin, PCs
  <2>2. Locals' /\ Beside(st)
    BY <1>0, <1>6, <2>1, IdTyped, AgentStepAssumption DEF Locals, Begin, Beside, watch, limiter, Terminals
  <2>3. Ordered(st)'
    BY <1>0, <1>6, <2>1, GotoMoves, ReleaseMoves, AgentStepAssumption
    DEF Ordered, Begin, watch, Undecided, Unstarted, Unwinding, Watched, Locals, PCs
  <2>4. Writer(st)'
    BY <1>0, <1>6, <2>1, IdTyped DEF Writer, Begin, Writes, Id
  <2> QED BY <2>2, <2>3, <2>4
<1>7. CASE Run(st)
  <2>1. /\ pc' \in [Steps -> PCs] /\ pc'[st] \in {"stream", "last"}
        /\ \A x \in Steps \ {st} : pc'[x] = pc[x]
    BY <1>0, <1>7, GotoMoves DEF Run, PCs
  <2>2. Locals' /\ Beside(st)
    BY <1>0, <1>7, <2>1, IdTyped, AgentStepAssumption DEF Locals, Run, Beside, watch, limiter, Terminals
  <2>3. Ordered(st)'
    BY <1>0, <1>7, <2>1, GotoMoves, ReleaseMoves, AgentStepAssumption
    DEF Ordered, Run, watch, Undecided, Unstarted, Unwinding, Watched, Locals, PCs
  <2>4. Writer(st)'
    <3>1. pc[st] = "run" /\ att'[st] = att[st]
      BY <1>7 DEF Run, watch
    <3>2. st \in WriteSteps => <<st, 1>> \notin alive
      BY <1>0, <3>1 DEF Writer
    <3>3. alive' = alive \/ (alive' = alive \cup {Id(st)} /\ pc'[st] = "stream")
      BY <1>0, <1>7 DEF Run, Goto, Locals
    <3>4. Id(st) = <<st, 1>> => att[st] = 1
      BY DEF Id
    <3> QED BY <3>1, <3>2, <3>3, <3>4 DEF Writer
  <2> QED BY <2>2, <2>3, <2>4
<1>8. CASE Flush(st)
  <2>1. /\ pc' \in [Steps -> PCs] /\ pc'[st] \in {"stream", "cleanup"}
        /\ \A x \in Steps \ {st} : pc'[x] = pc[x]
    BY <1>0, <1>8, GotoMoves DEF Flush, PCs
  <2>2. Locals' /\ Beside(st)
    <3>1. err' \in [Steps -> {"none", "runner", "write"}]
          /\ \A x \in Steps \ {st} : err'[x] = err[x]
      BY <1>0, <1>8 DEF Locals, Flush
    <3>2. 0 \in 0..BatchSize
      BY AgentStepAssumption
    <3>3. pend' \in [Steps -> 0..BatchSize] /\ \A x \in Steps \ {st} : pend'[x] = pend[x]
      BY <1>0, <1>8, <3>2 DEF Locals, Flush
    <3>4. /\ UNCHANGED <<stale, aborted, att, term, sent, alive>>
          /\ Written(st) \/ Refused(st)
      BY <1>8 DEF Flush
    <3> QED BY <1>0, <2>1, <3>1, <3>3, <3>4 DEF Locals, Beside
  <2>3. Ordered(st)'
    BY <1>0, <1>8, <2>1, GotoMoves, ReleaseMoves, AgentStepAssumption
    DEF Ordered, Flush, watch, Undecided, Unstarted, Unwinding, Watched, Locals, PCs
  <2>4. Writer(st)'
    BY <1>0, <1>8, <2>1, IdTyped DEF Writer, Flush, Writes, Id
  <2> QED BY <2>2, <2>3, <2>4
<1>9. CASE EndStream(st)
  <2>1. /\ pc' \in [Steps -> PCs] /\ pc'[st] \in {"cleanup"}
        /\ \A x \in Steps \ {st} : pc'[x] = pc[x]
    BY <1>0, <1>9, GotoMoves DEF EndStream, PCs
  <2>2. Locals' /\ Beside(st)
    BY <1>0, <1>9, <2>1, IdTyped, AgentStepAssumption DEF Locals, EndStream, Beside, watch, limiter, Terminals
  <2>3. Ordered(st)'
    BY <1>0, <1>9, <2>1, GotoMoves, ReleaseMoves, AgentStepAssumption
    DEF Ordered, EndStream, watch, Undecided, Unstarted, Unwinding, Watched, Locals, PCs
  <2>4. Writer(st)'
    BY <1>0, <1>9, <2>1, IdTyped DEF Writer, EndStream, Writes, Id
  <2> QED BY <2>2, <2>3, <2>4
<1>10. CASE Cleanup(st)
  <2>1. /\ pc' \in [Steps -> PCs] /\ pc'[st] \in {"last"}
        /\ \A x \in Steps \ {st} : pc'[x] = pc[x]
    BY <1>0, <1>10, GotoMoves DEF Cleanup, PCs
  <2>2. Locals' /\ Beside(st)
    <3>1. err' \in [Steps -> {"none", "runner", "write"}]
          /\ \A x \in Steps \ {st} : err'[x] = err[x]
      BY <1>0, <1>10 DEF Locals, Cleanup
    <3>2. \A x \in Steps : MaxEvents[x] \in Nat
      BY AgentStepAssumption
    <3>3. DOMAIN sent' = Steps /\ (\A x \in Steps : sent'[x] \in 0..MaxEvents[x])
          /\ \A x \in Steps \ {st} : sent'[x] = sent[x]
      BY <1>0, <1>10, <3>2 DEF Locals, Cleanup
    <3>4. alive' \subseteq alive /\ \A a \in alive : a # Id(st) => a \in alive'
      BY <1>10 DEF Cleanup
    <3>5. UNCHANGED <<state, stale, aborted, att, term, pend, faults>>
      BY <1>10 DEF Cleanup
    <3>6. Id(st)[1] = st
      BY <1>0, IdTyped
    <3> QED BY <1>0, <2>1, <3>1, <3>3, <3>4, <3>5, <3>6 DEF Locals, Beside
  <2>3. Ordered(st)'
    BY <1>0, <1>10, <2>1, GotoMoves, ReleaseMoves, AgentStepAssumption
    DEF Ordered, Cleanup, watch, Undecided, Unstarted, Unwinding, Watched, Locals, PCs
  <2>4. Writer(st)'
    BY <1>0, <1>10, <2>1, IdTyped DEF Writer, Cleanup, Writes, Id
  <2> QED BY <2>2, <2>3, <2>4
<1>11. CASE LastFlush(st)
  <2>1. /\ pc' \in [Steps -> PCs] /\ pc'[st] \in {"capture"}
        /\ \A x \in Steps \ {st} : pc'[x] = pc[x]
    BY <1>0, <1>11, GotoMoves DEF LastFlush, PCs
  <2>2. Locals' /\ Beside(st)
    <3>1. err' \in [Steps -> {"none", "runner", "write"}]
          /\ \A x \in Steps \ {st} : err'[x] = err[x]
      BY <1>0, <1>11 DEF Locals, LastFlush
    <3>2. 0 \in 0..BatchSize
      BY AgentStepAssumption
    <3>3. pend' \in [Steps -> 0..BatchSize] /\ \A x \in Steps \ {st} : pend'[x] = pend[x]
      BY <1>0, <1>11, <3>2 DEF Locals, LastFlush
    <3>4. /\ UNCHANGED <<stale, aborted, att, term, sent, alive>>
          /\ Written(st) \/ Refused(st)
      BY <1>11 DEF LastFlush
    <3> QED BY <1>0, <2>1, <3>1, <3>3, <3>4 DEF Locals, Beside
  <2>3. Ordered(st)'
    BY <1>0, <1>11, <2>1, GotoMoves, ReleaseMoves, AgentStepAssumption
    DEF Ordered, LastFlush, watch, Undecided, Unstarted, Unwinding, Watched, Locals, PCs
  <2>4. Writer(st)'
    BY <1>0, <1>11, <2>1, IdTyped DEF Writer, LastFlush, Writes, Id
  <2> QED BY <2>2, <2>3, <2>4
<1>12. CASE Capture(st)
  <2>1. /\ pc' \in [Steps -> PCs] /\ pc'[st] \in {"failing", "finish"}
        /\ \A x \in Steps \ {st} : pc'[x] = pc[x]
    BY <1>0, <1>12, GotoMoves DEF Capture, PCs
  <2>2. Locals' /\ Beside(st)
    BY <1>0, <1>12, <2>1, IdTyped, AgentStepAssumption DEF Locals, Capture, Beside, watch, limiter, Terminals
  <2>3. Ordered(st)'
    BY <1>0, <1>12, <2>1, GotoMoves, ReleaseMoves, AgentStepAssumption
    DEF Ordered, Capture, watch, Undecided, Unstarted, Unwinding, Watched, Locals, PCs
  <2>4. Writer(st)'
    BY <1>0, <1>12, <2>1, IdTyped DEF Writer, Capture, Writes, Id
  <2> QED BY <2>2, <2>3, <2>4
<1>13. CASE Finish(st)
  <2>1. /\ pc' \in [Steps -> PCs] /\ pc'[st] \in {"output", "close", "capture"}
        /\ \A x \in Steps \ {st} : pc'[x] = pc[x] \/ (pc[x] = "queued" /\ pc'[x] = "granted")
    BY <1>0, <1>13, GotoMoves, ReleaseMoves DEF Finish, PCs
  <2>2. Locals' /\ Beside(st)
    BY <1>0, <1>13, <2>1, IdTyped, AgentStepAssumption DEF Locals, Finish, Beside, watch, limiter, Terminals
  <2>3. Ordered(st)'
    BY <1>0, <1>13, <2>1, GotoMoves, ReleaseMoves, AgentStepAssumption
    DEF Ordered, Finish, watch, Undecided, Unstarted, Unwinding, Watched, Locals, PCs
  <2>4. Writer(st)'
    BY <1>0, <1>13, <2>1, IdTyped DEF Writer, Finish, Writes, Id
  <2> QED BY <2>2, <2>3, <2>4
<1>14. CASE Failing(st)
  <2>1. /\ pc' \in [Steps -> PCs] /\ pc'[st] \in {"catch"}
        /\ \A x \in Steps \ {st} : pc'[x] = pc[x] \/ (pc[x] = "queued" /\ pc'[x] = "granted")
    BY <1>0, <1>14, GotoMoves, ReleaseMoves DEF Failing, PCs
  <2>2. Locals' /\ Beside(st)
    BY <1>0, <1>14, <2>1, IdTyped, AgentStepAssumption DEF Locals, Failing, Beside, watch, limiter, Terminals
  <2>3. Ordered(st)'
    BY <1>0, <1>14, <2>1, GotoMoves, ReleaseMoves, AgentStepAssumption
    DEF Ordered, Failing, watch, Undecided, Unstarted, Unwinding, Watched, Locals, PCs
  <2>4. Writer(st)'
    BY <1>0, <1>14, <2>1, IdTyped DEF Writer, Failing, Writes, Id
  <2> QED BY <2>2, <2>3, <2>4
<1>15. CASE Output(st)
  <2>1. /\ pc' \in [Steps -> PCs] /\ pc'[st] \in {"repair", "close", "catch"}
        /\ \A x \in Steps \ {st} : pc'[x] = pc[x]
    BY <1>0, <1>15, GotoMoves DEF Output, PCs
  <2>2. Locals' /\ Beside(st)
    BY <1>0, <1>15, <2>1, IdTyped, AgentStepAssumption DEF Locals, Output, Beside, watch, limiter, Terminals
  <2>3. Ordered(st)'
    BY <1>0, <1>15, <2>1, GotoMoves, ReleaseMoves, AgentStepAssumption
    DEF Ordered, Output, watch, Undecided, Unstarted, Unwinding, Watched, Locals, PCs
  <2>4. Writer(st)'
    BY <1>0, <1>15, <2>1, IdTyped DEF Writer, Output, Writes, Id
  <2> QED BY <2>2, <2>3, <2>4
<1>16. CASE Repair(st)
  <2>1. /\ pc' \in [Steps -> PCs] /\ pc'[st] \in {"acquire", "catch"}
        /\ \A x \in Steps \ {st} : pc'[x] = pc[x]
    BY <1>0, <1>16, GotoMoves DEF Repair, PCs
  <2>2. Locals' /\ Beside(st)
    BY <1>0, <1>16, <2>1, IdTyped, AgentStepAssumption DEF Locals, Repair, Beside, watch, limiter, Terminals
  <2>3. Ordered(st)'
    BY <1>0, <1>16, <2>1, GotoMoves, ReleaseMoves, AgentStepAssumption
    DEF Ordered, Repair, watch, Undecided, Unstarted, Unwinding, Watched, Locals, PCs
  <2>4. Writer(st)'
    BY <1>0, <1>16, <2>1, IdTyped DEF Writer, Repair, Writes, Id
  <2> QED BY <2>2, <2>3, <2>4
<1>17. CASE Close(st)
  <2>1. /\ pc' \in [Steps -> PCs] /\ pc'[st] \in {"done", "catch"}
        /\ \A x \in Steps \ {st} : pc'[x] = pc[x]
    BY <1>0, <1>17, GotoMoves DEF Close, PCs
  <2>2. Locals' /\ Beside(st)
    BY <1>0, <1>17, <2>1, IdTyped, AgentStepAssumption DEF Locals, Close, Beside, watch, limiter, Terminals
  <2>3. Ordered(st)'
    BY <1>0, <1>17, <2>1, GotoMoves, ReleaseMoves, AgentStepAssumption
    DEF Ordered, Close, watch, Undecided, Unstarted, Unwinding, Watched, Locals, PCs
  <2>4. Writer(st)'
    BY <1>0, <1>17, <2>1, IdTyped DEF Writer, Close, Writes, Id
  <2> QED BY <2>2, <2>3, <2>4
<1>18. CASE Catch(st)
  <2>1. /\ pc' \in [Steps -> PCs] /\ pc'[st] \in {"threw"}
        /\ \A x \in Steps \ {st} : pc'[x] = pc[x]
    BY <1>0, <1>18, GotoMoves DEF Catch, PCs
  <2>2. Locals' /\ Beside(st)
    BY <1>0, <1>18, <2>1, IdTyped, AgentStepAssumption DEF Locals, Catch, Beside, watch, limiter, Terminals
  <2>3. Ordered(st)'
    BY <1>0, <1>18, <2>1, GotoMoves, ReleaseMoves, AgentStepAssumption
    DEF Ordered, Catch, watch, Undecided, Unstarted, Unwinding, Watched, Locals, PCs
  <2>4. Writer(st)'
    BY <1>0, <1>18, <2>1, IdTyped DEF Writer, Catch, Writes, Id
  <2> QED BY <2>2, <2>3, <2>4
<1>19. CASE Deadline(st)
  <2>1. Locals' /\ Beside(st)
    BY <1>0, <1>19 DEF Locals, Deadline, Beside, Terminals
  <2>2. Ordered(st)'
    BY <1>0, <1>19 DEF Ordered, Deadline, Undecided, Unstarted, Unwinding, Watched, Locals
  <2>3. Writer(st)'
    BY <1>0, <1>19 DEF Writer, Deadline
  <2> QED BY <2>1, <2>2, <2>3
<1> QED BY <1>1, <1>2, <1>3, <1>4, <1>5, <1>6, <1>7, <1>8, <1>9, <1>10, <1>11, <1>12, <1>13, <1>14, <1>15, <1>16, <1>17, <1>18, <1>19 DEF Handler

LEMMA BesideKept ==
  ASSUME Control, NEW st \in Steps, Beside(st), Locals', NEW x \in Steps, x # st
  PROVE  Ordered(x)' /\ Writer(x)'
<1>1. /\ Ordered(x) /\ Writer(x)
      /\ pc'[x] = pc[x] \/ (pc[x] = "queued" /\ pc'[x] = "granted")
      /\ att'[x] = att[x] /\ term'[x] = term[x] /\ err'[x] = err[x] /\ pend'[x] = pend[x]
      /\ aborted' = aborted
  BY DEF Control, Beside
<1>2. Ordered(x)'
  BY <1>1 DEF Ordered, Undecided, Unstarted, Unwinding, Watched
<1>3. x \in WriteSteps => (<<x, 1>> \in alive' => <<x, 1>> \in alive)
  BY AgentStepAssumption DEF Beside
<1>4. Writer(x)'
  BY <1>1, <1>3 DEF Writer
<1> QED BY <1>2, <1>4

\* The write or its refusal leaves a sound log and a count of faults within its bound.
LEMMA LogKept ==
  ASSUME TypeOK, SoundLog(state), NEW st \in Steps,
         Written(st) \/ Refused(st) \/ UNCHANGED <<state, faults>>
  PROVE  /\ SoundLog(state)'
         /\ OnlyEscalations(state) => OnlyEscalations(state)'
         /\ DOMAIN faults' = Steps /\ \A x \in Steps : faults'[x] \in 0..MaxFaults[x]
<1>1. CASE UNCHANGED <<state, faults>>
  BY <1>1 DEF TypeOK
<1>2. CASE Written(st)
  BY <1>2, WrittenKeeps DEF TypeOK, Written
<1>3. CASE Refused(st)
  <2>1. state' = state
    BY <1>3 DEF Refused
  <2>2. /\ DOMAIN faults = Steps /\ \A x \in Steps : faults[x] \in 0..MaxFaults[x]
        /\ MaxFaults[st] \in Nat
    BY AgentStepAssumption DEF TypeOK
  <2>3. faults' = faults \/ (faults[st] < MaxFaults[st] /\ faults' = [faults EXCEPT ![st] = @ + 1])
    BY <1>3 DEF Refused
  <2>4. \A m, n \in Nat : m < n => m + 1 \in 0..n
    OBVIOUS
  <2>5. CASE faults[st] < MaxFaults[st] /\ faults' = [faults EXCEPT ![st] = @ + 1]
    <3>1. faults[st] \in Nat
      BY <2>2
    <3>2. faults[st] + 1 \in 0..MaxFaults[st]
      BY <2>2, <2>4, <2>5, <3>1
    <3>3. faults' = [faults EXCEPT ![st] = faults[st] + 1]
      BY <2>5
    <3> QED BY <2>1, <2>2, <3>2, <3>3
  <2> QED BY <2>1, <2>2, <2>3, <2>5
<1> QED BY <1>1, <1>2, <1>3

-----------------------------------------------------------------------------
(* The limiter.                                                            *)

LimiterKept == active' \in 0..MaxPermits /\ waiting' \in Seq(Steps) /\ Permits'

LEMMA PermitKept ==
  ASSUME TypeOK, Permits, NEW st \in Steps, NEW next \in PCs,
         pc' = [pc EXCEPT ![st] = next], UNCHANGED limiter,
         next \in Holding <=> pc[st] \in Holding, pc[st] # "queued", next # "queued"
  PROVE  LimiterKept
<1>1. pc \in [Steps -> PCs] /\ active' = active /\ waiting' = waiting
      /\ active \in 0..MaxPermits /\ waiting \in Seq(Steps)
  BY DEF TypeOK, limiter
<1>2. Holders' = Holders
  BY <1>1 DEF Holders
<1>3. \A i \in 1..Len(waiting) : waiting[i] # st /\ waiting[i] \in Steps
  BY <1>1, ElementOfSeq DEF Permits
<1>4. \A i \in 1..Len(waiting) : pc'[waiting[i]] = "queued"
  BY <1>1, <1>3 DEF Permits
<1>5. \A x \in Steps : pc'[x] = "queued" => pc[x] = "queued"
  BY <1>1
<1> QED BY <1>1, <1>2, <1>4, <1>5 DEF LimiterKept, Permits

LEMMA PermitTaken ==
  ASSUME TypeOK, Permits, NEW st \in Steps, pc[st] = "acquire", active < MaxPermits,
         pc' = [pc EXCEPT ![st] = "granted"], active' = active + 1, waiting' = waiting
  PROVE  LimiterKept
<1>1. pc \in [Steps -> PCs] /\ active \in 0..MaxPermits /\ MaxPermits \in Nat
      /\ waiting \in Seq(Steps)
  BY AgentStepAssumption DEF TypeOK
<1>2. waiting = <<>>
  BY <1>1 DEF Permits
<1>3. active' \in 0..MaxPermits
  BY <1>1
<1>4. Holders' = Holders \cup {st} /\ st \notin Holders
  BY <1>1 DEF Holders, Holding, Watched
<1>5. IsFiniteSet(Holders') /\ Cardinality(Holders') = Cardinality(Holders) + 1
  BY <1>4, FS_AddElement DEF Permits
<1>6. active' = Cardinality(Holders')
  BY <1>5 DEF Permits
<1>7. \A x \in Steps : pc'[x] # "queued"
  <2>1. \A x \in Steps : pc[x] # "queued"
    BY <1>2 DEF Permits
  <2> QED BY <1>1, <2>1
<1>8. waiting' = <<>> /\ 1..Len(waiting') = {}
  BY <1>2
<1> QED BY <1>1, <1>3, <1>5, <1>6, <1>7, <1>8 DEF LimiterKept, Permits

LEMMA PermitAwaited ==
  ASSUME TypeOK, Permits, NEW st \in Steps, pc[st] = "acquire", ~(active < MaxPermits),
         pc' = [pc EXCEPT ![st] = "queued"], active' = active, waiting' = Append(waiting, st)
  PROVE  LimiterKept
<1>1. pc \in [Steps -> PCs] /\ active \in 0..MaxPermits /\ MaxPermits \in Nat
      /\ waiting \in Seq(Steps) /\ Len(waiting) \in Nat
  BY AgentStepAssumption DEF TypeOK
<1>2. active = MaxPermits
  BY <1>1
<1>3. Holders' = Holders
  BY <1>1 DEF Holders, Holding, Watched
<1> DEFINE w == waiting'
<1>4. /\ w \in Seq(Steps) /\ Len(w) = Len(waiting) + 1 /\ w[Len(waiting) + 1] = st
      /\ \A i \in 1..Len(waiting) : w[i] = waiting[i]
  BY <1>1, AppendProperties
<1>5. \A i \in 1..Len(waiting) : waiting[i] \in Steps /\ waiting[i] # st
                                 /\ pc[waiting[i]] = "queued"
  BY <1>1, ElementOfSeq DEF Permits
<1> HIDE DEF w
<1>6. \A i \in 1..Len(w) : i \in 1..Len(waiting) \/ i = Len(waiting) + 1
  BY <1>1, <1>4
<1>7. \A i \in 1..Len(w) : pc'[w[i]] = "queued"
  BY <1>1, <1>4, <1>5, <1>6
<1>8. \A x \in Steps : pc'[x] = "queued" => \E i \in 1..Len(w) : w[i] = x
  <2>1. \A i \in 1..Len(waiting) : i \in 1..Len(w)
    BY <1>1, <1>4
  <2>2. Len(waiting) + 1 \in 1..Len(w)
    BY <1>1, <1>4
  <2>3. ASSUME NEW x \in Steps, pc'[x] = "queued", x # st
        PROVE  \E i \in 1..Len(w) : w[i] = x
    <3>1. pc[x] = "queued"
      BY <1>1, <2>3
    <3>2. PICK i \in 1..Len(waiting) : waiting[i] = x
      BY <3>1 DEF Permits
    <3> QED BY <3>2, <2>1, <1>4
  <2> QED BY <2>2, <2>3, <1>4
<1>9. \A i, j \in 1..Len(w) : w[i] = w[j] => i = j
  BY <1>4, <1>5, <1>6 DEF Permits
<1> QED BY <1>1, <1>2, <1>3, <1>4, <1>7, <1>8, <1>9 DEF LimiterKept, Permits, w

LEMMA PermitReleased ==
  ASSUME TypeOK, Permits, NEW st \in Steps, pc[st] \in Holding, NEW next \in PCs,
         next \notin Holding, next # "queued", ReleaseTo(st, next)
  PROVE  LimiterKept
<1>0. pc \in [Steps -> PCs] /\ active \in 0..MaxPermits /\ MaxPermits \in Nat
      /\ waiting \in Seq(Steps) /\ Len(waiting) \in Nat
  BY AgentStepAssumption DEF TypeOK
<1>1. /\ st \in Holders /\ IsFiniteSet(Holders) /\ active = Cardinality(Holders)
      /\ pc[st] # "queued"
  BY DEF Permits, Holders, Holding, Watched
<1>2. /\ IsFiniteSet(Holders \ {st}) /\ Cardinality(Holders \ {st}) = active - 1
      /\ Cardinality(Holders \ {st}) \in Nat
  BY <1>1, FS_RemoveElement, FS_CardinalityType
<1>3. CASE waiting = <<>>
  <2>1. /\ pc' = [pc EXCEPT ![st] = next] /\ active' = active - 1 /\ waiting' = <<>>
    BY <1>3 DEF ReleaseTo, Goto
  <2>2. Holders' = Holders \ {st}
    BY <1>0, <2>1 DEF Holders
  <2>3. active' \in 0..MaxPermits
    BY <1>0, <1>2, <2>1
  <2>4. \A x \in Steps : pc'[x] # "queued"
    <3>1. \A x \in Steps : pc[x] # "queued"
      BY <1>3 DEF Permits
    <3> QED BY <1>0, <2>1, <3>1
  <2>5. waiting' \in Seq(Steps) /\ 1..Len(waiting') = {}
    BY <2>1
  <2> QED BY <1>2, <2>1, <2>2, <2>3, <2>4, <2>5 DEF LimiterKept, Permits
<1>4. CASE waiting # <<>>
  <2> DEFINE h == Head(waiting)
             w == waiting'
  <2>1. /\ h \in Steps /\ pc[h] = "queued" /\ h # st /\ h = waiting[1] /\ 1 \in 1..Len(waiting)
    BY <1>1, <1>4, HeadQueued
  <2>2. /\ pc' = [pc EXCEPT ![st] = next, ![h] = "granted"] /\ active' = active
        /\ w = Tail(waiting)
    BY <1>4 DEF ReleaseTo
  <2>3. /\ w \in Seq(Steps) /\ Len(w) = Len(waiting) - 1 /\ Len(w) \in Nat
        /\ \A i \in 1..Len(w) : w[i] = waiting[i + 1]
    BY <1>0, <1>4, <2>2, HeadTailProperties
  <2>4. active = MaxPermits
    BY <1>4 DEF Permits
  <2> HIDE DEF h, w
  <2>5. Holders' = (Holders \ {st}) \cup {h} /\ h \notin Holders \ {st}
    BY <1>0, <2>1, <2>2 DEF Holders, Holding, Watched
  <2>6. IsFiniteSet(Holders') /\ Cardinality(Holders') = Cardinality(Holders \ {st}) + 1
    BY <1>2, <2>5, FS_AddElement
  <2>7. active' = Cardinality(Holders')
    BY <1>0, <1>2, <2>2, <2>6
  <2>8. \A i \in 1..Len(w) : i + 1 \in 1..Len(waiting) /\ i + 1 # 1
    BY <1>0, <2>3
  <2>9. ASSUME NEW i \in 1..Len(w)
        PROVE  pc'[w[i]] = "queued"
    <3>1. i + 1 \in 1..Len(waiting) /\ i + 1 # 1 /\ w[i] = waiting[i + 1]
      BY <2>3, <2>8
    <3>2. pc[w[i]] = "queued" /\ w[i] \in Steps
      BY <1>0, <3>1, ElementOfSeq DEF Permits
    <3>3. w[i] # h /\ w[i] # st
      BY <1>1, <2>1, <3>1, <3>2 DEF Permits
    <3> QED BY <1>0, <2>2, <3>2, <3>3
  <2>10. ASSUME NEW x \in Steps, pc'[x] = "queued"
         PROVE  \E i \in 1..Len(w) : w[i] = x
    <3>1. pc[x] = "queued" /\ x # h
      BY <1>0, <2>1, <2>2, <2>10
    <3>2. PICK j \in 1..Len(waiting) : waiting[j] = x
      BY <3>1 DEF Permits
    <3>3. j # 1
      BY <2>1, <3>1, <3>2
    <3>4. j - 1 \in 1..Len(w) /\ (j - 1) + 1 = j
      BY <1>0, <2>3, <3>3
    <3>5. w[j - 1] = x
      BY <2>3, <3>2, <3>4
    <3> QED BY <3>4, <3>5
  <2>11. ASSUME NEW i \in 1..Len(w), NEW j \in 1..Len(w), w[i] = w[j]
         PROVE  i = j
    <3>1. waiting[i + 1] = waiting[j + 1] /\ i + 1 \in 1..Len(waiting) /\ j + 1 \in 1..Len(waiting)
      BY <2>3, <2>8, <2>11
    <3>2. i + 1 = j + 1
      BY <3>1 DEF Permits
    <3> QED BY <3>2
  <2> QED
    BY <1>0, <2>2, <2>3, <2>4, <2>6, <2>7, <2>9, <2>10, <2>11 DEF LimiterKept, Permits, w
<1> QED BY <1>3, <1>4

\* Every handler keeps the limiter's count, whichever way it ends.
LEMMA HandlerLimits ==
  ASSUME Control, NEW st \in Steps, Handler(st)
  PROVE  LimiterKept
<1>0. TypeOK /\ Permits
  BY DEF Control
<1>1. ASSUME NEW next \in PCs, Goto(st, next), UNCHANGED limiter,
             next \in Holding <=> pc[st] \in Holding, pc[st] # "queued", next # "queued"
      PROVE  LimiterKept
  BY <1>0, <1>1, PermitKept DEF Goto
<1>2. ASSUME NEW next \in PCs, pc[st] \in Holding, next \notin Holding, next # "queued",
             ReleaseTo(st, next)
      PROVE  LimiterKept
  BY <1>0, <1>2, PermitReleased
<1>3. CASE Call(st)
  BY <1>1, <1>3 DEF Call, PCs, Holding, Watched
<1>4. CASE Start(st)
  BY <1>1, <1>4 DEF Start, PCs, Holding, Watched
<1>5. CASE Acquire(st)
  <2>1. CASE active < MaxPermits
    BY <1>0, <1>5, <2>1, PermitTaken DEF Acquire, Goto
  <2>2. CASE ~(active < MaxPermits)
    BY <1>0, <1>5, <2>2, PermitAwaited DEF Acquire, Goto
  <2> QED BY <2>1, <2>2
<1>6. CASE Admit(st)
  BY <1>1, <1>2, <1>6 DEF Admit, PCs, Holding, Watched
<1>7. CASE Begin(st)
  BY <1>1, <1>2, <1>7 DEF Begin, PCs, Holding, Watched
<1>8. CASE Run(st)
  BY <1>1, <1>8 DEF Run, PCs, Holding, Watched
<1>9. CASE Receive(st)
  BY <1>1, <1>9 DEF Receive, PCs, Holding, Watched
<1>10. CASE Flush(st)
  BY <1>1, <1>10 DEF Flush, PCs, Holding, Watched
<1>11. CASE EndStream(st)
  BY <1>1, <1>11 DEF EndStream, PCs, Holding, Watched
<1>12. CASE Cleanup(st)
  BY <1>1, <1>12 DEF Cleanup, PCs, Holding, Watched
<1>13. CASE LastFlush(st)
  BY <1>1, <1>13 DEF LastFlush, PCs, Holding, Watched
<1>14. CASE Capture(st)
  BY <1>1, <1>14 DEF Capture, PCs, Holding, Watched
<1>15. CASE Finish(st)
  BY <1>1, <1>2, <1>15 DEF Finish, PCs, Holding, Watched
<1>16. CASE Failing(st)
  BY <1>1, <1>2, <1>16 DEF Failing, PCs, Holding, Watched
<1>17. CASE Output(st)
  BY <1>1, <1>17 DEF Output, PCs, Holding, Watched
<1>18. CASE Repair(st)
  BY <1>1, <1>18 DEF Repair, PCs, Holding, Watched
<1>19. CASE Close(st)
  BY <1>1, <1>19 DEF Close, PCs, Holding, Watched
<1>20. CASE Catch(st)
  BY <1>1, <1>20 DEF Catch, PCs, Holding, Watched
<1>21. CASE Deadline(st)
  BY <1>0, <1>21 DEF Deadline, limiter, LimiterKept, Permits, Holders, TypeOK
<1> QED
  BY <1>3, <1>4, <1>5, <1>6, <1>7, <1>8, <1>9, <1>10, <1>11, <1>12, <1>13, <1>14, <1>15,
     <1>16, <1>17, <1>18, <1>19, <1>20, <1>21 DEF Handler

-----------------------------------------------------------------------------
(* The invariant.                                                          *)

LEMMA ControlInitially ==
  Init => Control
<1> SUFFICES ASSUME Init PROVE Control
  OBVIOUS
<1> DEFINE s == Reduce(NullRun, RunCreated)
<1>1. /\ IsRunState(s) /\ RunInv(s) /\ s.status = "active" /\ s.attempts = EmptyMap
      /\ s.gates = EmptyMap /\ s.steps = EmptyMap
  <2>1. RunCreated \in EventBodies /\ Legal(NullRun, RunCreated)
    BY DEF RunCreated, EventBodies, Legal, NullRun
  <2>2. IsRunState(s) /\ RunInv(s)
    BY <2>1, NullRunOK, ReduceTyped, ReduceSound
  <2>3. /\ s.status = "active" /\ s.attempts = EmptyMap /\ s.gates = EmptyMap
        /\ s.steps = EmptyMap
    BY DEF Reduce, RunCreated, NullRun, AttemptsAfter, GatesAfter, StepsAfter
  <2> QED BY <2>2, <2>3
<1>2. DOMAIN EmptyMap = {}
  BY DEF EmptyMap
<1> HIDE DEF s
<1>3. SoundLog(s) /\ OnlyEscalations(s)
  BY <1>1, <1>2 DEF SoundLog, OnlyEscalations
<1> DEFINE t == [s EXCEPT !.artifacts = {}]
<1>4. s.artifacts = {}
  BY DEF s, Reduce, RunCreated, NullRun
<1>5. state = [s EXCEPT !.lastSeq = 0]
  BY DEF Init, s
<1>6. state = [s EXCEPT !.lastSeq = 0, !.artifacts = {}]
  BY <1>1, <1>4, <1>5 DEF IsRunState
<1>7. SoundLog(state) /\ OnlyEscalations(state)
  BY <1>3, <1>6, Forgotten
<1>8. TypeOK
  <2>1. \A st \in Steps : MaxEvents[st] \in Nat /\ MaxFaults[st] \in Nat
    BY AgentStepAssumption
  <2>2. 0 \in 0..MaxPermits /\ 0 \in 0..BatchSize /\ <<>> \in Seq(Steps)
    BY AgentStepAssumption
  <2>3. IsRunState(state)
    BY <1>7 DEF SoundLog
  <2>4. /\ pc \in [Steps -> PCs] /\ att \in [Steps -> {1, 2}] /\ term \in [Steps -> Terminals]
        /\ err \in [Steps -> {"none", "runner", "write"}]
        /\ alive \subseteq Attempts /\ stale \in BOOLEAN /\ aborted \in BOOLEAN
    BY DEF Init, PCs, Terminals
  <2>5. /\ pend \in [Steps -> 0..BatchSize] /\ DOMAIN sent = Steps /\ DOMAIN faults = Steps
        /\ active \in 0..MaxPermits /\ waiting \in Seq(Steps)
    BY <2>2 DEF Init
  <2>6. \A st \in Steps : sent[st] \in 0..MaxEvents[st] /\ faults[st] \in 0..MaxFaults[st]
    BY <2>1 DEF Init
  <2> QED BY <2>3, <2>4, <2>5, <2>6 DEF TypeOK
<1>9. Permits
  <2>1. Holders = {}
    BY DEF Init, Holders, Holding, Watched
  <2>2. 1..Len(<<>>) = {}
    OBVIOUS
  <2> QED BY <2>1, <2>2, FS_EmptySet DEF Init, Permits
<1>10. ASSUME NEW st \in Steps
       PROVE  Ordered(st) /\ Writer(st)
  <2>1. 0 < BatchSize
    BY AgentStepAssumption
  <2> QED BY <2>1 DEF Init, Ordered, Writer, Undecided, Unstarted, Unwinding, Watched
<1> QED BY <1>7, <1>8, <1>9, <1>10 DEF Control

LEMMA HandlerControl ==
  ASSUME Control, NEW st \in Steps, Handler(st)
  PROVE  Control'
<1>1. Locals' /\ Beside(st) /\ Ordered(st)' /\ Writer(st)' /\ LimiterKept
  BY HandlerSteps, HandlerLimits
<1>2. /\ SoundLog(state)' /\ (OnlyEscalations(state) => OnlyEscalations(state)')
      /\ DOMAIN faults' = Steps /\ \A x \in Steps : faults'[x] \in 0..MaxFaults[x]
  BY <1>1, LogKept DEF Control, Beside
<1>3. \A x \in Steps : Ordered(x)' /\ Writer(x)'
  BY <1>1, BesideKept
<1>4. stale' = stale /\ aborted' = aborted /\ stale \in BOOLEAN /\ aborted \in BOOLEAN
  BY <1>1 DEF Beside, Control, TypeOK
<1>5. TypeOK'
  BY <1>1, <1>2, <1>4 DEF TypeOK, Locals, LimiterKept, SoundLog
<1> QED BY <1>1, <1>2, <1>3, <1>4, <1>5 DEF Control, LimiterKept

\* What the rows of recover do to a log of this module's steps.
LEMMA ReopenedLog ==
  ASSUME Control, Reopen
  PROVE  /\ SoundLog(state)'
         /\ \E t : /\ IsRecovered(t, state, Len(Recover(state)))
                   /\ state'.steps = t.steps /\ state'.attempts = t.attempts
                   /\ state'.gates = t.gates
<1> DEFINE s == state
           b == Recover(s)
           t == ReduceBatch(s, b)
           u == state'
<1>1. SoundLog(s) /\ OnlyEscalations(s)
  BY DEF Control, Reopen
<1>2. StepGatesPast(s)
  <2>1. \A g \in DOMAIN s.gates : g.name = "escalation"
    BY <1>1 DEF OnlyEscalations, EscalationGate
  <2> QED BY <2>1 DEF StepGatesPast
<1>3. Recoverable(s) /\ IsRunState(s) /\ RunInv(s) /\ s.status = "active"
  BY <1>1, <1>2 DEF Recoverable, SoundLog
<1>4. b \in Seq(EventBodies)
  BY <1>3, RecoverTyped
<1>5. LegalBatch(s, b) /\ IsRecovered(t, s, Len(b))
  BY <1>3, <1>4, RecoveryFolds
<1>6. IsRunState(t) /\ RunInv(t)
  <2>1. Len(b) \in 0..Len(b)
    BY <1>4
  <2> QED BY <2>1, <1>3, <1>4, <1>5, BatchTyped, BatchSound DEF ReduceBatch
<1>7. u = [t EXCEPT !.lastSeq = 0, !.artifacts = {}]
  BY DEF Reopen, Rows
<1> HIDE DEF t, u, b
<1>8. \A a \in DOMAIN t.attempts : t.attempts[a].step = a[1]
  BY <1>1, <1>5 DEF IsRecovered, SoundLog
<1>9. SoundLog(t)
  BY <1>3, <1>5, <1>6, <1>8 DEF SoundLog, IsRecovered
<1>10. SoundLog(u) /\ u.steps = t.steps /\ u.attempts = t.attempts /\ u.gates = t.gates
  BY <1>7, <1>9, Forgotten
<1> QED BY <1>5, <1>10 DEF u, b

LEMMA ControlInvariant ==
  Control /\ [Next]_vars => Control'
<1> SUFFICES ASSUME Control, [Next]_vars PROVE Control'
  OBVIOUS
<1>1. ASSUME NEW st \in Steps, Handler(st)
      PROVE  Control'
  BY <1>1, HandlerControl
<1>2. ASSUME NEW a \in Attempts, RunnerExits(a)
      PROVE  Control'
  <2>1. /\ UNCHANGED <<state, stale, aborted, pc, att, watch, faults, limiter>>
        /\ alive' = alive \ {a}
    BY <1>2 DEF RunnerExits
  <2>2. TypeOK' /\ Permits'
    BY <2>1 DEF Control, TypeOK, Permits, Holders, watch, limiter
  <2>3. \A st \in Steps : Ordered(st)' /\ Writer(st)'
    BY <2>1 DEF Control, Ordered, Writer, watch
  <2> QED BY <2>1, <2>2, <2>3 DEF Control
<1>3. CASE Abort
  <2>1. /\ UNCHANGED <<state, stale, pc, att, err, pend, sent, faults, alive, limiter>>
        /\ aborted' = TRUE
        /\ term' = [st \in Steps |->
                      IF pc[st] \in Watched /\ term[st] = "none" THEN "aborted" ELSE term[st]]
    BY <1>3 DEF Abort
  <2>2. TypeOK' /\ Permits'
    BY <2>1 DEF Control, TypeOK, Permits, Holders, limiter, Terminals
  <2>3. \A st \in Steps : Ordered(st)' /\ Writer(st)'
    BY <2>1 DEF Control, Ordered, Writer, Watched, Undecided
  <2> QED BY <2>1, <2>2, <2>3 DEF Control
<1>4. CASE Reopen
  <2>1. /\ UNCHANGED <<aborted, pc, att, watch, faults, alive, limiter>>
        /\ stale' = TRUE
    BY <1>4 DEF Reopen
  <2>2. SoundLog(state)'
    BY <1>4, ReopenedLog
  <2>3. TypeOK' /\ Permits'
    BY <2>1, <2>2 DEF Control, TypeOK, Permits, Holders, watch, limiter, SoundLog
  <2>4. \A st \in Steps : Ordered(st)' /\ Writer(st)'
    BY <2>1 DEF Control, Ordered, Writer, watch
  <2> QED BY <2>1, <2>2, <2>3, <2>4 DEF Control
<1>5. CASE UNCHANGED vars
  <2>1. UNCHANGED <<state, stale, aborted, pc, att, term, err, pend, sent, faults, alive,
                    active, waiting>>
    BY <1>5 DEF vars, watch, limiter
  <2>2. TypeOK' /\ Permits'
    BY <2>1 DEF Control, TypeOK, Permits, Holders
  <2>3. \A st \in Steps : Ordered(st)' /\ Writer(st)'
    BY <2>1 DEF Control, Ordered, Writer
  <2> QED BY <2>1, <2>2, <2>3 DEF Control
<1> QED BY <1>1, <1>2, <1>3, <1>4, <1>5 DEF Next, Handler, Finished

LEMMA QueueCounted ==
  ASSUME TypeOK, Permits
  PROVE  /\ ToSet(waiting) = {st \in Steps : pc[st] = "queued"}
         /\ Cardinality(ToSet(waiting)) = Len(waiting)
<1> DEFINE n == Len(waiting)
           Q == ToSet(waiting)
<1>1. /\ waiting \in Seq(Steps) /\ n \in Nat /\ DOMAIN waiting = 1..n
      /\ \A i \in 1..n : waiting[i] \in Steps
  BY ElementOfSeq DEF TypeOK
<1>2. Q = {waiting[i] : i \in 1..n}
  BY <1>1 DEF ToSet
<1>3. Q = {st \in Steps : pc[st] = "queued"}
  BY <1>1, <1>2 DEF Permits
<1>a. waiting \in [1..n -> Steps]
  BY <1>1, LenProperties
<1>b. \A i \in 1..n : waiting[i] \in Q
  BY <1>2
<1>4. waiting \in [1..n -> Q]
  <2> HIDE DEF n, Q
  <2> QED BY <1>a, <1>b
<1>5. \A i, j \in 1..n : waiting[i] = waiting[j] => i = j
  BY DEF Permits
<1> HIDE DEF n, Q
<1>6. IsFiniteSet(1..n) /\ Cardinality(1..n) = n
  BY <1>1, FS_Interval
<1>7. waiting \in Bijection(1..n, Q)
  BY <1>2, <1>4, <1>5 DEF Bijection, Injection, Surjection, IsInjective
<1>8. Cardinality(Q) = n
  BY <1>6, <1>7, FS_Bijection DEF ExistsBijection
<1> QED BY <1>3, <1>8 DEF n, Q

LEMMA PermitsAreCounted ==
  ASSUME Control
  PROVE  PermitsCounted
<1>1. TypeOK /\ Permits
  BY DEF Control
<1> QED BY <1>1, QueueCounted DEF PermitsCounted, Permits, Holders

LEMMA HandlerDecides ==
  ASSUME Control, NEW st \in Steps, Handler(st),
         term[st] # "none", att'[st] = att[st], pc'[st] \notin Returned
  PROVE  term'[st] = term[st]
<1>0. TypeOK /\ Permits /\ Ordered(st) /\ pc \in [Steps -> PCs] /\ att \in [Steps -> {1, 2}]
  BY DEF Control, TypeOK
<1>1. CASE \/ Call(st) \/ Start(st) \/ Acquire(st) \/ Begin(st) \/ Run(st) \/ Flush(st)
           \/ EndStream(st) \/ Cleanup(st) \/ LastFlush(st) \/ Capture(st) \/ Finish(st)
           \/ Failing(st) \/ Output(st)
  BY <1>1 DEF Call, Start, Acquire, Begin, Run, Flush, EndStream, Cleanup, LastFlush, Capture,
              Finish, Failing, Output, watch
<1>2. CASE Admit(st)
  BY <1>0, <1>2 DEF Admit, Ordered, Undecided
<1>3. CASE Receive(st)
  <2>1. PICK kind \in {"text", "valid", "invalid", "error"} :
          term' = IF kind # "text" /\ term[st] = "none"
                    THEN [term EXCEPT ![st] = kind] ELSE term
    BY <1>3 DEF Receive
  <2> QED BY <2>1
<1>4. CASE Repair(st)
  BY <1>0, <1>4 DEF Repair, Ordered
<1>5. CASE Close(st)
  BY <1>0, <1>5, GotoMoves DEF Close, Returned, PCs
<1>6. CASE Catch(st)
  BY <1>0, <1>6, GotoMoves DEF Catch, Returned, PCs
<1>7. CASE Deadline(st)
  BY <1>7 DEF Deadline
<1> QED BY <1>1, <1>2, <1>3, <1>4, <1>5, <1>6, <1>7 DEF Handler

LEMMA HandlerAfterAbort ==
  ASSUME Control, NEW st \in Steps, Handler(st), aborted
  PROVE  alive' \subseteq alive
<1>1. CASE Run(st)
  <2>1. Ordered(st) /\ pc[st] = "run"
    BY <1>1 DEF Control, Run
  <2>2. term[st] # "none"
    BY <2>1 DEF Ordered, Watched
  <2> QED BY <1>1, <2>2 DEF Run
<1>2. CASE ~Run(st)
  BY <1>2 DEF Handler, Call, Start, Acquire, Admit, Begin, Receive, Flush, EndStream, Cleanup,
              LastFlush, Capture, Finish, Failing, Output, Repair, Close, Catch, Deadline
<1> QED BY <1>1, <1>2

LEMMA StepDecides ==
  ASSUME Control, Next
  PROVE  \A st \in Steps :
           term[st] # "none" /\ att'[st] = att[st] /\ pc'[st] \notin Returned =>
             term'[st] = term[st]
<1> SUFFICES ASSUME NEW x \in Steps,
                    term[x] # "none", att'[x] = att[x], pc'[x] \notin Returned
             PROVE  term'[x] = term[x]
  OBVIOUS
<1>1. ASSUME NEW st \in Steps, Handler(st)
      PROVE  term'[x] = term[x]
  <2>1. Beside(st)
    BY <1>1, HandlerSteps
  <2>2. CASE x = st
    BY <1>1, <2>2, HandlerDecides
  <2>3. CASE x # st
    BY <2>1, <2>3 DEF Beside
  <2> QED BY <2>2, <2>3
<1>2. CASE \E a \in Attempts : RunnerExits(a)
  BY <1>2 DEF RunnerExits, watch
<1>3. CASE Abort
  BY <1>3 DEF Abort
<1>4. CASE Reopen
  BY <1>4 DEF Reopen, watch
<1>5. CASE Finished
  BY <1>5 DEF Finished, vars, watch
<1> QED BY <1>1, <1>2, <1>3, <1>4, <1>5 DEF Next, Handler

LEMMA StepAfterAbort ==
  ASSUME Control, Next, aborted
  PROVE  alive' \subseteq alive
<1>1. ASSUME NEW st \in Steps, Handler(st)
      PROVE  alive' \subseteq alive
  BY <1>1, HandlerAfterAbort
<1>2. CASE \E a \in Attempts : RunnerExits(a)
  BY <1>2 DEF RunnerExits
<1>3. CASE Abort \/ Reopen \/ Finished
  BY <1>3 DEF Abort, Reopen, Finished, vars
<1> QED BY <1>1, <1>2, <1>3 DEF Next, Handler

\* Every state is typed, though writes fail at any row and the run may be opened again.
THEOREM TypeCorrect == Spec => []TypeOK
<1>1. Control => TypeOK
  BY DEF Control
<1> QED BY <1>1, ControlInitially, ControlInvariant, PTL DEF Spec

\* The first of result, error, abort and deadline decides an attempt (agent-step.ts):
\* nothing that arrives during a write or a cleanup overwrites it.
THEOREM FirstDecides == Spec => FirstTerminalDecides
<1>1. Control /\ [Next]_vars =>
        [\A st \in Steps :
           term[st] # "none" /\ att'[st] = att[st] /\ pc'[st] \notin Returned =>
             term'[st] = term[st]]_vars
  BY StepDecides
<1> QED
  BY <1>1, ControlInitially, ControlInvariant, PTL DEF Spec, FirstTerminalDecides

\* After the abort no runner is started, however late the abort met the start of an
\* attempt.
THEOREM AbortStartsNothing == Spec => NoRunnerAfterAbort
<1>1. Control /\ [Next]_vars => [aborted => alive' \subseteq alive]_vars
  BY StepAfterAbort
<1> QED
  BY <1>1, ControlInitially, ControlInvariant, PTL DEF Spec, NoRunnerAfterAbort

-----------------------------------------------------------------------------
(* The log beside the control.                                             *)

\* What the log says of a step and of an attempt.
Row(s, st) == IF st \in DOMAIN s.steps THEN s.steps[st].status ELSE "none"
Try(s, a) == IF a \in DOMAIN s.attempts THEN s.attempts[a].status ELSE "none"
HasGate(s, st) == \E g \in DOMAIN s.gates : s.gates[g].step = st
TriesOver(s, st) == Try(s, <<st, 1>>) # "running" /\ Try(s, <<st, 2>>) # "running"

\* Until the run is opened again, a step's rows are where its control is.
InLog(st) ==
  /\ pc[st] \in Unstarted => Row(state, st) = "none"
  /\ pc[st] \notin Unstarted \cup Returned => Row(state, st) = "running"
  /\ att[st] = 1 => Try(state, <<st, 2>>) = "none"
  /\ att[st] = 2 => Try(state, <<st, 1>>) = "failed"
  /\ pc[st] \in Fresh => Try(state, Id(st)) = "none"
  /\ pc[st] \in Underway => Try(state, Id(st)) = "running"
  /\ pc[st] \in {"output", "repair"} => Try(state, Id(st)) = "failed"
  /\ pc[st] = "close" =>
       \/ Try(state, Id(st)) = AttemptOutcome(term[st])
       \/ Try(state, Id(st)) = "none" /\ term[st] = "aborted"
  /\ pc[st] \notin Returned => ~HasGate(state, st)
  /\ err[st] = "write" => faults[st] >= 1
  /\ pc[st] = "catch" => Failures(st) >= 1 /\ (TriesOver(state, st) \/ Failures(st) >= 2)
  /\ pc[st] \in Returned =>
       \/ Row(state, st) # "running" /\ TriesOver(state, st)
       \/ Failures(st) >= 2

\* What the log says of a step that returned, whatever happened to the run since.
Returns(st) ==
  LET step == Row(state, st)
      last == Try(state, Id(st))
      gated == Gated(state, st)
  IN /\ att[st] = 1 => Try(state, <<st, 2>>) = "none"
     /\ att[st] = 2 => Try(state, <<st, 1>>) = "failed"
     /\ \/ step = "succeeded" /\ last = "succeeded" /\ ~gated
        \/ step = "failed" /\ last \in {"cancelled", "none"} /\ ~gated /\ aborted
        \/ step = "failed" /\ last \in {"failed", "timed_out"} /\ gated
        \/ step = "escalated" /\ att[st] = 2 /\ last = "failed" /\ gated

LogInv ==
  /\ ~stale => \A st \in Steps : InLog(st)
  /\ \A st \in Steps : pc[st] = "done" => Returns(st)

SameMaps(s, t) == t.steps = s.steps /\ t.attempts = s.attempts /\ t.gates = s.gates
SameView(s, t, st) ==
  /\ Row(t, st) = Row(s, st)
  /\ \A k \in {1, 2} : Try(t, <<st, k>>) = Try(s, <<st, k>>)
  /\ HasGate(t, st) <=> HasGate(s, st)
  /\ Gated(t, st) <=> Gated(s, st)

LEMMA MapsGiveView ==
  ASSUME NEW s, NEW t, SameMaps(s, t), NEW st
  PROVE  SameView(s, t, st)
BY DEF SameMaps, SameView, Row, Try, HasGate, Gated

LEMMA InGivesView ==
  ASSUME NEW s, NEW t, NEW st, SameIn(s, t, st)
  PROVE  SameView(s, t, st)
<1>1. Row(t, st) = Row(s, st)
  BY DEF SameIn, Row
<1>2. ASSUME NEW k \in {1, 2}
      PROVE  Try(t, <<st, k>>) = Try(s, <<st, k>>)
  <2> DEFINE a == <<st, k>>
  <2>1. a[1] = st
    OBVIOUS
  <2> HIDE DEF a
  <2>2. Try(t, a) = Try(s, a)
    BY <2>1 DEF SameIn, Try
  <2> QED BY <2>2 DEF a
<1>3. HasGate(t, st) <=> HasGate(s, st)
  BY DEF SameIn, HasGate
<1>4. Gated(t, st) <=> Gated(s, st)
  BY DEF SameIn, Gated
<1> QED BY <1>1, <1>2, <1>3, <1>4 DEF SameView

\* What one row changes in its step's view.
LEMMA RowView ==
  ASSUME NEW s, NEW st, NEW e, OfStep(e, st), Legal(s, e), NEW t, t = Reduce(s, e)
  PROVE  /\ t.status = "active"
         /\ e.type = "step.started" => Row(t, st) = "running"
         /\ e.type = "step.finished" => Row(t, st) = e.outcome
         /\ e.type \notin {"step.started", "step.finished"} => t.steps = s.steps
         /\ e.type = "attempt.started" => Try(t, e.attempt) = "running"
         /\ e.type = "attempt.finished" => Try(t, e.attempt) = e.outcome
         /\ e.type \in {"attempt.started", "attempt.finished"} =>
              \A a : a # e.attempt => Try(t, a) = Try(s, a)
         /\ e.type \notin {"attempt.started", "attempt.finished"} => t.attempts = s.attempts
         /\ e.type # "gate.raised" => t.gates = s.gates
         /\ e.type = "gate.raised" => Gated(t, st)
<1>1. /\ t.status = "active"
      /\ e.type = "step.started" => Row(t, st) = "running"
      /\ e.type = "step.finished" => Row(t, st) = e.outcome
      /\ e.type \notin {"step.started", "step.finished"} => t.steps = s.steps
  BY StepRow DEF Row
<1>2. /\ e.type = "attempt.started" => Try(t, e.attempt) = "running"
      /\ e.type = "attempt.finished" => Try(t, e.attempt) = e.outcome
      /\ e.type \in {"attempt.started", "attempt.finished"} =>
           \A a : a # e.attempt => Try(t, a) = Try(s, a)
      /\ e.type \notin {"attempt.started", "attempt.finished"} => t.attempts = s.attempts
  BY AttemptRow DEF Try
<1>3. /\ e.type # "gate.raised" => t.gates = s.gates
      /\ e.type = "gate.raised" => Gated(t, st)
  BY GateRow DEF Gated
<1> QED BY <1>1, <1>2, <1>3

\* Rows the step's view does not show: a batch of one of them repeated.
LEMMA QuietBatch ==
  ASSUME NEW s, s.status = "active", NEW st, NEW e \in EventBodies, OfStep(e, st), Legal(s, e),
         e.type \in {"attempt.event", "artifact.recorded"},
         NEW b \in Seq(EventBodies), \A i \in 1..Len(b) : b[i] = e
  PROVE  LegalBatch(s, b) /\ SameMaps(s, ReduceBatch(s, b))
<1> DEFINE f == Folded(s, b)
           S == {i \in 0..Len(b) : f[i].status = "active" /\ SameMaps(s, f[i])}
<1>0. Len(b) \in Nat
  OBVIOUS
<1>1. f[0] = s /\ \A i \in 1..Len(b) : f[i] = Reduce(f[i - 1], b[i])
  BY <1>0, FoldedIs
<1> HIDE DEF f
<1>2. ASSUME NEW t, t.status = "active", SameMaps(s, t)
      PROVE  Legal(t, e)
  BY <1>2 DEF Legal, SameMaps, RunningAttempt
<1>a. ASSUME NEW t, t.status = "active", SameMaps(s, t), NEW u, u = Reduce(t, e)
      PROVE  u.status = "active" /\ SameMaps(s, u)
  <2>1. Legal(t, e)
    BY <1>2, <1>a
  <2>2. /\ e.type \notin {"step.started", "step.finished"}
        /\ e.type \notin {"attempt.started", "attempt.finished"}
        /\ e.type # "gate.raised"
    OBVIOUS
  <2>3. u.status = "active" /\ u.steps = t.steps
    BY <1>a, <2>1, <2>2, StepRow
  <2>4. u.attempts = t.attempts
    BY <1>a, <2>1, <2>2, AttemptRow
  <2>5. u.gates = t.gates
    BY <1>a, <2>1, <2>2, GateRow
  <2> QED BY <1>a, <2>3, <2>4, <2>5 DEF SameMaps
<1>3. 0 \in S
  BY <1>0, <1>1 DEF SameMaps
<1>4. ASSUME NEW i \in 0..Len(b), i < Len(b), i \in S
      PROVE  i + 1 \in S
  <2>1. i + 1 \in 1..Len(b) /\ (i + 1) - 1 = i /\ i + 1 \in 0..Len(b)
    BY <1>0, <1>4
  <2>2. f[i + 1] = Reduce(f[i], e)
    BY <2>1, <1>1
  <2>3. f[i].status = "active" /\ SameMaps(s, f[i]) /\ Legal(f[i], e)
    BY <1>2, <1>4
  <2>4. f[i + 1].status = "active" /\ SameMaps(s, f[i + 1])
    BY <1>a, <2>2, <2>3
  <2> QED BY <2>1, <2>4
<1> HIDE DEF S
<1>5. \A i \in 0..Len(b) : i \in S
  BY <1>0, <1>3, <1>4, UpTo
<1>6. Len(b) \in 0..Len(b) /\ \A i \in 1..Len(b) : i - 1 \in 0..Len(b)
  BY <1>0
<1>7. \A i \in 1..Len(b) : Legal(f[i - 1], b[i])
  BY <1>2, <1>5, <1>6 DEF S
<1>8. LegalBatch(s, b)
  BY <1>7, LegalBatchIs DEF f
<1> QED BY <1>5, <1>6, <1>8 DEF S, f, ReduceBatch

\* A state that resolves a write: what the batch leaves, without what nothing reads.
LEMMA WrittenMaps ==
  ASSUME TypeOK, SoundLog(state), NEW st \in Steps, Written(st)
  PROVE  /\ SameMaps(ReduceBatch(state, Batch(st)), state')
         /\ LegalBatch(state, Batch(st)) /\ faults' = faults
         /\ stale => Batch(st) = <<>>
<1> DEFINE b == Batch(st)
           t == ReduceBatch(state, b)
           u == state'
<1>1. u = [t EXCEPT !.lastSeq = 0, !.artifacts = {}] /\ LegalBatch(state, b)
      /\ faults' = faults /\ (stale => b = <<>>)
  BY DEF Written, Rows
<1>2. IsBatchOf(b, st)
  BY BatchTypedOf
<1> HIDE DEF b
<1>3. SoundLog(t)
  BY <1>1, <1>2, BatchElsewhere
<1> HIDE DEF t, u
<1>4. SameMaps(t, u)
  BY <1>1, <1>3, Forgotten DEF SameMaps
<1> QED BY <1>1, <1>4 DEF t, u, b

LEMMA ViewTyped ==
  ASSUME NEW s, IsRunState(s), NEW st, NEW a
  PROVE  /\ Row(s, st) \in {"none", "running"} \cup StepOutcomes
         /\ Row(s, st) = "none" <=> st \notin DOMAIN s.steps
         /\ Row(s, st) = "running" <=> RunningStep(s, st)
         /\ Try(s, a) \in {"none", "running"} \cup AttemptOutcomes
         /\ Try(s, a) = "none" <=> a \notin DOMAIN s.attempts
         /\ Try(s, a) = "running" <=> RunningAttempt(s, a)
<1>1. \A x \in DOMAIN s.steps : s.steps[x].status \in {"running"} \cup StepOutcomes
  <2>1. \A r \in StepRecords : r.status \in {"running"} \cup StepOutcomes
    BY DEF StepRecords
  <2> QED BY <2>1 DEF IsRunState, IsMap
<1>2. \A x \in DOMAIN s.attempts : s.attempts[x].status \in {"running"} \cup AttemptOutcomes
  <2>1. \A r \in AttemptRecords : r.status \in {"running"} \cup AttemptOutcomes
    BY DEF AttemptRecords
  <2> QED BY <2>1 DEF IsRunState, IsMap
<1>3. "none" \notin {"running"} \cup StepOutcomes /\ "none" \notin {"running"} \cup AttemptOutcomes
  BY DEF StepOutcomes, AttemptOutcomes
<1>4. /\ Row(s, st) \in {"none", "running"} \cup StepOutcomes
      /\ Row(s, st) = "none" <=> st \notin DOMAIN s.steps
      /\ Row(s, st) = "running" <=> RunningStep(s, st)
  BY <1>1, <1>3 DEF Row, RunningStep
<1>5. /\ Try(s, a) \in {"none", "running"} \cup AttemptOutcomes
      /\ Try(s, a) = "none" <=> a \notin DOMAIN s.attempts
      /\ Try(s, a) = "running" <=> RunningAttempt(s, a)
  BY <1>2, <1>3 DEF Try, RunningAttempt
<1> QED BY <1>4, <1>5

LEMMA TriesOverIs ==
  ASSUME NEW s, SoundLog(s), NEW st \in Steps
  PROVE  TriesOver(s, st) <=> ~Busy(s, st)
<1>1. IsRunState(s) /\ DOMAIN s.attempts \subseteq Attempts
      /\ \A a \in DOMAIN s.attempts : s.attempts[a].step = a[1]
  BY DEF SoundLog, IsRunState, IsMap
<1>2. /\ Try(s, <<st, 1>>) = "running" <=> RunningAttempt(s, <<st, 1>>)
      /\ Try(s, <<st, 2>>) = "running" <=> RunningAttempt(s, <<st, 2>>)
  BY <1>1, ViewTyped
<1>3. ASSUME Busy(s, st)
      PROVE  RunningAttempt(s, <<st, 1>>) \/ RunningAttempt(s, <<st, 2>>)
  <2>1. PICK a \in DOMAIN s.attempts : s.attempts[a].step = st /\ s.attempts[a].status = "running"
    BY <1>3 DEF Busy
  <2>2. a \in Steps \X {1, 2} /\ a[1] = st
    BY <1>1, <2>1, AgentStepAssumption
  <2>3. a = <<st, 1>> \/ a = <<st, 2>>
    BY <2>2
  <2> QED BY <2>1, <2>3 DEF RunningAttempt
<1>4. ASSUME NEW k \in {1, 2}, RunningAttempt(s, <<st, k>>)
      PROVE  Busy(s, st)
  <2> DEFINE a == <<st, k>>
  <2>1. a[1] = st
    OBVIOUS
  <2> HIDE DEF a
  <2>2. RunningAttempt(s, a)
    BY <1>4 DEF a
  <2> QED BY <1>1, <2>1, <2>2 DEF Busy, RunningAttempt
<1> QED BY <1>2, <1>3, <1>4 DEF TriesOver

\* Where a step closes, its attempts are over.
LEMMA ClosingTries ==
  ASSUME TypeOK, NEW st \in Steps, InLog(st), pc[st] \in {"close", "output", "repair"}
  PROVE  TriesOver(state, st)
<1>1. term[st] \in Terminals /\ (att[st] = 1 \/ att[st] = 2) /\ Id(st) = <<st, att[st]>>
  BY DEF TypeOK, Id
<1>2. AttemptOutcome(term[st]) # "running"
  BY <1>1 DEF AttemptOutcome, Terminals
<1>3. Try(state, Id(st)) # "running"
  BY <1>2 DEF InLog
<1> QED BY <1>1, <1>3 DEF InLog, TriesOver

\* What a step asks for where it stands, the reducer takes, but for the last try of a
\* step whose attempt could not be finished.
LEMMA WritesAreLegal ==
  ASSUME Control, ~stale, NEW st \in Steps, InLog(st),
         pc[st] = "catch" => TriesOver(state, st)
  PROVE  LegalBatch(state, Batch(st))
<1> DEFINE s == state
<1>0. /\ TypeOK /\ SoundLog(s) /\ OnlyEscalations(s) /\ s.status = "active" /\ IsRunState(s)
  BY DEF Control, SoundLog
<1>1. /\ Row(s, st) = "none" <=> st \notin DOMAIN s.steps
      /\ Row(s, st) = "running" <=> RunningStep(s, st)
      /\ Try(s, Id(st)) = "none" <=> Id(st) \notin DOMAIN s.attempts
      /\ Try(s, Id(st)) = "running" <=> RunningAttempt(s, Id(st))
  BY <1>0, ViewTyped
<1>2. CASE pc[st] = "start"
  <2>1. Batch(st) = <<StepStarted(st)>>
    BY <1>2 DEF Batch
  <2>2. Legal(s, StepStarted(st))
    BY <1>0, <1>1, <1>2 DEF Legal, StepStarted, InLog, Unstarted
  <2> QED BY <2>1, <2>2, OneBody
<1>3. CASE pc[st] = "begin"
  <2>1. Batch(st) = <<AttemptStarted(Id(st), st)>>
    BY <1>3 DEF Batch
  <2>2. Legal(s, AttemptStarted(Id(st), st))
    BY <1>0, <1>1, <1>3 DEF Legal, AttemptStarted, InLog, Unstarted, Fresh, Returned
  <2> QED BY <2>1, <2>2, OneBody
<1>4. CASE pc[st] \in {"flush", "last"}
  <2> DEFINE e == AttemptEvent(Id(st))
             b == [i \in 1..pend[st] |-> e]
  <2>1. Batch(st) = b
    BY <1>4 DEF Batch
  <2>2. e \in EventBodies /\ OfStep(e, st) /\ e.type = "attempt.event"
    BY <1>0, BodiesTyped DEF AttemptEvent
  <2>3. Legal(s, e)
    BY <1>0, <1>1, <1>4 DEF Legal, AttemptEvent, InLog, Underway
  <2>4. pend[st] \in Nat
    BY <1>0, AgentStepAssumption DEF TypeOK
  <2> HIDE DEF e
  <2>5. b \in Seq(EventBodies) /\ \A i \in 1..Len(b) : b[i] = e
    BY <2>2, <2>4
  <2> HIDE DEF b
  <2>6. LegalBatch(s, b)
    BY <1>0, <2>2, <2>3, <2>5, QuietBatch
  <2> QED BY <2>1, <2>6
<1>5. CASE pc[st] \in {"capture", "output", "repair"}
  <2>1. Id(st) \in DOMAIN s.attempts
    BY <1>1, <1>5 DEF InLog, Underway
  <2>2. \A x : Legal(s, ArtifactRecorded(x, Id(st)))
    BY <1>0, <2>1 DEF Legal, ArtifactRecorded
  <2> QED BY <1>5, <2>2, OneBody DEF Batch
<1>6. CASE pc[st] \in {"finish", "failing"}
  <2>1. RunningAttempt(s, Id(st))
    BY <1>1, <1>6 DEF InLog, Underway
  <2>2. \A o : Legal(s, AttemptFinished(Id(st), o))
    BY <1>0, <2>1 DEF Legal, AttemptFinished
  <2> QED BY <1>6, <2>2, OneBody DEF Batch
<1>7. CASE pc[st] \in {"close", "catch"}
  <2>1. RunningStep(s, st) /\ ~Busy(s, st)
    BY <1>0, <1>1, <1>7, ClosingTries, TriesOverIs DEF InLog, Unstarted, Returned
  <2>2. \A o : Legal(s, StepFinished(st, o))
    BY <1>0, <2>1 DEF Legal, StepFinished
  <2> DEFINE g == GateRaised(EscalationGate(st), st, "escalation", RecoveryCommands)
             t == Reduce(s, g)
  <2>3. Legal(s, g)
    <3>1. ~HasGate(s, st)
      BY <1>7 DEF InLog, Returned
    <3>2. EscalationGate(st) \notin DOMAIN s.gates
      <4> SUFFICES ASSUME EscalationGate(st) \in DOMAIN s.gates PROVE FALSE
        OBVIOUS
      <4>1. EscalationGate(st) = EscalationGate(s.gates[EscalationGate(st)].step)
        BY <1>0 DEF OnlyEscalations
      <4>2. s.gates[EscalationGate(st)].step = st
        BY <4>1 DEF EscalationGate
      <4> QED BY <3>1, <4>2 DEF HasGate
    <3>3. ReservedIdOK(s, g)
      BY DEF ReservedIdOK, GateRaised, EscalationGate
    <3>4. g.type = "gate.raised" /\ g.gate = EscalationGate(st) /\ g.step = st
      BY DEF GateRaised
    <3> HIDE DEF g
    <3> QED BY <1>0, <2>1, <3>2, <3>3, <3>4 DEF Legal
  <2>4. g \in EventBodies /\ OfStep(g, st) /\ g.type = "gate.raised"
    BY <1>0, BodiesTyped DEF GateRaised
  <2>a. t = Reduce(s, g)
    OBVIOUS
  <2> HIDE DEF g, t
  <2>b. g.type \notin {"step.started", "step.finished"}
        /\ g.type \notin {"attempt.started", "attempt.finished"}
    BY <2>4
  <2>5. t.status = "active" /\ t.steps = s.steps /\ t.attempts = s.attempts
    BY <2>3, <2>4, <2>a, <2>b, StepRow, AttemptRow
  <2>6. \A o : Legal(t, StepFinished(st, o))
    BY <2>1, <2>5 DEF Legal, StepFinished, RunningStep, Busy
  <2>7. \A o : LegalBatch(s, <<g, StepFinished(st, o)>>)
    BY <2>3, <2>6, TwoBodies DEF t
  <2>8. \A o : LegalBatch(s, <<StepFinished(st, o)>>)
    BY <2>2, OneBody
  <2> QED BY <1>7, <2>7, <2>8 DEF Batch, Closing, g
<1>8. CASE pc[st] \notin {"start", "begin", "flush", "last", "capture", "output", "repair",
                          "finish", "failing", "close", "catch"}
  BY <1>8, NoBody DEF Batch
<1> QED BY <1>2, <1>3, <1>4, <1>5, <1>6, <1>7, <1>8

-----------------------------------------------------------------------------
(* What a write that resolves changes in the view of its own step.         *)

LEMMA OneRowWritten ==
  ASSUME TypeOK, SoundLog(state), NEW st \in Steps, Written(st),
         NEW e, OfStep(e, st), Batch(st) = <<e>>
  PROVE  /\ e.type = "step.started" => Row(state', st) = "running"
         /\ e.type = "step.finished" => Row(state', st) = e.outcome
         /\ e.type \notin {"step.started", "step.finished"} => state'.steps = state.steps
         /\ e.type = "attempt.started" => Try(state', e.attempt) = "running"
         /\ e.type = "attempt.finished" => Try(state', e.attempt) = e.outcome
         /\ e.type \in {"attempt.started", "attempt.finished"} =>
              \A a : a # e.attempt => Try(state', a) = Try(state, a)
         /\ e.type \notin {"attempt.started", "attempt.finished"} =>
              state'.attempts = state.attempts
         /\ e.type # "gate.raised" => state'.gates = state.gates
<1> DEFINE t == Reduce(state, e)
<1>0. t = Reduce(state, e)
  OBVIOUS
<1>1. Legal(state, e) /\ SameMaps(t, state')
  BY WrittenMaps, OneBody
<1> HIDE DEF t
<1>2. /\ e.type = "step.started" => Row(t, st) = "running"
      /\ e.type = "step.finished" => Row(t, st) = e.outcome
      /\ e.type \notin {"step.started", "step.finished"} => t.steps = state.steps
  BY <1>0, <1>1, StepRow DEF Row
<1>3. /\ e.type = "attempt.started" => Try(t, e.attempt) = "running"
      /\ e.type = "attempt.finished" => Try(t, e.attempt) = e.outcome
      /\ e.type \in {"attempt.started", "attempt.finished"} =>
           \A a : a # e.attempt => Try(t, a) = Try(state, a)
      /\ e.type \notin {"attempt.started", "attempt.finished"} => t.attempts = state.attempts
  BY <1>0, <1>1, AttemptRow DEF Try
<1>4. e.type # "gate.raised" => t.gates = state.gates
  BY <1>0, <1>1, GateRow
<1>5. Row(state', st) = Row(t, st) /\ \A a : Try(state', a) = Try(t, a)
  BY <1>1 DEF Row, Try, SameMaps
<1> QED BY <1>1, <1>2, <1>3, <1>4, <1>5 DEF SameMaps

\* The rows that tell a step's view nothing, and no row at all.
LEMMA QuietWrites ==
  ASSUME Control, ~stale, NEW st \in Steps, InLog(st), Written(st),
         pc[st] \notin {"start", "begin", "finish", "failing", "close", "catch"}
  PROVE  SameMaps(state, state')
<1>0. TypeOK /\ SoundLog(state) /\ state.status = "active" /\ IsRunState(state)
  BY DEF Control, SoundLog
<1>1. CASE pc[st] \in {"flush", "last"}
  <2> DEFINE e == AttemptEvent(Id(st))
             b == [i \in 1..pend[st] |-> e]
             t == ReduceBatch(state, b)
  <2>1. SameMaps(t, state')
    BY <1>0, <1>1, WrittenMaps DEF Batch
  <2>2. e \in EventBodies /\ OfStep(e, st) /\ e.type = "attempt.event"
    BY <1>0, BodiesTyped DEF AttemptEvent
  <2>3. Legal(state, e)
    <3>1. RunningAttempt(state, Id(st))
      BY <1>0, <1>1, ViewTyped DEF InLog, Underway
    <3> QED BY <1>0, <3>1 DEF Legal, AttemptEvent
  <2>4. pend[st] \in Nat
    BY <1>0, AgentStepAssumption DEF TypeOK
  <2> HIDE DEF e
  <2>5. b \in Seq(EventBodies) /\ \A i \in 1..Len(b) : b[i] = e
    BY <2>2, <2>4
  <2> HIDE DEF b
  <2>6. SameMaps(state, t)
    BY <1>0, <2>2, <2>3, <2>5, QuietBatch
  <2> QED BY <2>1, <2>6 DEF SameMaps
<1>2. CASE pc[st] \in {"capture", "output", "repair"}
  <2>1. PICK x \in {"raw", "text"} : Batch(st) = <<ArtifactRecorded(x, Id(st))>>
    BY <1>2 DEF Batch
  <2> DEFINE e == ArtifactRecorded(x, Id(st))
  <2>2. e.type = "artifact.recorded" /\ OfStep(e, st)
    BY DEF ArtifactRecorded, OfStep
  <2> HIDE DEF e
  <2>3. Batch(st) = <<e>>
    BY <2>1 DEF e
  <2> QED BY <1>0, <2>2, <2>3, OneRowWritten DEF SameMaps
<1>3. CASE pc[st] \notin {"start", "begin", "flush", "last", "capture", "output", "repair",
                          "finish", "failing", "close", "catch"}
  <2>1. Batch(st) = <<>>
    BY <1>3 DEF Batch
  <2>2. SameMaps(ReduceBatch(state, <<>>), state')
    BY <1>0, <2>1, WrittenMaps
  <2> QED BY <2>2, NoBody
<1> QED BY <1>1, <1>2, <1>3

LEMMA StepWrites ==
  ASSUME Control, ~stale, NEW st \in Steps, Written(st), pc[st] \in {"start", "catch"}
  PROVE  /\ Row(state', st) = IF pc[st] = "start" THEN "running" ELSE "failed"
         /\ state'.attempts = state.attempts /\ state'.gates = state.gates
<1>0. TypeOK /\ SoundLog(state)
  BY DEF Control
<1>1. CASE pc[st] = "start"
  <2> DEFINE e == StepStarted(st)
  <2>1. e.type = "step.started" /\ OfStep(e, st) /\ Batch(st) = <<e>>
    BY <1>1 DEF StepStarted, OfStep, Batch
  <2> HIDE DEF e
  <2> QED BY <1>0, <1>1, <2>1, OneRowWritten
<1>2. CASE pc[st] = "catch"
  <2> DEFINE e == StepFinished(st, "failed")
  <2>1. e.type = "step.finished" /\ OfStep(e, st) /\ Batch(st) = <<e>> /\ e.outcome = "failed"
    BY <1>2 DEF StepFinished, OfStep, Batch
  <2> HIDE DEF e
  <2> QED BY <1>0, <1>2, <2>1, OneRowWritten
<1> QED BY <1>1, <1>2

LEMMA AttemptWrites ==
  ASSUME Control, ~stale, NEW st \in Steps, Written(st), pc[st] \in {"begin", "finish", "failing"}
  PROVE  /\ pc[st] = "begin" => Try(state', Id(st)) = "running"
         /\ pc[st] = "finish" => Try(state', Id(st)) = AttemptOutcome(term[st])
         /\ pc[st] = "failing" => Try(state', Id(st)) = "failed"
         /\ \A a : a # Id(st) => Try(state', a) = Try(state, a)
         /\ state'.steps = state.steps /\ state'.gates = state.gates
<1>0. TypeOK /\ SoundLog(state) /\ Id(st)[1] = st
  BY IdTyped DEF Control
<1>1. CASE pc[st] = "begin"
  <2> DEFINE e == AttemptStarted(Id(st), st)
  <2>1. e.type = "attempt.started" /\ OfStep(e, st) /\ Batch(st) = <<e>> /\ e.attempt = Id(st)
    BY <1>0, <1>1 DEF AttemptStarted, OfStep, Batch
  <2> HIDE DEF e
  <2> QED BY <1>0, <1>1, <2>1, OneRowWritten
<1>2. ASSUME NEW o, Batch(st) = <<AttemptFinished(Id(st), o)>>
      PROVE  /\ Try(state', Id(st)) = o
             /\ \A a : a # Id(st) => Try(state', a) = Try(state, a)
             /\ state'.steps = state.steps /\ state'.gates = state.gates
  <2> DEFINE e == AttemptFinished(Id(st), o)
  <2>1. /\ e.type = "attempt.finished" /\ OfStep(e, st) /\ Batch(st) = <<e>>
        /\ e.attempt = Id(st) /\ e.outcome = o
    BY <1>0, <1>2 DEF AttemptFinished, OfStep
  <2> HIDE DEF e
  <2> QED BY <1>0, <2>1, OneRowWritten
<1>3. CASE pc[st] = "finish"
  BY <1>2, <1>3 DEF Batch
<1>4. CASE pc[st] = "failing"
  BY <1>2, <1>4 DEF Batch
<1> QED BY <1>1, <1>3, <1>4

LEMMA CloseWrites ==
  ASSUME Control, ~stale, NEW st \in Steps, Written(st), pc[st] = "close"
  PROVE  /\ state'.attempts = state.attempts
         /\ term[st] = "valid" => Row(state', st) = "succeeded"
         /\ term[st] = "invalid" => Row(state', st) = "escalated"
         /\ term[st] \notin {"valid", "invalid"} => Row(state', st) = "failed"
         /\ term[st] \in {"valid", "aborted"} => state'.gates = state.gates
         /\ term[st] \notin {"valid", "aborted"} => Gated(state', st)
<1>0. TypeOK /\ SoundLog(state) /\ Batch(st) = Closing(st)
  BY DEF Control, Batch
<1>1. ASSUME NEW o, Batch(st) = <<StepFinished(st, o)>>
      PROVE  Row(state', st) = o /\ state'.attempts = state.attempts /\ state'.gates = state.gates
  <2> DEFINE e == StepFinished(st, o)
  <2>1. e.type = "step.finished" /\ OfStep(e, st) /\ Batch(st) = <<e>> /\ e.outcome = o
    BY <1>1 DEF StepFinished, OfStep
  <2> HIDE DEF e
  <2> QED BY <1>0, <2>1, OneRowWritten
<1>2. CASE term[st] \in {"valid", "aborted"}
  BY <1>0, <1>1, <1>2 DEF Closing
<1>3. CASE term[st] \notin {"valid", "aborted"}
  <2> DEFINE g == GateRaised(EscalationGate(st), st, "escalation", RecoveryCommands)
             o == IF term[st] = "invalid" THEN "escalated" ELSE "failed"
             e == StepFinished(st, o)
             t == Reduce(state, g)
             u == Reduce(t, e)
  <2>1. Batch(st) = <<g, e>>
    BY <1>0, <1>3 DEF Closing
  <2>2. /\ g.type = "gate.raised" /\ OfStep(g, st)
        /\ e.type = "step.finished" /\ OfStep(e, st) /\ e.outcome = o
    BY DEF GateRaised, StepFinished, OfStep
  <2>3. t = Reduce(state, g) /\ u = Reduce(t, e)
    OBVIOUS
  <2>4. Legal(state, g) /\ Legal(t, e) /\ SameMaps(u, state')
    BY <1>0, <2>1, WrittenMaps, TwoBodies
  <2> HIDE DEF g, e, t, u
  <2>5. t.attempts = state.attempts /\ Gated(t, st)
    BY <2>2, <2>3, <2>4, AttemptRow, GateRow DEF Gated
  <2>6. u.attempts = t.attempts /\ u.gates = t.gates /\ Row(u, st) = o
    BY <2>2, <2>3, <2>4, AttemptRow, GateRow, StepRow DEF Row
  <2>7. state'.attempts = state.attempts /\ Gated(state', st) /\ Row(state', st) = o
    BY <2>4, <2>5, <2>6 DEF SameMaps, Gated, Row
  <2> QED BY <1>3, <2>7
<1> QED BY <1>2, <1>3

-----------------------------------------------------------------------------
(* A handler keeps its own step's rows in place.                           *)

LEMMA RefusedCounts ==
  ASSUME Control, ~stale, NEW st \in Steps, InLog(st), Refused(st)
  PROVE  /\ state' = state
         /\ pc[st] # "catch" \/ TriesOver(state, st) => faults'[st] = faults[st] + 1
         /\ faults'[st] \in {faults[st], faults[st] + 1}
<1>1. st \in DOMAIN faults
  BY DEF Control, TypeOK
<1>2. pc[st] # "catch" \/ TriesOver(state, st) => LegalBatch(state, Batch(st))
  BY WritesAreLegal
<1> QED BY <1>1, <1>2 DEF Refused

\* Where nothing is written: the place, and what is remembered of the attempt.
LEMMA OwnQuietLog ==
  ASSUME Control, ~stale, NEW st \in Steps, InLog(st),
         Call(st) \/ Acquire(st) \/ Admit(st) \/ Run(st) \/ Receive(st) \/ EndStream(st)
           \/ Cleanup(st) \/ Deadline(st)
  PROVE  InLog(st)' /\ pc'[st] # "done"
<1>0. /\ TypeOK /\ Permits /\ Ordered(st) /\ att[st] \in {1, 2} /\ err \in [Steps -> {"none", "runner", "write"}]
      /\ pc \in [Steps -> PCs] /\ term \in [Steps -> Terminals]
  BY DEF Control, TypeOK
<1>1. state' = state /\ faults' = faults /\ att' = att
  BY DEF Call, Acquire, Admit, Run, Receive, EndStream, Cleanup, Deadline, watch
<1>2. CASE Call(st)
  <2>1. pc[st] = "idle" /\ pc'[st] = "start" /\ err' = err
    BY <1>0, <1>2 DEF Call, Goto, watch
  <2> QED BY <1>1, <2>1 DEF InLog, Id, Failures, Unstarted, Fresh, Undecided, Underway, Returned
<1>3. CASE Acquire(st)
  <2>1. pc[st] = "acquire" /\ pc'[st] \in {"granted", "queued"} /\ err' = err
    BY <1>0, <1>3 DEF Acquire, Goto, watch
  <2> QED BY <1>1, <2>1 DEF InLog, Id, Failures, Unstarted, Fresh, Undecided, Underway, Returned
<1>4. CASE Admit(st)
  <2>1. /\ pc[st] = "granted" /\ err' = err
        /\ pc'[st] = "begin" \/ (pc'[st] = "close" /\ term'[st] = "aborted")
    BY <1>0, <1>4, GotoMoves, ReleaseMoves DEF Admit, PCs
  <2> QED BY <1>1, <2>1 DEF InLog, Id, Failures, Unstarted, Fresh, Undecided, Underway, Returned
<1>5. CASE Run(st)
  <2>1. pc[st] = "run" /\ pc'[st] \in {"stream", "last"} /\ err' = err
    BY <1>0, <1>5 DEF Run, Goto, watch
  <2> QED BY <1>1, <2>1 DEF InLog, Id, Failures, Unstarted, Fresh, Undecided, Underway, Returned
<1>6. CASE Receive(st)
  <2>1. pc[st] = "stream" /\ pc'[st] \in {"stream", "flush"} /\ err' = err
    BY <1>0, <1>6 DEF Receive, Goto
  <2> QED BY <1>1, <2>1 DEF InLog, Id, Failures, Unstarted, Fresh, Undecided, Underway, Returned
<1>7. CASE EndStream(st)
  <2>1. /\ pc[st] = "stream" /\ pc'[st] = "cleanup"
        /\ err'[st] = err[st] \/ err'[st] = "runner"
    BY <1>0, <1>7 DEF EndStream, Goto
  <2> QED BY <1>1, <2>1 DEF InLog, Id, Failures, Unstarted, Fresh, Undecided, Underway, Returned
<1>8. CASE Cleanup(st)
  <2>1. /\ pc[st] = "cleanup" /\ pc'[st] = "last"
        /\ err'[st] = err[st] \/ err'[st] = "runner"
    BY <1>0, <1>8 DEF Cleanup, Goto
  <2> QED BY <1>1, <2>1 DEF InLog, Id, Failures, Unstarted, Fresh, Undecided, Underway, Returned
<1>9. CASE Deadline(st)
  <2>1. pc[st] \in Watched /\ pc' = pc /\ err' = err
    BY <1>9 DEF Deadline
  <2> QED BY <1>1, <2>1 DEF InLog, Id, Failures, Watched, Unstarted, Fresh, Undecided, Underway, Returned
<1> QED BY <1>2, <1>3, <1>4, <1>5, <1>6, <1>7, <1>8, <1>9

\* What the invariant says of the values a step works with.
LEMMA KindsOf ==
  ASSUME Control, NEW st \in Steps
  PROVE  /\ TypeOK /\ SoundLog(state) /\ Permits /\ Ordered(st)
         /\ pc \in [Steps -> PCs] /\ att \in [Steps -> {1, 2}] /\ att[st] \in {1, 2}
         /\ err \in [Steps -> {"none", "runner", "write"}]
         /\ term \in [Steps -> Terminals] /\ term[st] \in Terminals
         /\ faults[st] \in Nat
<1>1. TypeOK /\ SoundLog(state) /\ Permits /\ Ordered(st)
  BY DEF Control
<1>2. /\ pc \in [Steps -> PCs] /\ att \in [Steps -> {1, 2}]
      /\ err \in [Steps -> {"none", "runner", "write"}] /\ term \in [Steps -> Terminals]
      /\ faults[st] \in 0..MaxFaults[st]
  BY <1>1 DEF TypeOK
<1>3. MaxFaults[st] \in Nat
  BY AgentStepAssumption
<1> QED BY <1>1, <1>2, <1>3

\* Where an event, an artifact or nothing is written.
LEMMA OwnRecordedLog ==
  ASSUME Control, ~stale, NEW st \in Steps, InLog(st),
         Flush(st) \/ LastFlush(st) \/ Capture(st) \/ Output(st) \/ Repair(st)
  PROVE  InLog(st)' /\ pc'[st] # "done"
<1>0. /\ TypeOK /\ Permits /\ Ordered(st) /\ att \in [Steps -> {1, 2}]
      /\ err \in [Steps -> {"none", "runner", "write"}]
      /\ pc \in [Steps -> PCs] /\ term \in [Steps -> Terminals] /\ faults[st] \in Nat
  BY KindsOf
<1>a. term[st] = "invalid" => AttemptOutcome(term[st]) = "failed"
  BY DEF AttemptOutcome
<1>1. pc[st] \in {"flush", "last", "capture", "output", "repair"}
  BY DEF Flush, LastFlush, Capture, Output, Repair
<1>2. ASSUME Written(st)
      PROVE  SameMaps(state, state') /\ faults' = faults
  BY <1>0, <1>1, <1>2, QuietWrites, WrittenMaps DEF Control
<1>3. ASSUME Refused(st)
      PROVE  state' = state /\ faults'[st] = faults[st] + 1
  BY <1>1, <1>3, RefusedCounts
<1>4. SameView(state, state', st) /\ (faults'[st] = faults[st] \/ faults'[st] = faults[st] + 1)
  <2>1. SameMaps(state, state') /\ (faults'[st] = faults[st] \/ faults'[st] = faults[st] + 1)
    BY <1>2, <1>3 DEF Flush, LastFlush, Capture, Output, Repair, SameMaps
  <2> QED BY <2>1, MapsGiveView
<1>5. /\ Row(state', st) = Row(state, st)
      /\ Try(state', <<st, 1>>) = Try(state, <<st, 1>>)
      /\ Try(state', <<st, 2>>) = Try(state, <<st, 2>>)
      /\ HasGate(state', st) <=> HasGate(state, st)
      /\ Try(state', Id(st)) = Try(state, Id(st))
  BY <1>0, <1>4 DEF SameView, Id
<1>6. CASE Flush(st)
  <2>1. /\ pc[st] = "flush" /\ pc'[st] \in {"stream", "cleanup"} /\ att' = att
        /\ err' = err \/ (err'[st] = "write" /\ Refused(st))
    BY <1>0, <1>6 DEF Flush, Goto
  <2> QED BY <1>0, <1>3, <1>4, <1>5, <2>1
      DEF InLog, Id, Failures, Unstarted, Fresh, Undecided, Underway, Returned
<1>7. CASE LastFlush(st)
  <2>1. /\ pc[st] = "last" /\ pc'[st] = "capture" /\ att' = att
        /\ err' = err \/ (err'[st] = "write" /\ Refused(st))
    BY <1>0, <1>7 DEF LastFlush, Goto
  <2> QED BY <1>0, <1>3, <1>4, <1>5, <2>1
      DEF InLog, Id, Failures, Unstarted, Fresh, Undecided, Underway, Returned
<1>8. CASE Capture(st)
  <2>1. pc[st] = "capture" /\ pc'[st] \in {"failing", "finish"} /\ att' = att /\ err' = err
    BY <1>0, <1>8 DEF Capture, Goto, watch
  <2> QED BY <1>0, <1>3, <1>4, <1>5, <2>1
      DEF InLog, Id, Failures, Unstarted, Fresh, Undecided, Underway, Returned
<1>9. CASE Output(st)
  <2>1. /\ pc[st] = "output" /\ att' = att /\ err' = err /\ term' = term /\ term[st] = "invalid"
        /\ \/ pc'[st] \in {"repair", "close"}
           \/ pc'[st] = "catch" /\ faults'[st] = faults[st] + 1
    BY <1>0, <1>3, <1>9 DEF Output, Goto, watch, Ordered
  <2>2. TriesOver(state, st)
    BY <1>0, <2>1, ClosingTries
  <2> QED BY <1>0, <1>a, <1>4, <1>5, <2>1, <2>2
      DEF InLog, Id, Failures, Unstarted, Fresh, Undecided, Underway, Returned, TriesOver
<1>10. CASE Repair(st)
  <2>1. /\ pc[st] = "repair" /\ err' = err /\ att[st] = 1
        /\ \/ pc'[st] = "acquire" /\ att'[st] = 2
           \/ pc'[st] = "catch" /\ faults'[st] = faults[st] + 1 /\ att'[st] = 1
    BY <1>0, <1>3, <1>10 DEF Repair, Goto, Ordered, Unstarted
  <2>2. TriesOver(state, st)
    BY <1>0, <2>1, ClosingTries
  <2> QED BY <1>0, <1>4, <1>5, <2>1, <2>2
      DEF InLog, Id, Failures, Unstarted, Fresh, Undecided, Underway, Returned, TriesOver
<1> QED BY <1>6, <1>7, <1>8, <1>9, <1>10

LEMMA OwnStartLog ==
  ASSUME Control, ~stale, NEW st \in Steps, InLog(st), Start(st) \/ Begin(st)
  PROVE  InLog(st)' /\ pc'[st] # "done"
<1>0. /\ TypeOK /\ SoundLog(state) /\ Permits /\ att' = att /\ err' = err /\ att[st] \in {1, 2}
      /\ pc \in [Steps -> PCs] /\ faults[st] \in Nat
      /\ Id(st) = <<st, att[st]>> /\ Id(st)' = Id(st)
  <2>1. att' = att /\ err' = err
    BY DEF Start, Begin, watch
  <2> QED BY <2>1, KindsOf DEF Id
<1>1. CASE Start(st)
  <2>1. /\ pc[st] = "start"
        /\ \/ Written(st) /\ pc'[st] = "acquire"
           \/ Refused(st) /\ pc'[st] = "threw"
    BY <1>0, <1>1 DEF Start, Goto
  <2>2. CASE Written(st) /\ pc'[st] = "acquire"
    <3>1. /\ pc'[st] = "acquire" /\ faults' = faults /\ Row(state', st) = "running"
          /\ state'.attempts = state.attempts /\ state'.gates = state.gates
      BY <1>0, <2>1, <2>2, StepWrites, WrittenMaps
    <3>2. (\A a : Try(state', a) = Try(state, a)) /\ (HasGate(state', st) <=> HasGate(state, st))
      BY <3>1 DEF Try, HasGate
    <3> QED BY <1>0, <2>1, <3>1, <3>2
        DEF InLog, Failures, Unstarted, Fresh, Undecided, Underway, Returned
  <2>3. CASE Refused(st) /\ pc'[st] = "threw"
    <3>1. state' = state /\ faults'[st] \in {faults[st], faults[st] + 1}
      BY <2>3, RefusedCounts
    <3> QED BY <1>0, <2>1, <2>3, <3>1
        DEF InLog, Failures, Unstarted, Fresh, Undecided, Underway, Returned, TriesOver
  <2> QED BY <2>1, <2>2, <2>3
<1>2. CASE Begin(st)
  <2>1. /\ pc[st] = "begin"
        /\ \/ Written(st) /\ pc'[st] = "run"
           \/ Refused(st) /\ pc'[st] = "catch"
    BY <1>0, <1>2, GotoMoves, ReleaseMoves DEF Begin, PCs
  <2>2. CASE Written(st) /\ pc'[st] = "run"
    <3>1. /\ faults' = faults /\ Try(state', Id(st)) = "running"
          /\ \A a : a # Id(st) => Try(state', a) = Try(state, a)
          /\ state'.steps = state.steps /\ state'.gates = state.gates
      BY <1>0, <2>1, <2>2, AttemptWrites, WrittenMaps
    <3>2. (Row(state', st) = Row(state, st)) /\ (HasGate(state', st) <=> HasGate(state, st))
      BY <3>1 DEF Row, HasGate
    <3> QED BY <1>0, <2>1, <2>2, <3>1, <3>2
        DEF InLog, Failures, Unstarted, Fresh, Undecided, Underway, Returned
  <2>3. CASE Refused(st) /\ pc'[st] = "catch"
    <3>1. state' = state /\ faults'[st] = faults[st] + 1
      BY <2>1, <2>3, RefusedCounts
    <3> QED BY <1>0, <2>1, <2>3, <3>1
        DEF InLog, Failures, Unstarted, Fresh, Undecided, Underway, Returned, TriesOver
  <2> QED BY <2>1, <2>2, <2>3
<1> QED BY <1>1, <1>2

LEMMA OwnFinishLog ==
  ASSUME Control, ~stale, NEW st \in Steps, InLog(st), Finish(st) \/ Failing(st)
  PROVE  InLog(st)' /\ pc'[st] # "done"
<1>0. /\ TypeOK /\ SoundLog(state) /\ Permits /\ Ordered(st) /\ att' = att /\ term' = term
      /\ att[st] \in {1, 2} /\ pc \in [Steps -> PCs] /\ err \in [Steps -> {"none", "runner", "write"}]
      /\ faults[st] \in Nat /\ Id(st) = <<st, att[st]>> /\ Id(st)' = Id(st)
      /\ term[st] \in Terminals
  <2>1. att' = att /\ term' = term
    BY DEF Finish, Failing, watch
  <2> QED BY <2>1, KindsOf DEF Id
<1>a. /\ AttemptOutcome(term[st]) # "running"
      /\ term[st] = "invalid" => AttemptOutcome(term[st]) = "failed"
  BY <1>0 DEF AttemptOutcome, Terminals
<1>1. pc[st] \in {"finish", "failing"}
  BY DEF Finish, Failing
<1>2. ASSUME Written(st)
      PROVE  /\ faults' = faults
             /\ pc[st] = "finish" => Try(state', Id(st)) = AttemptOutcome(term[st])
             /\ pc[st] = "failing" => Try(state', Id(st)) = "failed"
             /\ \A a : a # Id(st) => Try(state', a) = Try(state, a)
             /\ Row(state', st) = Row(state, st)
             /\ HasGate(state', st) <=> HasGate(state, st)
  <2>1. /\ pc[st] = "finish" => Try(state', Id(st)) = AttemptOutcome(term[st])
        /\ pc[st] = "failing" => Try(state', Id(st)) = "failed"
        /\ \A a : a # Id(st) => Try(state', a) = Try(state, a)
        /\ state'.steps = state.steps /\ state'.gates = state.gates /\ faults' = faults
    BY <1>0, <1>1, <1>2, AttemptWrites, WrittenMaps
  <2> QED BY <2>1 DEF Row, HasGate
<1>3. ASSUME Refused(st)
      PROVE  state' = state /\ faults'[st] = faults[st] + 1
  BY <1>1, <1>3, RefusedCounts
<1>4. CASE Finish(st)
  <2>1. /\ pc[st] = "finish"
        /\ \/ /\ Written(st) /\ err' = err
              /\ pc'[st] = IF term[st] = "invalid" THEN "output" ELSE "close"
           \/ Refused(st) /\ pc'[st] = "capture" /\ err'[st] = "write"
    BY <1>0, <1>4, GotoMoves, ReleaseMoves DEF Finish, PCs
  <2>2. CASE Written(st) /\ err' = err
             /\ pc'[st] = IF term[st] = "invalid" THEN "output" ELSE "close"
    BY <1>0, <1>a, <1>2, <2>1, <2>2
    DEF InLog, Failures, Unstarted, Fresh, Undecided, Underway, Returned, TriesOver
  <2>3. CASE Refused(st) /\ pc'[st] = "capture" /\ err'[st] = "write"
    BY <1>0, <1>3, <2>1, <2>3
    DEF InLog, Failures, Unstarted, Fresh, Undecided, Underway, Returned, TriesOver
  <2> QED BY <2>1, <2>2, <2>3
<1>5. CASE Failing(st)
  <2>1. /\ pc[st] = "failing" /\ pc'[st] = "catch" /\ err' = err /\ err[st] # "none"
        /\ Written(st) \/ Refused(st)
    BY <1>0, <1>5, GotoMoves, ReleaseMoves DEF Failing, PCs, watch, Ordered
  <2>2. Failures(st) \in Nat /\ Failures(st) >= 1
    <3>1. err[st] = "runner" \/ (err[st] = "write" /\ faults[st] >= 1)
      BY <1>0, <2>1 DEF InLog
    <3> QED BY <1>0, <3>1 DEF Failures
  <2>3. CASE Written(st)
    <3>1. Failures(st)' = Failures(st)
      BY <1>2, <2>1, <2>3 DEF Failures
    <3>2. TriesOver(state', st)
      BY <1>0, <1>2, <2>1, <2>3 DEF InLog, TriesOver
    <3> QED BY <1>0, <1>2, <2>1, <2>2, <2>3, <3>1, <3>2
        DEF InLog, Unstarted, Fresh, Undecided, Underway, Returned
  <2>4. CASE Refused(st)
    <3>1. Failures(st)' = Failures(st) + 1
      BY <1>0, <1>3, <2>1, <2>4 DEF Failures
    <3>2. Failures(st)' >= 2 /\ Failures(st)' >= 1
      BY <2>2, <3>1
    <3> QED BY <1>0, <1>3, <2>1, <2>4, <3>2
        DEF InLog, Unstarted, Fresh, Undecided, Underway, Returned
  <2> QED BY <2>1, <2>3, <2>4
<1> QED BY <1>4, <1>5

\* Until it returns, no gate is a step's own, so none is open for it.
LEMMA NoGateNotGated ==
  ASSUME NEW s, NEW st, ~HasGate(s, st)
  PROVE  ~Gated(s, st)
BY DEF HasGate, Gated

LEMMA OwnCloseLog ==
  ASSUME Control, ~stale, NEW st \in Steps, InLog(st), Close(st)
  PROVE  InLog(st)' /\ (pc'[st] = "done" => Returns(st)')
<1>0. /\ TypeOK /\ SoundLog(state) /\ Ordered(st) /\ att' = att /\ err' = err /\ pc[st] = "close"
      /\ att[st] \in {1, 2} /\ pc \in [Steps -> PCs] /\ faults[st] \in Nat
      /\ Id(st) = <<st, att[st]>> /\ Id(st)' = Id(st) /\ term[st] \in Terminals
      /\ aborted' = aborted
  <2>1. att' = att /\ err' = err /\ pc[st] = "close" /\ aborted' = aborted
    BY DEF Close
  <2> QED BY <2>1, KindsOf DEF Id
<1>1. TriesOver(state, st) /\ ~HasGate(state, st)
  BY <1>0, ClosingTries DEF InLog, Returned
<1>2. \/ Written(st) /\ pc'[st] = "done"
      \/ Refused(st) /\ pc'[st] = "catch"
  BY <1>0 DEF Close, Goto
<1>3. CASE Written(st) /\ pc'[st] = "done"
  <2>1. /\ state'.attempts = state.attempts
        /\ term[st] = "valid" => Row(state', st) = "succeeded"
        /\ term[st] = "invalid" => Row(state', st) = "escalated"
        /\ term[st] \notin {"valid", "invalid"} => Row(state', st) = "failed"
        /\ term[st] \in {"valid", "aborted"} => state'.gates = state.gates
        /\ term[st] \notin {"valid", "aborted"} => Gated(state', st)
        /\ faults' = faults
    BY <1>0, <1>3, CloseWrites, WrittenMaps
  <2>2. \A a : Try(state', a) = Try(state, a)
    BY <2>1 DEF Try
  <2>3. term[st] \in {"valid", "aborted"} => ~Gated(state', st)
    BY <1>1, <2>1 DEF HasGate, Gated
  <2>4. Row(state', st) # "running" /\ TriesOver(state', st)
    BY <1>1, <2>1, <2>2 DEF TriesOver
  <2>5. InLog(st)'
    BY <1>0, <1>3, <2>1, <2>2, <2>4
    DEF InLog, Failures, Unstarted, Fresh, Undecided, Underway, Returned
  <2>6. /\ att[st] = 1 => Try(state', <<st, 2>>) = "none"
        /\ att[st] = 2 => Try(state', <<st, 1>>) = "failed"
        /\ term[st] = "invalid" => att[st] = 2
        /\ term[st] = "aborted" => aborted
        /\ \/ Try(state', Id(st)) = AttemptOutcome(term[st])
           \/ Try(state', Id(st)) = "none" /\ term[st] = "aborted"
    BY <1>0, <2>2 DEF InLog, Ordered
  <2>7. Returns(st)'
    <3> DEFINE step == Row(state', st)
               last == Try(state', Id(st))
               gated == Gated(state', st)
    <3>1. CASE term[st] = "valid"
      <4>1. step = "succeeded" /\ last = "succeeded" /\ ~gated
        BY <2>1, <2>3, <2>6, <3>1 DEF AttemptOutcome
      <4> QED BY <1>0, <2>6, <4>1 DEF Returns
    <3>2. CASE term[st] = "aborted"
      <4>1. step = "failed" /\ last \in {"cancelled", "none"} /\ ~gated /\ aborted
        BY <2>1, <2>3, <2>6, <3>2 DEF AttemptOutcome
      <4> QED BY <1>0, <2>6, <4>1 DEF Returns
    <3>3. CASE term[st] = "invalid"
      <4>1. step = "escalated" /\ last = "failed" /\ gated /\ att[st] = 2
        BY <2>1, <2>3, <2>6, <3>3 DEF AttemptOutcome
      <4> QED BY <1>0, <2>6, <4>1 DEF Returns
    <3>4. CASE term[st] \in {"deadline", "error", "none"}
      <4>1. step = "failed" /\ last \in {"failed", "timed_out"} /\ gated
        BY <2>1, <2>3, <2>6, <3>4 DEF AttemptOutcome
      <4> QED BY <1>0, <2>6, <4>1 DEF Returns
    <3> QED BY <1>0, <3>1, <3>2, <3>3, <3>4 DEF Terminals
  <2> QED BY <2>5, <2>7
<1>4. CASE Refused(st) /\ pc'[st] = "catch"
  <2>1. state' = state /\ faults'[st] = faults[st] + 1
    BY <1>0, <1>4, RefusedCounts
  <2>2. InLog(st)'
    BY <1>0, <1>1, <1>4, <2>1
    DEF InLog, Failures, Unstarted, Fresh, Undecided, Underway, Returned
  <2> QED BY <1>4, <2>2
<1> QED BY <1>2, <1>3, <1>4

LEMMA OwnCatchLog ==
  ASSUME Control, ~stale, NEW st \in Steps, InLog(st), Catch(st)
  PROVE  InLog(st)' /\ pc'[st] # "done"
<1>0. /\ TypeOK /\ SoundLog(state) /\ att' = att /\ err' = err /\ pc[st] = "catch"
      /\ pc'[st] = "threw" /\ pc \in [Steps -> PCs] /\ faults[st] \in Nat
      /\ Id(st)' = Id(st)
      /\ Written(st) \/ Refused(st)
  <2>1. /\ att' = att /\ err' = err /\ pc[st] = "catch" /\ pc'[st] = "threw"
        /\ Written(st) \/ Refused(st)
    BY KindsOf DEF Catch, Goto
  <2> QED BY <2>1, KindsOf DEF Id
<1>1. Failures(st) \in Nat /\ Failures(st) >= 1 /\ (TriesOver(state, st) \/ Failures(st) >= 2)
  BY <1>0 DEF InLog, Failures
<1>2. CASE Written(st)
  <2>1. /\ Row(state', st) = "failed" /\ state'.attempts = state.attempts
        /\ faults' = faults
    BY <1>0, <1>2, StepWrites, WrittenMaps
  <2>2. \A a : Try(state', a) = Try(state, a)
    BY <2>1 DEF Try
  <2>3. LegalBatch(state, Batch(st))
    BY <1>2 DEF Written
  <2>4. Legal(state, StepFinished(st, "failed"))
    BY <1>0, <2>3, OneBody DEF Batch
  <2>5. TriesOver(state, st)
    BY <1>0, <2>4, TriesOverIs DEF Legal, StepFinished
  <2>6. TriesOver(state', st)
    BY <2>2, <2>5 DEF TriesOver
  <2> QED BY <1>0, <2>1, <2>2, <2>6
      DEF InLog, Failures, Unstarted, Fresh, Undecided, Underway, Returned
<1>3. CASE Refused(st)
  <2>1. /\ state' = state /\ faults'[st] \in {faults[st], faults[st] + 1}
        /\ TriesOver(state, st) => faults'[st] = faults[st] + 1
    BY <1>0, <1>3, RefusedCounts
  <2>2. Failures(st)' >= 2
    <3>1. CASE TriesOver(state, st)
      <4>1. Failures(st)' = Failures(st) + 1
        BY <1>0, <2>1, <3>1 DEF Failures
      <4> QED BY <1>1, <4>1
    <3>2. CASE Failures(st) >= 2
      <4>1. Failures(st)' \in {Failures(st), Failures(st) + 1}
        BY <1>0, <2>1 DEF Failures
      <4> QED BY <1>1, <3>2, <4>1
    <3> QED BY <1>1, <3>1, <3>2
  <2>3. err[st] = "write" => faults'[st] >= 1
    BY <1>0, <2>1 DEF InLog
  <2> QED BY <1>0, <2>1, <2>2, <2>3
      DEF InLog, Unstarted, Fresh, Undecided, Underway, Returned
<1> QED BY <1>0, <1>2, <1>3

IInv == Control /\ LogInv

LEMMA LogInitially ==
  Init => LogInv
<1> SUFFICES ASSUME Init, NEW st \in Steps
             PROVE  InLog(st) /\ pc[st] # "done"
  BY DEF LogInv
<1>1. /\ pc[st] = "idle" /\ att[st] = 1 /\ err[st] = "none" /\ faults[st] = 0
  BY DEF Init
<1>2. state.steps = EmptyMap /\ state.attempts = EmptyMap /\ state.gates = EmptyMap
  <2> DEFINE s == Reduce(NullRun, RunCreated)
  <2>1. /\ s.steps = EmptyMap /\ s.attempts = EmptyMap /\ s.gates = EmptyMap
        /\ state = [s EXCEPT !.lastSeq = 0]
    BY DEF Init, Reduce, RunCreated, NullRun, AttemptsAfter, GatesAfter, StepsAfter
  <2>2. DOMAIN s = {"status", "lastSeq", "steps", "attempts", "gates", "artifacts"}
    BY DEF Reduce
  <2> HIDE DEF s
  <2> QED BY <2>1, <2>2
<1>3. DOMAIN EmptyMap = {}
  BY DEF EmptyMap
<1>4. Row(state, st) = "none" /\ (\A a : Try(state, a) = "none") /\ ~HasGate(state, st)
  BY <1>2, <1>3 DEF Row, Try, HasGate
<1> QED BY <1>1, <1>4 DEF InLog, Unstarted, Fresh, Undecided, Underway, Returned

\* The steps beside the one whose handler runs.
LEMMA LogBeside ==
  ASSUME Control, NEW st \in Steps, Beside(st), NEW x \in Steps, x # st
  PROVE  /\ InLog(x) => InLog(x)'
         /\ pc[x] = "done" /\ Returns(x) => Returns(x)'
         /\ pc'[x] = "done" => pc[x] = "done"
<1>1. /\ pc'[x] = pc[x] \/ (pc[x] = "queued" /\ pc'[x] = "granted")
      /\ att'[x] = att[x] /\ term'[x] = term[x] /\ err'[x] = err[x] /\ aborted' = aborted
      /\ Written(st) \/ Refused(st) \/ UNCHANGED <<state, faults>>
  BY DEF Beside
<1>2. SameIn(state, state', x)
  <2>1. SameIn(state, state, x)
    BY DEF SameIn
  <2>2. CASE Written(st)
    BY <2>2, WrittenKeeps DEF Control
  <2>3. CASE state' = state
    BY <2>1, <2>3
  <2> QED BY <1>1, <2>2, <2>3 DEF Refused
<1>3. faults'[x] = faults[x]
  <2>1. x \in DOMAIN faults
    BY DEF Control, TypeOK
  <2> QED BY <1>1, <2>1 DEF Written, Refused
<1>4. SameView(state, state', x)
  BY <1>2, InGivesView
<1>5. /\ Row(state', x) = Row(state, x)
      /\ Try(state', <<x, 1>>) = Try(state, <<x, 1>>)
      /\ Try(state', <<x, 2>>) = Try(state, <<x, 2>>)
      /\ HasGate(state', x) <=> HasGate(state, x)
      /\ Gated(state', x) <=> Gated(state, x)
  BY <1>4 DEF SameView
<1>6. Id(x) = <<x, att[x]>> /\ Id(x)' = Id(x) /\ att[x] \in {1, 2}
  BY <1>1 DEF Id, Control, TypeOK
<1>7. Try(state', Id(x)) = Try(state, Id(x))
  BY <1>5, <1>6
<1>8. Failures(x)' = Failures(x) /\ (TriesOver(state', x) <=> TriesOver(state, x))
  BY <1>1, <1>3, <1>5 DEF Failures, TriesOver
<1>9. InLog(x) => InLog(x)'
  BY <1>1, <1>3, <1>5, <1>6, <1>7, <1>8
  DEF InLog, Unstarted, Fresh, Undecided, Underway, Returned
<1>10. Returns(x) => Returns(x)'
  BY <1>1, <1>5, <1>6, <1>7 DEF Returns
<1> QED BY <1>1, <1>9, <1>10

\* A log that fell behind lets no step return.
LEMMA StaleReturnsNothing ==
  ASSUME Control, stale, NEW st \in Steps, Handler(st)
  PROVE  pc'[st] # "done"
<1>0. TypeOK /\ Permits /\ pc \in [Steps -> PCs] /\ pc' \in [Steps -> PCs]
  BY HandlerSteps DEF Control, TypeOK, Locals
<1>1. CASE Close(st)
  <2>1. Batch(st) = Closing(st)
    BY <1>1 DEF Close, Batch
  <2>2. \A e, d : <<e>> # <<>> /\ <<e, d>> # <<>>
    OBVIOUS
  <2>3. Closing(st) # <<>>
    BY <2>2 DEF Closing
  <2>4. ~Written(st)
    BY <2>1, <2>3 DEF Written
  <2>5. Goto(st, "catch")
    BY <1>1, <2>4 DEF Close
  <2> QED BY <1>0, <2>5 DEF Goto
<1>2. CASE Admit(st) \/ Begin(st) \/ Finish(st) \/ Failing(st)
  BY <1>0, <1>2, GotoMoves, ReleaseMoves DEF Admit, Begin, Finish, Failing, PCs
<1>3. CASE Call(st) \/ Start(st) \/ Acquire(st) \/ Run(st) \/ Flush(st)
             \/ EndStream(st) \/ Cleanup(st) \/ LastFlush(st)
  BY <1>0, <1>3 DEF Call, Start, Acquire, Run, Flush, EndStream, Cleanup, LastFlush, Goto
<1>4. CASE Receive(st) \/ Capture(st) \/ Output(st) \/ Repair(st) \/ Catch(st)
  BY <1>0, <1>4 DEF Receive, Capture, Output, Repair, Catch, Goto
<1>5. CASE Deadline(st)
  BY <1>0, <1>5 DEF Deadline, Watched
<1> QED BY <1>1, <1>2, <1>3, <1>4, <1>5 DEF Handler

LEMMA HandlerLog ==
  ASSUME Control, LogInv, NEW st \in Steps, Handler(st)
  PROVE  LogInv'
<1>1. Beside(st) /\ stale' = stale
  BY HandlerSteps DEF Beside
<1>2. ASSUME ~stale
      PROVE  InLog(st)' /\ (pc'[st] = "done" => Returns(st)')
  <2>1. InLog(st)
    BY <1>2 DEF LogInv
  <2> QED BY <1>2, <2>1, OwnQuietLog, OwnRecordedLog, OwnStartLog, OwnFinishLog, OwnCloseLog,
             OwnCatchLog DEF Handler
<1>3. stale => pc'[st] # "done"
  BY StaleReturnsNothing
<1>4. ASSUME NEW x \in Steps, x # st
      PROVE  /\ InLog(x) => InLog(x)'
             /\ pc'[x] = "done" => Returns(x)'
  BY <1>1, <1>4, LogBeside DEF LogInv
<1>5. ~stale' => \A x \in Steps : InLog(x)'
  BY <1>1, <1>2, <1>4 DEF LogInv
<1>6. \A x \in Steps : pc'[x] = "done" => Returns(x)'
  BY <1>2, <1>3, <1>4
<1> QED BY <1>5, <1>6 DEF LogInv

\* A second open of the run leaves a step that returned as it was.
LEMMA ReopenedReturns ==
  ASSUME Control, Reopen, NEW x \in Steps, Returns(x)
  PROVE  Returns(x)'
<1> DEFINE s == state
<1>0. SoundLog(s) /\ IsRunState(s) /\ att[x] \in {1, 2} /\ Id(x) = <<x, att[x]>>
      /\ att' = att /\ aborted' = aborted
  BY DEF Control, SoundLog, TypeOK, Id, Reopen
<1>1. Row(s, x) # "running" /\ TriesOver(s, x)
  BY <1>0 DEF Returns, TriesOver
<1>2. ~Busy(s, x) /\ ~RunningStep(s, x)
  BY <1>0, <1>1, TriesOverIs, ViewTyped
<1>3. PICK t : /\ IsRecovered(t, s, Len(Recover(s)))
               /\ state'.steps = t.steps /\ state'.attempts = t.attempts
               /\ state'.gates = t.gates
  BY ReopenedLog
<1> DEFINE i == Len(Recover(s))
<1>a. i = Len(Recover(s))
  OBVIOUS
<1> HIDE DEF i
<1>4. /\ Interrupted(s, i) = RunningAttempts(s) /\ GatedAttempts(s, i) = RunningAttempts(s)
      /\ GatedSteps(s, i) = IdleSteps(s)
  BY <1>0, <1>a, WholeRecovered
<1>b. IsRecovered(t, s, i)
  BY <1>3, <1>a
<1>5. Row(t, x) = Row(s, x)
  BY <1>b DEF IsRecovered, Row
<1>6. ASSUME NEW a, Try(s, a) # "running"
      PROVE  Try(t, a) = Try(s, a)
  <2>1. a \notin RunningAttempts(s)
    BY <1>6 DEF RunningAttempts, Try
  <2> QED BY <1>b, <1>4, <2>1 DEF IsRecovered, Try
<1>7. Gated(t, x) <=> Gated(s, x)
  <2>1. ASSUME Gated(s, x)
        PROVE  Gated(t, x)
    BY <1>b, <2>1 DEF Gated, IsRecovered
  <2>2. ASSUME Gated(t, x)
        PROVE  Gated(s, x)
    <3>1. PICK g \in DOMAIN t.gates : t.gates[g].step = x /\ t.gates[g].status = "open"
      BY <2>2 DEF Gated
    <3>2. CASE g \in DOMAIN s.gates
      BY <1>b, <3>1, <3>2 DEF Gated, IsRecovered
    <3>3. ASSUME NEW a \in RunningAttempts(s), g = InterruptedGate(a)
          PROVE  FALSE
      <4>1. s.attempts[a].step = x
        BY <1>b, <1>4, <3>1, <3>3 DEF IsRecovered
      <4> QED BY <1>2, <4>1 DEF Busy, RunningAttempts
    <3>4. ASSUME NEW st \in IdleSteps(s), g = InterruptedStepGate(st, s.lastSeq)
          PROVE  FALSE
      <4>1. st = x
        BY <1>b, <1>4, <3>1, <3>4 DEF IsRecovered
      <4> QED BY <1>2, <4>1 DEF IdleSteps, RunningStep
    <3>5. DOMAIN t.gates = DOMAIN s.gates
            \cup {InterruptedGate(a) : a \in RunningAttempts(s)}
            \cup {InterruptedStepGate(st, s.lastSeq) : st \in IdleSteps(s)}
      BY <1>b, <1>4 DEF IsRecovered
    <3> QED BY <3>1, <3>2, <3>3, <3>4, <3>5
  <2> QED BY <2>1, <2>2
<1>8. /\ Row(state', x) = Row(s, x) /\ (Gated(state', x) <=> Gated(s, x))
      /\ \A a : Try(state', a) = Try(t, a)
  BY <1>3, <1>5, <1>7 DEF Row, Gated, Try
<1>9. /\ Try(state', <<x, 1>>) = Try(s, <<x, 1>>) /\ Try(state', <<x, 2>>) = Try(s, <<x, 2>>)
  BY <1>1, <1>6, <1>8 DEF TriesOver
<1>10. Try(state', Id(x)) = Try(s, Id(x)) /\ Id(x)' = Id(x)
  BY <1>0, <1>9 DEF Id
<1> QED BY <1>0, <1>8, <1>9, <1>10 DEF Returns

LEMMA LogInvariant ==
  IInv /\ [Next]_vars => IInv'
<1> SUFFICES ASSUME Control, LogInv, [Next]_vars PROVE LogInv'
  BY ControlInvariant DEF IInv
<1>1. ASSUME NEW st \in Steps, Handler(st)
      PROVE  LogInv'
  BY <1>1, HandlerLog
<1>2. ASSUME UNCHANGED <<state, stale, pc, att, err, faults>>,
             aborted' = aborted \/ aborted' = TRUE,
             \A st \in Steps : pc[st] = "close" => term'[st] = term[st]
      PROVE  LogInv'
  <2>1. ASSUME NEW st \in Steps
        PROVE  Id(st)' = Id(st) /\ Failures(st)' = Failures(st)
    BY <1>2 DEF Id, Failures
  <2>2. ASSUME NEW st \in Steps, InLog(st)
        PROVE  InLog(st)'
    BY <1>2, <2>1, <2>2 DEF InLog
  <2>3. ASSUME NEW st \in Steps, Returns(st)
        PROVE  Returns(st)'
    <3>1. aborted => aborted'
      BY <1>2
    <3> QED BY <1>2, <2>1, <2>3, <3>1 DEF Returns
  <2> QED BY <1>2, <2>2, <2>3 DEF LogInv
<1>3. ASSUME NEW a \in Attempts, RunnerExits(a)
      PROVE  LogInv'
  BY <1>2, <1>3 DEF RunnerExits, watch
<1>4. CASE Abort
  <2>1. \A st \in Steps : pc[st] = "close" => term'[st] = term[st]
    BY <1>4 DEF Abort, Watched
  <2> QED BY <1>2, <1>4, <2>1 DEF Abort
<1>5. CASE Reopen
  <2>1. stale' = TRUE /\ pc' = pc
    BY <1>5 DEF Reopen
  <2>2. \A st \in Steps : pc[st] = "done" => Returns(st)'
    BY <1>5, ReopenedReturns DEF LogInv
  <2> QED BY <2>1, <2>2 DEF LogInv
<1>6. CASE UNCHANGED vars
  BY <1>2, <1>6 DEF vars, watch
<1> QED BY <1>1, <1>3, <1>4, <1>5, <1>6 DEF Next, Handler, Finished

LEMMA InvariantHolds ==
  Spec => []IInv
<1>1. Init => IInv
  BY ControlInitially, LogInitially DEF IInv
<1>2. IInv /\ [Next]_vars => IInv'
  BY LogInvariant
<1> QED BY <1>1, <1>2, PTL DEF Spec

\* While a runner may still change files its permit is held and its row is running.
LEMMA WritersAreAccounted ==
  ASSUME IInv
  PROVE  WriterIsAccounted
<1>0. Control /\ TypeOK /\ SoundLog(state) /\ IsRunState(state)
  BY DEF IInv, Control, SoundLog
<1> SUFFICES ASSUME NEW st \in Steps, <<st, 1>> \in alive, Writes(<<st, 1>>)
             PROVE  /\ att[st] = 1 /\ pc[st] \in Holding
                    /\ ~stale => RunningAttempt(state, <<st, 1>>)
  BY DEF WriterIsAccounted
<1>1. att[st] = 1 /\ pc[st] \in {"stream", "flush", "cleanup"}
  BY <1>0 DEF Control, Writer, Writes
<1>2. ASSUME ~stale
      PROVE  RunningAttempt(state, <<st, 1>>)
  <2>1. Try(state, Id(st)) = "running" /\ Id(st) = <<st, 1>>
    BY <1>1, <1>2 DEF IInv, LogInv, InLog, Underway, Id
  <2> QED BY <1>0, <2>1, ViewTyped
<1> QED BY <1>1, <1>2 DEF Holding, Watched

\* The three parts of what a step leaves in its log.
LEMMA ReturnsAreLogged ==
  ASSUME IInv
  PROVE  ReturnedMatchesLog
<1>0. Control /\ TypeOK /\ SoundLog(state) /\ IsRunState(state)
  BY DEF IInv, Control, SoundLog
<1>1. WritesInOrder
  <2> SUFFICES ASSUME NEW st \in Steps, ~stale, faults[st] = 0
               PROVE  LegalBatch(state, Batch(st))
    BY DEF WritesInOrder
  <2>1. InLog(st)
    BY DEF IInv, LogInv
  <2>2. Failures(st) \in {0, 1}
    BY DEF Failures
  <2>3. pc[st] = "catch" => TriesOver(state, st)
    BY <2>1, <2>2 DEF InLog
  <2> QED BY <1>0, <2>1, <2>3, WritesAreLegal
<1>2. OneFailureLeavesNothingRunning
  <2> SUFFICES ASSUME NEW st \in Steps, pc[st] \in Returned, Failures(st) <= 1, ~stale
               PROVE  ~RunningStep(state, st) /\ ~Busy(state, st)
    BY DEF OneFailureLeavesNothingRunning
  <2>1. InLog(st) /\ faults[st] \in Nat
    BY <1>0, AgentStepAssumption DEF IInv, LogInv, TypeOK
  <2>2. Failures(st) \in Nat
    BY <2>1 DEF Failures
  <2>3. Row(state, st) # "running" /\ TriesOver(state, st)
    BY <2>1, <2>2 DEF InLog
  <2> QED BY <1>0, <2>3, TriesOverIs, ViewTyped
<1>3. ReturnedAsLogged
  <2> SUFFICES ASSUME NEW st \in Steps, pc[st] = "done"
               PROVE  LET a == state.attempts
                          last == Id(st)
                          step == state.steps[st].status
                      IN /\ att[st] = 2 => a[<<st, 1>>].status = "failed"
                         /\ step = "succeeded" => a[last].status = "succeeded"
                         /\ step = "escalated" =>
                              att[st] = 2 /\ a[last].status = "failed" /\ Gated(state, st)
                         /\ step = "failed" =>
                              Gated(state, st) <=>
                                last \in DOMAIN a /\ a[last].status \in {"failed", "timed_out"}
                         /\ ~Gated(state, st) => step = "succeeded" \/ aborted
    BY DEF ReturnedAsLogged
  <2>1. Returns(st)
    BY DEF IInv, LogInv
  <2>2. st \in DOMAIN state.steps /\ state.steps[st].status = Row(state, st)
    BY <2>1 DEF Returns, Row
  <2>3. /\ Id(st) \in DOMAIN state.attempts => state.attempts[Id(st)].status = Try(state, Id(st))
        /\ Try(state, Id(st)) # "none" => Id(st) \in DOMAIN state.attempts
        /\ Id(st) \in DOMAIN state.attempts => Try(state, Id(st)) # "none"
    BY <1>0, ViewTyped DEF Try
  <2>4. att[st] = 2 => state.attempts[<<st, 1>>].status = "failed"
    BY <2>1 DEF Returns, Try
  <2> QED BY <2>1, <2>2, <2>3, <2>4 DEF Returns
<1> QED BY <1>1, <1>2, <1>3 DEF ReturnedMatchesLog

\* The limiter's permits are counted right whatever throws, and no task has one beside
\* a write attempt whose runner may still change files (createLimiter, runAgentStep).
THEOREM PermitsAreAccounted == Spec => []PermitsAccounted
<1>1. IInv => PermitsAccounted
  BY PermitsAreCounted, WritersAreAccounted DEF IInv, PermitsAccounted
<1> QED BY <1>1, InvariantHolds, PTL

\* What runAgentStep returned is what its rows in the log say; one failure of a write or
\* of the runner leaves neither the step nor an attempt of it running, and until a write
\* of its own failed the step asks for no row the reducer refuses.
THEOREM ReturnsMatchTheLog == Spec => []ReturnedMatchesLog
<1>1. IInv => ReturnedMatchesLog
  BY ReturnsAreLogged
<1> QED BY <1>1, InvariantHolds, PTL
=============================================================================
