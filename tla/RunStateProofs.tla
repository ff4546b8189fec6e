--------------------------- MODULE RunStateProofs ---------------------------
(***************************************************************************)
(* Facts about the reducer for every set of ids and every event: what it   *)
(* returns is a run state, one seq later, and stays sound.  Facts about a  *)
(* batch, whose fold is recursive: by induction, over a set of naturals.   *)
(* Facts about recover: its rows are accepted one after the other, and     *)
(* leave nothing for a second recovery.                                    *)
(***************************************************************************)
EXTENDS RunState, FiniteSetTheorems, SequenceTheorems, WellFoundedInduction, TLAPS

\* Map.set: the new map has one more key at most, and its values are typed.
LEMMA PutMap ==
  ASSUME NEW K, NEW V, NEW f, IsMap(f, K, V), NEW k \in K, NEW v \in V
  PROVE  /\ IsMap(Put(f, k, v), K, V)
         /\ DOMAIN Put(f, k, v) = DOMAIN f \cup {k}
         /\ Put(f, k, v)[k] = v
         /\ \A x \in DOMAIN f : x # k => Put(f, k, v)[x] = f[x]
  <1>1. IsFiniteSet(DOMAIN f \cup {k})
    BY FS_AddElement DEF IsMap
  <1>2. QED
    BY <1>1 DEF IsMap, Put

LEMMA EmptyMapOK ==
  ASSUME NEW K, NEW V
  PROVE  IsMap(EmptyMap, K, V)
  BY FS_EmptySet DEF IsMap, EmptyMap

\* The state of an empty log is a sound run state.
LEMMA NullRunOK == IsRunState(NullRun) /\ RunInv(NullRun)
  <1>1. IsRunState(NullRun)
    BY EmptyMapOK DEF IsRunState, NullRun
  <1>2. DOMAIN EmptyMap = {}
    BY DEF EmptyMap
  <1>3. RunInv(NullRun)
    BY <1>2 DEF RunInv, NullRun, AttemptsInRunningSteps, OwnersKnown, EndedIsSettled,
                RecoveryGatesTrue, RunningAttempts
  <1>4. QED
    BY <1>1, <1>3

\* The events' fields, by type.
LEMMA EventFields ==
  ASSUME NEW e \in EventBodies
  PROVE  /\ e.type \in {"step.started", "step.finished", "attempt.started", "gate.raised"}
              => e.step \in Steps
         /\ e.type \in {"attempt.started", "attempt.event", "attempt.finished"}
              => e.attempt \in Attempts
         /\ e.type = "step.finished" => e.outcome \in StepOutcomes
         /\ e.type = "attempt.finished" => e.outcome \in AttemptOutcomes
         /\ e.type = "gate.raised" => /\ e.gate \in GateIds
                                      /\ e.kind \in GateKinds
                                      /\ e.allowed \in SUBSET Commands
         /\ e.type = "gate.resolved" => e.gate \in GateIds /\ e.command \in Commands
         /\ e.type = "artifact.recorded" => e.artifact \in Artifacts
         /\ e.type \in {"run.created", "run.ended", "step.started", "step.finished",
                        "attempt.started", "attempt.event", "attempt.finished",
                        "gate.raised", "gate.resolved", "artifact.recorded"}
  BY DEF EventBodies

\* Each map stays a map of typed records.
LEMMA StepsTyped ==
  ASSUME NEW s, IsRunState(s), NEW e \in EventBodies, Legal(s, e)
  PROVE  IsMap(StepsAfter(s, e), Steps, StepRecords)
  <1>1. IsMap(s.steps, Steps, StepRecords)
    BY DEF IsRunState
  <1>2. CASE e.type = "step.started"
    <2>1. e.step \in Steps /\ [status |-> "running"] \in StepRecords
      BY <1>2, EventFields DEF StepRecords
    <2>2. QED
      BY <2>1, <1>1, <1>2, PutMap DEF StepsAfter
  <1>3. CASE e.type = "step.finished"
    <2>1. e.step \in Steps /\ [status |-> e.outcome] \in StepRecords
      BY <1>3, EventFields DEF StepRecords
    <2>2. QED
      BY <2>1, <1>1, <1>3, PutMap DEF StepsAfter
  <1>4. QED
    BY <1>1, <1>2, <1>3 DEF StepsAfter

LEMMA AttemptsTyped ==
  ASSUME NEW s, IsRunState(s), NEW e \in EventBodies, Legal(s, e)
  PROVE  IsMap(AttemptsAfter(s, e), Attempts, AttemptRecords)
  <1>1. IsMap(s.attempts, Attempts, AttemptRecords)
    BY DEF IsRunState
  <1>2. CASE e.type = "attempt.started"
    <2>1. /\ e.attempt \in Attempts
          /\ [step |-> e.step, status |-> "running"] \in AttemptRecords
      BY <1>2, EventFields DEF AttemptRecords
    <2>2. QED
      BY <2>1, <1>1, <1>2, PutMap DEF AttemptsAfter
  <1>3. CASE e.type = "attempt.finished"
    <2>1. e.attempt \in DOMAIN s.attempts
      BY <1>3 DEF Legal, RunningAttempt
    <2>2. s.attempts[e.attempt] \in AttemptRecords
      BY <2>1, <1>1 DEF IsMap
    <2>3. /\ e.attempt \in Attempts
          /\ [step |-> s.attempts[e.attempt].step, status |-> e.outcome] \in AttemptRecords
      BY <2>2, <1>3, EventFields DEF AttemptRecords
    <2>4. QED
      BY <2>3, <1>1, <1>3, PutMap DEF AttemptsAfter
  <1>4. QED
    BY <1>1, <1>2, <1>3 DEF AttemptsAfter

LEMMA GatesTyped ==
  ASSUME NEW s, IsRunState(s), NEW e \in EventBodies, Legal(s, e)
  PROVE  IsMap(GatesAfter(s, e), GateIds, GateRecords)
  <1>1. IsMap(s.gates, GateIds, GateRecords)
    BY DEF IsRunState
  <1>2. CASE e.type = "gate.raised"
    <2>1. /\ e.gate \in GateIds
          /\ [step |-> e.step, kind |-> e.kind, allowed |-> e.allowed,
              status |-> "open"] \in GateRecords
      BY <1>2, EventFields DEF GateRecords
    <2>2. QED
      BY ZenonT(60), <2>1, <1>1, <1>2, PutMap DEF GatesAfter
  <1>3. CASE e.type = "gate.resolved"
    <2>1. e.gate \in DOMAIN s.gates
      BY <1>3 DEF Legal, OpenGate
    <2>2. s.gates[e.gate] \in GateRecords
      BY <2>1, <1>1 DEF IsMap
    <2>3. /\ e.gate \in GateIds
          /\ [step |-> s.gates[e.gate].step, kind |-> s.gates[e.gate].kind,
              allowed |-> s.gates[e.gate].allowed, status |-> "resolved"] \in GateRecords
      BY <2>2, <1>3, EventFields DEF GateRecords
    <2>4. QED
      BY ZenonT(60), <2>3, <1>1, <1>3, PutMap DEF GatesAfter
  <1>4. QED
    BY <1>1, <1>2, <1>3 DEF GatesAfter

\* reduce returns a run state whose lastSeq is the event's seq.
LEMMA ReduceTyped ==
  ASSUME NEW s, IsRunState(s), NEW e \in EventBodies, Legal(s, e)
  PROVE  IsRunState(Reduce(s, e)) /\ Reduce(s, e).lastSeq = s.lastSeq + 1
  <1>1. /\ IsMap(StepsAfter(s, e), Steps, StepRecords)
        /\ IsMap(AttemptsAfter(s, e), Attempts, AttemptRecords)
        /\ IsMap(GatesAfter(s, e), GateIds, GateRecords)
    BY StepsTyped, AttemptsTyped, GatesTyped
  <1>2. /\ s.lastSeq + 1 \in Nat
        /\ s.status \in {"none", "active", "ended"}
        /\ s.artifacts \subseteq Artifacts
    BY DEF IsRunState
  <1>3. e.type = "artifact.recorded" => e.artifact \in Artifacts
    BY EventFields
  <1>4. QED
    BY <1>1, <1>2, <1>3 DEF Reduce, IsRunState

-----------------------------------------------------------------------------
\* A legal event, other than run.created, meets an active run.
LEMMA LegalActive ==
  ASSUME NEW s, NEW e, Legal(s, e), e.type # "run.created"
  PROVE  s.status = "active"
  BY DEF Legal

\* The attempts and steps an event leaves alone keep their records.
LEMMA ReduceSound ==
  ASSUME NEW s, IsRunState(s), RunInv(s), NEW e \in EventBodies, Legal(s, e)
  PROVE  RunInv(Reduce(s, e))
  <1> DEFINE t == Reduce(s, e)
  <1>0. /\ t.steps = StepsAfter(s, e) /\ t.attempts = AttemptsAfter(s, e)
        /\ t.gates = GatesAfter(s, e)
        /\ t.status \in {"active", "ended"}
        /\ e.type # "run.ended" => t.status = "active"
        /\ s.status \in {"none", "active"}
    BY DEF Reduce, Legal
  <1>1. /\ AttemptsInRunningSteps(s) /\ OwnersKnown(s) /\ RecoveryGatesTrue(s)
        /\ IsMap(s.steps, Steps, StepRecords)
        /\ IsMap(s.attempts, Attempts, AttemptRecords)
        /\ IsMap(s.gates, GateIds, GateRecords)
    BY DEF RunInv, IsRunState
  <1> HIDE DEF t
  <1>2. CASE e.type \in {"run.created", "attempt.event", "artifact.recorded"}
    <2>1. t.steps = s.steps /\ t.attempts = s.attempts /\ t.gates = s.gates
      BY <1>0, <1>2 DEF StepsAfter, AttemptsAfter, GatesAfter
    <2>2. QED
      BY <2>1, <1>0, <1>1, <1>2
      DEF RunInv, AttemptsInRunningSteps, OwnersKnown, EndedIsSettled, RecoveryGatesTrue,
          RunningAttempts, RunningStep, t
  <1>3. CASE e.type = "run.ended"
    <2>1. t.steps = s.steps /\ t.attempts = s.attempts /\ t.gates = s.gates
      BY <1>0, <1>3 DEF StepsAfter, AttemptsAfter, GatesAfter
    <2>2. Settled(s)
      BY <1>3 DEF Legal
    <2>3. QED
      BY <2>1, <2>2, <1>0, <1>1
      DEF RunInv, AttemptsInRunningSteps, OwnersKnown, EndedIsSettled, RecoveryGatesTrue,
          RunningAttempts, RunningStep, Settled, t
  <1>4. CASE e.type = "step.started"
    <2>1. t.attempts = s.attempts /\ t.gates = s.gates /\ t.status = "active"
      BY <1>0, <1>4 DEF AttemptsAfter, GatesAfter
    <2>2. /\ e.step \notin DOMAIN s.steps
          /\ e.step \in Steps /\ [status |-> "running"] \in StepRecords
      BY <1>4, EventFields DEF Legal, StepRecords
    <2> DEFINE r == [status |-> "running"]
    <2>a. t.steps = Put(s.steps, e.step, r)
      BY <1>0, <1>4 DEF StepsAfter
    <2> HIDE DEF r
    <2>3. /\ DOMAIN t.steps = DOMAIN s.steps \cup {e.step}
          /\ \A x \in DOMAIN s.steps : t.steps[x] = s.steps[x]
      BY <2>2, <2>a DEF Put
    <2>4. QED
      BY <2>1, <2>3, <1>1
      DEF RunInv, AttemptsInRunningSteps, OwnersKnown, EndedIsSettled, RecoveryGatesTrue,
          RunningAttempts, RunningStep, t
  <1>5. CASE e.type = "step.finished"
    <2>1. t.attempts = s.attempts /\ t.gates = s.gates /\ t.status = "active"
      BY <1>0, <1>5 DEF AttemptsAfter, GatesAfter
    <2>2. /\ e.step \in DOMAIN s.steps /\ ~Busy(s, e.step)
          /\ e.step \in Steps /\ [status |-> e.outcome] \in StepRecords
      BY <1>5, EventFields DEF Legal, RunningStep, StepRecords
    <2>3. /\ DOMAIN t.steps = DOMAIN s.steps
          /\ \A x \in DOMAIN s.steps : x # e.step => t.steps[x] = s.steps[x]
      BY <2>2, <1>0, <1>1, <1>5, PutMap DEF StepsAfter
    <2>4. QED
      BY <2>1, <2>2, <2>3, <1>1
      DEF RunInv, AttemptsInRunningSteps, OwnersKnown, EndedIsSettled, RecoveryGatesTrue,
          RunningAttempts, RunningStep, Busy, t
  <1>6. CASE e.type = "attempt.started"
    <2> DEFINE r == [step |-> e.step, status |-> "running"]
    <2>1. t.steps = s.steps /\ t.gates = s.gates /\ t.status = "active"
      BY <1>0, <1>6 DEF StepsAfter, GatesAfter
    <2>2. /\ e.attempt \notin DOMAIN s.attempts /\ RunningStep(s, e.step)
          /\ e.attempt \in Attempts /\ r \in AttemptRecords
      BY <1>6, EventFields DEF Legal, AttemptRecords
    <2>3. /\ DOMAIN t.attempts = DOMAIN s.attempts \cup {e.attempt}
          /\ \A x \in DOMAIN s.attempts : t.attempts[x] = s.attempts[x]
          /\ t.attempts[e.attempt] = r
      BY SMTT(30), <2>2, <1>0, <1>1, <1>6, PutMap DEF AttemptsAfter
    <2>4. AttemptsInRunningSteps(t)
      BY <2>1, <2>2, <2>3, <1>1 DEF AttemptsInRunningSteps, RunningAttempts, RunningStep
    <2>5. OwnersKnown(t)
      BY <2>1, <2>2, <2>3, <1>1 DEF OwnersKnown, RunningStep
    <2>6. RecoveryGatesTrue(t)
      BY <2>1, <2>2, <2>3, <1>1 DEF RecoveryGatesTrue
    <2>7. QED
      BY <2>1, <2>4, <2>5, <2>6 DEF RunInv, EndedIsSettled, t
  <1>7. CASE e.type = "attempt.finished"
    <2> DEFINE r == [step |-> s.attempts[e.attempt].step, status |-> e.outcome]
    <2>1. t.steps = s.steps /\ t.gates = s.gates /\ t.status = "active"
      BY <1>0, <1>7 DEF StepsAfter, GatesAfter
    <2>2. /\ e.attempt \in DOMAIN s.attempts
          /\ s.attempts[e.attempt].status = "running"
          /\ e.attempt \in Attempts /\ e.outcome \in AttemptOutcomes
      BY <1>7, EventFields DEF Legal, RunningAttempt
    <2>3. r \in AttemptRecords
      BY <2>2, <1>1 DEF IsMap, AttemptRecords
    <2>a. t.attempts = Put(s.attempts, e.attempt, r)
      BY <1>0, <1>7 DEF AttemptsAfter
    <2>5. r.step = s.attempts[e.attempt].step /\ r.status = e.outcome
      OBVIOUS
    <2> HIDE DEF r
    <2>4. /\ DOMAIN t.attempts = DOMAIN s.attempts
          /\ \A x \in DOMAIN s.attempts : x # e.attempt => t.attempts[x] = s.attempts[x]
          /\ t.attempts[e.attempt] = r
      BY <2>2, <2>a DEF Put
    <2>6. AttemptsInRunningSteps(t)
      BY <2>1, <2>2, <2>4, <2>5, <1>1
      DEF AttemptsInRunningSteps, RunningAttempts, RunningStep, AttemptOutcomes
    <2>7. OwnersKnown(t)
      BY <2>1, <2>2, <2>4, <2>5, <1>1 DEF OwnersKnown
    <2>8. RecoveryGatesTrue(t)
      BY <2>1, <2>2, <2>4, <2>5, <1>1 DEF RecoveryGatesTrue
    <2>9. QED
      BY <2>1, <2>6, <2>7, <2>8 DEF RunInv, EndedIsSettled, t
  <1>8. CASE e.type = "gate.raised"
    <2> DEFINE r == [step |-> e.step, kind |-> e.kind, allowed |-> e.allowed,
                     status |-> "open"]
    <2>1. t.steps = s.steps /\ t.attempts = s.attempts /\ t.status = "active"
      BY <1>0, <1>8 DEF StepsAfter, AttemptsAfter
    <2>2. /\ e.gate \notin DOMAIN s.gates /\ RunningStep(s, e.step) /\ ReservedIdOK(s, e)
          /\ e.gate \in GateIds /\ r \in GateRecords
      BY <1>8, EventFields DEF Legal, GateRecords
    <2>a. t.gates = Put(s.gates, e.gate, r)
      BY <1>0, <1>8 DEF GatesAfter
    <2>4. r.step = e.step
      OBVIOUS
    <2> HIDE DEF r
    <2>3. /\ DOMAIN t.gates = DOMAIN s.gates \cup {e.gate}
          /\ \A x \in DOMAIN s.gates : t.gates[x] = s.gates[x]
          /\ t.gates[e.gate] = r
      BY <2>2, <2>a DEF Put
    <2>5. OwnersKnown(t)
      BY <2>1, <2>2, <2>3, <2>4, <1>1 DEF OwnersKnown, RunningStep
    <2>6. ASSUME NEW a \in Attempts, InterruptedGate(a) \in DOMAIN t.gates
          PROVE  /\ a \in DOMAIN t.attempts
                 /\ t.attempts[a].status = "interrupted"
                 /\ t.gates[InterruptedGate(a)].step = t.attempts[a].step
      <3>1. CASE InterruptedGate(a) \in DOMAIN s.gates
        BY <3>1, <2>1, <2>3, <1>1 DEF RecoveryGatesTrue
      <3>2. CASE InterruptedGate(a) = e.gate
        <4>1. e.gate.name = "interrupted" /\ e.gate.of = a
          BY <3>2 DEF InterruptedGate
        <4>2. QED
          BY <4>1, <3>2, <2>1, <2>2, <2>3, <2>4 DEF ReservedIdOK
      <3>3. QED
        BY <3>1, <3>2, <2>3, <2>6
    <2>7. AttemptsInRunningSteps(t)
      BY <2>1, <1>1 DEF AttemptsInRunningSteps, RunningAttempts, RunningStep
    <2>8. QED
      BY <2>1, <2>5, <2>6, <2>7 DEF RunInv, EndedIsSettled, RecoveryGatesTrue, t
  <1>9. CASE e.type = "gate.resolved"
    <2> DEFINE r == [step |-> s.gates[e.gate].step, kind |-> s.gates[e.gate].kind,
                     allowed |-> s.gates[e.gate].allowed, status |-> "resolved"]
    <2>1. t.steps = s.steps /\ t.attempts = s.attempts /\ t.status = "active"
      BY <1>0, <1>9 DEF StepsAfter, AttemptsAfter
    <2>2. e.gate \in DOMAIN s.gates /\ e.gate \in GateIds
      BY <1>9, EventFields DEF Legal, OpenGate
    <2>3. r \in GateRecords
      BY <2>2, <1>1 DEF IsMap, GateRecords
    <2>a. t.gates = Put(s.gates, e.gate, r)
      BY <1>0, <1>9 DEF GatesAfter
    <2>b. r.step = s.gates[e.gate].step
      OBVIOUS
    <2> HIDE DEF r
    <2>4. /\ DOMAIN t.gates = DOMAIN s.gates
          /\ \A x \in DOMAIN s.gates : t.gates[x].step = s.gates[x].step
      BY <2>2, <2>a, <2>b DEF Put
    <2>5. QED
      BY <2>1, <2>4, <1>1
      DEF RunInv, AttemptsInRunningSteps, OwnersKnown, EndedIsSettled, RecoveryGatesTrue,
          RunningAttempts, RunningStep, t
  <1>10. QED
    BY <1>2, <1>3, <1>4, <1>5, <1>6, <1>7, <1>8, <1>9, EventFields DEF t

-----------------------------------------------------------------------------
\* Induction on the natural numbers, over a set: every non-empty one has a least member.
LEMMA LeastOf ==
  ASSUME NEW T, T \subseteq Nat, T # {}
  PROVE  \E x \in T : \A y \in T : ~(y < x)
  <1> DEFINE R == {ss \in Nat \X Nat : ss[1] < ss[2]}
  <1>1. IsWellFoundedOn(R, Nat)
    BY NatLessThanWellFounded DEF OpToRel
  <1>2. R = {ss \in Nat \X Nat : ss[1] < ss[2]}
    OBVIOUS
  <1> HIDE DEF R
  <1>3. \E x \in T : \A y \in T : ~(<<y, x>> \in R)
    BY <1>1, WFMin
  <1>4. QED
    BY <1>2, <1>3

LEMMA UpTo ==
  ASSUME NEW n \in Nat, NEW S, 0 \in S,
         \A i \in 0..n : i < n /\ i \in S => i + 1 \in S
  PROVE  \A i \in 0..n : i \in S
  <1> DEFINE T == (0..n) \ S
  <1> SUFFICES ASSUME T # {} PROVE FALSE
    OBVIOUS
  <1>0. T \subseteq Nat
    OBVIOUS
  <1> HIDE DEF T
  <1>1. PICK x \in T : \A y \in T : ~(y < x)
    BY <1>0, LeastOf
  <1>2. x - 1 \in 0..n /\ x - 1 < n /\ x - 1 < x /\ x = (x - 1) + 1
    BY <1>1 DEF T
  <1>3. x - 1 \in S
    BY <1>1, <1>2 DEF T
  <1>4. QED
    BY <1>1, <1>2, <1>3 DEF T

\* The fold of a batch exists...
IsFold(f, s, b, n) == f = [i \in 0..n |-> IF i = 0 THEN s ELSE Reduce(f[i - 1], b[i])]

LEMMA FoldExists ==
  ASSUME NEW s, NEW b, NEW n \in Nat
  PROVE  \E f : IsFold(f, s, b, n)
  <1> DEFINE Fold(f, k) == IsFold(f, s, b, k)
             S == {k \in Nat : \E f : Fold(f, k)}
  <1> USE DEF IsFold
  <1>1. 0 \in S
    <2> DEFINE f == [i \in 0..0 |-> s]
    <2>1. \A i \in 0..0 : i = 0
      OBVIOUS
    <2>2. Fold(f, 0)
      BY <2>1
    <2>3. QED
      BY <2>2
  <1>2. ASSUME NEW k \in 0..n, k < n, k \in S
        PROVE  k + 1 \in S
    <2>1. PICK f : Fold(f, k)
      BY <1>2
    <2> DEFINE g == [i \in 0..(k + 1) |-> IF i = k + 1 THEN Reduce(f[k], b[k + 1]) ELSE f[i]]
               h == [i \in 0..(k + 1) |-> IF i = 0 THEN s ELSE Reduce(g[i - 1], b[i])]
    <2>2. ASSUME NEW i \in 0..(k + 1)
          PROVE  g[i] = h[i]
      <3>1. CASE i = 0
        BY <3>1, <2>1
      <3>2. CASE i = k + 1
        <4>1. i - 1 = k /\ i # 0 /\ k \in 0..(k + 1) /\ k # k + 1
          BY <3>2
        <4>2. g[k] = f[k]
          BY <4>1
        <4>3. QED
          BY <4>1, <4>2, <3>2
      <3>3. CASE i # 0 /\ i # k + 1
        <4>1. i \in 0..k /\ i - 1 \in 0..(k + 1) /\ i - 1 # k + 1
          BY <3>3
        <4>2. g[i] = f[i] /\ g[i - 1] = f[i - 1]
          BY <4>1, <3>3
        <4>3. f[i] = Reduce(f[i - 1], b[i])
          BY <4>1, <3>3, <2>1
        <4>4. QED
          BY <4>2, <4>3, <3>3
      <3>4. QED
        BY <3>1, <3>2, <3>3
    <2>3. g = h
      BY <2>2
    <2>4. Fold(g, k + 1)
      BY <2>3
    <2>5. k + 1 \in Nat
      OBVIOUS
    <2> HIDE DEF g, Fold, IsFold
    <2>6. QED
      BY <2>4, <2>5
  <1> HIDE DEF S, IsFold
  <1>3. n \in S
    BY <1>1, <1>2, UpTo
  <1>4. QED
    BY <1>3 DEF S

\* ... and is what it is defined to be.
LEMMA FoldedIs ==
  ASSUME NEW s, NEW b, Len(b) \in Nat
  PROVE  /\ DOMAIN Folded(s, b) = 0..Len(b)
         /\ Folded(s, b)[0] = s
         /\ \A i \in 1..Len(b) : Folded(s, b)[i] = Reduce(Folded(s, b)[i - 1], b[i])
  <1>1. \E f : IsFold(f, s, b, Len(b))
    BY FoldExists
  <1>2. Folded(s, b) = CHOOSE f : IsFold(f, s, b, Len(b))
    BY DEF Folded, IsFold
  <1>3. IsFold(Folded(s, b), s, b, Len(b))
    BY <1>1, <1>2
  <1>4. QED
    BY <1>3 DEF IsFold

LEMMA FoldUnique ==
  ASSUME NEW s, NEW b, Len(b) \in Nat, NEW g, g[0] = s, NEW n \in 0..Len(b),
         \A i \in 1..n : g[i] = Reduce(g[i - 1], b[i])
  PROVE  \A i \in 0..n : Folded(s, b)[i] = g[i]
  <1> DEFINE S == {i \in 0..n : Folded(s, b)[i] = g[i]}
  <1>1. 0 \in S
    BY FoldedIs
  <1>2. ASSUME NEW i \in 0..n, i < n, i \in S
        PROVE  i + 1 \in S
    <2>1. i + 1 \in 1..Len(b) /\ i + 1 \in 1..n /\ (i + 1) - 1 = i
      BY <1>2
    <2>2. QED
      BY <2>1, <1>2, FoldedIs
  <1>0. n \in Nat
    OBVIOUS
  <1> HIDE DEF S
  <1>3. \A i \in 0..n : i \in S
    BY <1>0, <1>1, <1>2, UpTo
  <1>4. QED
    BY <1>3 DEF S

\* A batch is legal when each body is legal in the state the bodies before it fold to.
LEMMA LegalBatchIs ==
  ASSUME NEW T, NEW s, NEW b \in Seq(T)
  PROVE  LegalBatch(s, b) <=> \A i \in 1..Len(b) : Legal(Folded(s, b)[i - 1], b[i])
  <1>1. ASSUME NEW i \in 1..Len(b)
        PROVE  Folded(s, SubSeq(b, 1, i - 1))[i - 1] = Folded(s, b)[i - 1]
    <2> DEFINE c == SubSeq(b, 1, i - 1)
    <2>1. Len(b) \in Nat /\ i - 1 \in 0..Len(b)
      OBVIOUS
    <2>2. Len(c) = i - 1 /\ \A j \in 1..(i - 1) : c[j] = b[j]
      BY <2>1
    <2> DEFINE g == Folded(s, b)
               m == i - 1
    <2>0. g[0] = s /\ \A j \in 1..Len(b) : g[j] = Reduce(g[j - 1], b[j])
      BY <2>1, FoldedIs
    <2> HIDE DEF c, g, m
    <2>3. \A j \in 0..m : Folded(s, c)[j] = g[j]
      <3>1. ASSUME NEW j \in 1..m
            PROVE  g[j] = Reduce(g[j - 1], c[j])
        <4>1. j \in 1..Len(b)
          BY <2>1 DEF m
        <4>2. QED
          BY <4>1, <2>0, <2>2 DEF m
      <3>2. g[0] = s
        BY <2>0
      <3>3. m \in 0..Len(c) /\ Len(c) \in Nat
        BY <2>1, <2>2 DEF m
      <3>4. QED
        BY <3>1, <3>2, <3>3, FoldUnique
    <2>4. QED
      BY <2>1, <2>3 DEF c, g, m
  <1>2. QED
    BY <1>1 DEF LegalBatch

\* Every state a legal batch folds through is a run state, one seq later each.
LEMMA BatchTyped ==
  ASSUME NEW s, IsRunState(s), NEW b \in Seq(EventBodies), LegalBatch(s, b)
  PROVE  \A i \in 0..Len(b) : /\ IsRunState(Folded(s, b)[i])
                              /\ Folded(s, b)[i].lastSeq = s.lastSeq + i
  <1> DEFINE f == Folded(s, b)
             S == {i \in 0..Len(b) : IsRunState(f[i]) /\ f[i].lastSeq = s.lastSeq + i}
  <1>0. Len(b) \in Nat /\ s.lastSeq \in Nat
    BY DEF IsRunState
  <1>1. /\ f[0] = s
        /\ \A i \in 1..Len(b) : /\ f[i] = Reduce(f[i - 1], b[i])
                                /\ Legal(f[i - 1], b[i])
                                /\ b[i] \in EventBodies
    BY <1>0, FoldedIs, LegalBatchIs, ElementOfSeq
  <1> HIDE DEF f
  <1>2. 0 \in S
    BY <1>0, <1>1
  <1>3. ASSUME NEW i \in 0..Len(b), i < Len(b), i \in S
        PROVE  i + 1 \in S
    <2>1. i + 1 \in 1..Len(b) /\ (i + 1) - 1 = i /\ i + 1 \in 0..Len(b)
      BY <1>0, <1>3
    <2>2. f[i + 1] = Reduce(f[i], b[i + 1]) /\ Legal(f[i], b[i + 1]) /\ b[i + 1] \in EventBodies
      BY <2>1, <1>1
    <2>3. IsRunState(f[i]) /\ f[i].lastSeq = s.lastSeq + i
      BY <1>3
    <2>4. IsRunState(f[i + 1]) /\ f[i + 1].lastSeq = f[i].lastSeq + 1
      BY <2>2, <2>3, ReduceTyped
    <2>5. QED
      BY <2>1, <2>3, <2>4, <1>0
  <1> HIDE DEF S
  <1>4. \A i \in 0..Len(b) : i \in S
    BY <1>0, <1>2, <1>3, UpTo
  <1>5. QED
    BY <1>4 DEF S, f

\* ... and a sound one, if the first is.
LEMMA BatchSound ==
  ASSUME NEW s, IsRunState(s), RunInv(s), NEW b \in Seq(EventBodies), LegalBatch(s, b)
  PROVE  \A i \in 0..Len(b) : RunInv(Folded(s, b)[i])
  <1> DEFINE f == Folded(s, b)
             S == {i \in 0..Len(b) : RunInv(f[i])}
  <1>0. Len(b) \in Nat
    OBVIOUS
  <1>1. /\ f[0] = s
        /\ \A i \in 1..Len(b) : /\ f[i] = Reduce(f[i - 1], b[i])
                                /\ Legal(f[i - 1], b[i])
                                /\ b[i] \in EventBodies
        /\ \A i \in 0..Len(b) : IsRunState(f[i])
    BY <1>0, FoldedIs, LegalBatchIs, ElementOfSeq, BatchTyped
  <1> HIDE DEF f
  <1>2. 0 \in S
    BY <1>0, <1>1
  <1>3. ASSUME NEW i \in 0..Len(b), i < Len(b), i \in S
        PROVE  i + 1 \in S
    <2>1. i + 1 \in 1..Len(b) /\ (i + 1) - 1 = i /\ i + 1 \in 0..Len(b)
      BY <1>0, <1>3
    <2>2. /\ f[i + 1] = Reduce(f[i], b[i + 1]) /\ Legal(f[i], b[i + 1])
          /\ b[i + 1] \in EventBodies /\ IsRunState(f[i]) /\ RunInv(f[i])
      BY <2>1, <1>1, <1>3
    <2>3. RunInv(f[i + 1])
      BY <2>2, ReduceSound
    <2>4. QED
      BY <2>1, <2>3
  <1> HIDE DEF S
  <1>4. \A i \in 0..Len(b) : i \in S
    BY <1>0, <1>2, <1>3, UpTo
  <1>5. QED
    BY <1>4 DEF S, f

\* The batches of no body, of one and of two.
LEMMA NoBody ==
  ASSUME NEW s
  PROVE  LegalBatch(s, <<>>) /\ ReduceBatch(s, <<>>) = s
  <1>1. Len(<<>>) = 0 /\ <<>> \in Seq(EventBodies)
    OBVIOUS
  <1>2. QED
    BY <1>1, FoldedIs DEF LegalBatch, ReduceBatch

LEMMA OneBody ==
  ASSUME NEW s, NEW e
  PROVE  /\ LegalBatch(s, <<e>>) <=> Legal(s, e)
         /\ ReduceBatch(s, <<e>>) = Reduce(s, e)
  <1> DEFINE b == <<e>>
  <1>1. Len(b) = 1 /\ b[1] = e /\ b \in Seq({e}) /\ 1..1 = {1}
    OBVIOUS
  <1> HIDE DEF b
  <1>2. Folded(s, b)[0] = s /\ Folded(s, b)[1] = Reduce(s, e)
    <2>1. /\ Folded(s, b)[0] = s
          /\ \A i \in 1..Len(b) : Folded(s, b)[i] = Reduce(Folded(s, b)[i - 1], b[i])
      BY <1>1, FoldedIs
    <2>2. 1 \in 1..Len(b) /\ 1 - 1 = 0
      BY <1>1
    <2>3. QED
      BY <2>1, <2>2, <1>1
  <1>3. LegalBatch(s, b) <=> Legal(s, e)
    <2>1. LegalBatch(s, b) <=> \A i \in 1..Len(b) : Legal(Folded(s, b)[i - 1], b[i])
      BY <1>1, LegalBatchIs
    <2>2. \A i \in 1..Len(b) : i = 1 /\ i - 1 = 0
      BY <1>1
    <2>3. 1 \in 1..Len(b)
      BY <1>1
    <2>4. QED
      BY <2>1, <2>2, <2>3, <1>1, <1>2
  <1>4. QED
    BY <1>1, <1>2, <1>3 DEF ReduceBatch, b

LEMMA TwoBodies ==
  ASSUME NEW s, NEW e, NEW d
  PROVE  /\ LegalBatch(s, <<e, d>>) <=> Legal(s, e) /\ Legal(Reduce(s, e), d)
         /\ ReduceBatch(s, <<e, d>>) = Reduce(Reduce(s, e), d)
  <1> DEFINE b == <<e, d>>
  <1>1. Len(b) = 2 /\ b[1] = e /\ b[2] = d /\ b \in Seq({e, d})
    OBVIOUS
  <1> HIDE DEF b
  <1>2. /\ Folded(s, b)[0] = s /\ Folded(s, b)[1] = Reduce(s, e)
        /\ Folded(s, b)[2] = Reduce(Reduce(s, e), d)
    <2>1. /\ Folded(s, b)[0] = s
          /\ \A i \in 1..Len(b) : Folded(s, b)[i] = Reduce(Folded(s, b)[i - 1], b[i])
      BY <1>1, FoldedIs
    <2>2. 1 \in 1..Len(b) /\ 1 - 1 = 0 /\ 2 \in 1..Len(b) /\ 2 - 1 = 1
      BY <1>1
    <2>3. Folded(s, b)[1] = Reduce(s, e)
      BY <2>1, <2>2, <1>1
    <2>4. QED
      BY <2>1, <2>2, <2>3, <1>1
  <1>3. LegalBatch(s, b) <=> Legal(s, e) /\ Legal(Reduce(s, e), d)
    <2>1. LegalBatch(s, b) <=> \A i \in 1..Len(b) : Legal(Folded(s, b)[i - 1], b[i])
      BY <1>1, LegalBatchIs
    <2>2. \A i \in 1..Len(b) : (i = 1 /\ i - 1 = 0) \/ (i = 2 /\ i - 1 = 1)
      BY <1>1
    <2>3. 1 \in 1..Len(b) /\ 1 - 1 = 0 /\ 2 \in 1..Len(b) /\ 2 - 1 = 1
      BY <1>1
    <2>4. QED
      BY <2>1, <2>2, <2>3, <1>1, <1>2
  <1>4. QED
    BY <1>1, <1>2, <1>3 DEF ReduceBatch, b

-----------------------------------------------------------------------------
\* The order recover takes from a finite set: each member once.
LEMMA SetToSeqTyped ==
  ASSUME NEW S, IsFiniteSet(S)
  PROVE  /\ SetToSeq(S) \in Seq(S)
         /\ Len(SetToSeq(S)) = Cardinality(S)
         /\ Cardinality(S) \in Nat
         /\ \A i \in 1..Cardinality(S) : SetToSeq(S)[i] \in S
         /\ \A i, j \in 1..Cardinality(S) : SetToSeq(S)[i] = SetToSeq(S)[j] => i = j
         /\ \A x \in S : \E i \in 1..Cardinality(S) : SetToSeq(S)[i] = x
  <1> DEFINE n == Cardinality(S)
  <1>1. n \in Nat
    BY FS_CardinalityType
  <1>2. PICK f : f \in Bijection(1..n, S)
    BY FS_CardinalityType, FS_NatBijection DEF ExistsBijection
  <1>3. f \in [1..n -> S] /\ IsInjective(f)
    BY <1>2 DEF Bijection, Injection, IsInjective
  <1> DEFINE q == SetToSeq(S)
  <1>4. q \in [1..n -> S] /\ IsInjective(q)
    BY <1>3 DEF SetToSeq
  <1>5. \A i, j \in 1..n : q[i] = q[j] => i = j
    BY <1>4 DEF IsInjective
  <1>6. IsFiniteSet(1..n) /\ Cardinality(1..n) = n
    BY <1>1, FS_Interval
  <1> HIDE DEF q, n
  <1>7. q \in Injection(1..n, S)
    BY <1>4, <1>5 DEF Injection, IsInjective
  <1>8. q \in Surjection(1..n, S)
    BY <1>6, <1>7, FS_Injection DEF n
  <1>9. \A x \in S : \E i \in 1..n : q[i] = x
    BY <1>8 DEF Surjection
  <1>10. QED
    BY <1>1, <1>4, <1>5, <1>9 DEF q, n

\* The rows of recover: an interruption and a gate for each running attempt, in that
\* order, then a gate for each idle step.
AttemptOrder(s) == SetToSeq(RunningAttempts(s))
StepOrder(s) == SetToSeq(IdleSteps(s))

\* Where the first i rows of recover leave state s.
Interrupted(s, i) ==
  {AttemptOrder(s)[j] : j \in {k \in 1..Len(AttemptOrder(s)) : 2 * k - 1 <= i}}
GatedAttempts(s, i) ==
  {AttemptOrder(s)[j] : j \in {k \in 1..Len(AttemptOrder(s)) : 2 * k <= i}}
GatedSteps(s, i) ==
  {StepOrder(s)[j] : j \in {k \in 1..Len(StepOrder(s)) : 2 * Len(AttemptOrder(s)) + k <= i}}

IsRecovered(t, s, i) ==
  /\ t.status = s.status /\ t.steps = s.steps /\ t.lastSeq = s.lastSeq + i
  /\ DOMAIN t.attempts = DOMAIN s.attempts
  /\ \A a \in DOMAIN s.attempts :
       /\ t.attempts[a].step = s.attempts[a].step
       /\ t.attempts[a].status =
            IF a \in Interrupted(s, i) THEN "interrupted" ELSE s.attempts[a].status
  /\ DOMAIN t.gates = DOMAIN s.gates
       \cup {InterruptedGate(a) : a \in GatedAttempts(s, i)}
       \cup {InterruptedStepGate(st, s.lastSeq) : st \in GatedSteps(s, i)}
  /\ \A g \in DOMAIN s.gates : t.gates[g] = s.gates[g]
  /\ \A a \in GatedAttempts(s, i) :
       /\ t.gates[InterruptedGate(a)].step = s.attempts[a].step
       /\ t.gates[InterruptedGate(a)].status = "open"
  /\ \A st \in GatedSteps(s, i) :
       /\ t.gates[InterruptedStepGate(st, s.lastSeq)].step = st
       /\ t.gates[InterruptedStepGate(st, s.lastSeq)].status = "open"

\* A step's recovery gates carry the seq of the recovery that raised them, which is past.
StepGatesPast(s) ==
  \A g \in DOMAIN s.gates : g.name = "interrupted-step" => g.at < s.lastSeq

LEMMA OrdersTyped ==
  ASSUME NEW s, IsRunState(s)
  PROVE  /\ Len(AttemptOrder(s)) \in Nat /\ Len(StepOrder(s)) \in Nat
         /\ \A j \in 1..Len(AttemptOrder(s)) : AttemptOrder(s)[j] \in RunningAttempts(s)
         /\ \A j \in 1..Len(StepOrder(s)) : StepOrder(s)[j] \in IdleSteps(s)
         /\ \A i, j \in 1..Len(AttemptOrder(s)) :
              AttemptOrder(s)[i] = AttemptOrder(s)[j] => i = j
         /\ \A i, j \in 1..Len(StepOrder(s)) : StepOrder(s)[i] = StepOrder(s)[j] => i = j
         /\ \A a \in RunningAttempts(s) :
              \E j \in 1..Len(AttemptOrder(s)) : AttemptOrder(s)[j] = a
         /\ \A st \in IdleSteps(s) : \E j \in 1..Len(StepOrder(s)) : StepOrder(s)[j] = st
         /\ RunningAttempts(s) \subseteq DOMAIN s.attempts
         /\ IdleSteps(s) \subseteq DOMAIN s.steps
  <1>1. IsMap(s.steps, Steps, StepRecords) /\ IsMap(s.attempts, Attempts, AttemptRecords)
    BY DEF IsRunState
  <1>2. /\ RunningAttempts(s) \subseteq DOMAIN s.attempts
        /\ IdleSteps(s) \subseteq DOMAIN s.steps
    BY DEF RunningAttempts, IdleSteps
  <1>3. IsFiniteSet(RunningAttempts(s)) /\ IsFiniteSet(IdleSteps(s))
    BY <1>1, <1>2, FS_Subset DEF IsMap
  <1>4. QED
    BY <1>2, <1>3, SetToSeqTyped DEF AttemptOrder, StepOrder

\* The row at each place.
LEMMA RecoverRows ==
  ASSUME NEW s, IsRunState(s), NEW i \in 1..Len(Recover(s))
  PROVE  /\ Len(Recover(s)) = 2 * Len(AttemptOrder(s)) + Len(StepOrder(s))
         /\ \/ \E j \in 1..Len(AttemptOrder(s)) :
                 /\ i = 2 * j - 1
                 /\ Recover(s)[i] = AttemptFinished(AttemptOrder(s)[j], "interrupted")
            \/ \E j \in 1..Len(AttemptOrder(s)) :
                 /\ i = 2 * j
                 /\ Recover(s)[i] =
                      GateRaised(InterruptedGate(AttemptOrder(s)[j]),
                                 s.attempts[AttemptOrder(s)[j]].step, "interrupted-attempt",
                                 RecoveryCommands)
            \/ \E j \in 1..Len(StepOrder(s)) :
                 /\ i = 2 * Len(AttemptOrder(s)) + j
                 /\ Recover(s)[i] =
                      GateRaised(InterruptedStepGate(StepOrder(s)[j], s.lastSeq),
                                 StepOrder(s)[j], "interrupted-step", RecoveryCommands)
  <1> DEFINE as == AttemptOrder(s)
             sts == StepOrder(s)
             p == Len(as)
             q == Len(sts)
             Interrupt(a) == AttemptFinished(a, "interrupted")
             AttemptGate(a) ==
               GateRaised(InterruptedGate(a), s.attempts[a].step, "interrupted-attempt",
                          RecoveryCommands)
             StepGate(st) ==
               GateRaised(InterruptedStepGate(st, s.lastSeq), st, "interrupted-step",
                          RecoveryCommands)
  <1>1. Recover(s) = [k \in 1..(2 * p + q) |->
                        IF k > 2 * p THEN StepGate(sts[k - 2 * p])
                        ELSE IF k % 2 = 1 THEN Interrupt(as[(k + 1) \div 2])
                        ELSE AttemptGate(as[k \div 2])]
    BY DEF Recover, AttemptOrder, StepOrder
  <1>2. p \in Nat /\ q \in Nat
    BY OrdersTyped
  <1> HIDE DEF p, q, as, sts, Interrupt, AttemptGate, StepGate
  <1>3. Len(Recover(s)) = 2 * p + q /\ i \in 1..(2 * p + q)
    BY <1>1, <1>2
  <1>4. CASE i > 2 * p
    <2>1. i - 2 * p \in 1..q /\ i = 2 * p + (i - 2 * p)
      BY <1>2, <1>3, <1>4
    <2>2. Recover(s)[i] = StepGate(sts[i - 2 * p])
      BY <1>1, <1>3, <1>4
    <2>3. QED
      BY <2>1, <2>2, <1>3 DEF p, q, as, sts, StepGate
  <1>5. CASE ~(i > 2 * p) /\ i % 2 = 1
    <2>1. (i + 1) \div 2 \in 1..p /\ i = 2 * ((i + 1) \div 2) - 1
      BY <1>2, <1>3, <1>5
    <2>2. Recover(s)[i] = Interrupt(as[(i + 1) \div 2])
      BY <1>1, <1>3, <1>5
    <2>3. QED
      BY <2>1, <2>2, <1>3 DEF p, q, as, sts, Interrupt
  <1>6. CASE ~(i > 2 * p) /\ i % 2 # 1
    <2>1. i \div 2 \in 1..p /\ i = 2 * (i \div 2)
      BY <1>2, <1>3, <1>6
    <2>2. Recover(s)[i] = AttemptGate(as[i \div 2])
      BY <1>1, <1>3, <1>6
    <2>3. QED
      BY <2>1, <2>2, <1>3 DEF p, q, as, sts, AttemptGate
  <1>7. QED
    BY <1>4, <1>5, <1>6

\* recover returns well-typed bodies.
LEMMA RecoverTyped ==
  ASSUME NEW s, IsRunState(s)
  PROVE  Recover(s) \in Seq(EventBodies)
  <1> DEFINE n == 2 * Len(AttemptOrder(s)) + Len(StepOrder(s))
  <1>1. /\ IsMap(s.steps, Steps, StepRecords) /\ IsMap(s.attempts, Attempts, AttemptRecords)
        /\ s.lastSeq \in Nat
    BY DEF IsRunState
  <1>2. ASSUME NEW a \in RunningAttempts(s)
        PROVE  /\ AttemptFinished(a, "interrupted") \in EventBodies
               /\ GateRaised(InterruptedGate(a), s.attempts[a].step, "interrupted-attempt",
                             RecoveryCommands) \in EventBodies
    <2>1. a \in Attempts /\ s.attempts[a].step \in Steps
      BY <1>1 DEF IsMap, AttemptRecords, RunningAttempts
    <2>2. InterruptedGate(a) \in GateIds /\ "interrupted-attempt" \in GateKinds
          /\ RecoveryCommands \in SUBSET Commands /\ "interrupted" \in AttemptOutcomes
      BY <2>1 DEF InterruptedGate, GateIds, GateKinds, RecoveryCommands, Commands,
                  AttemptOutcomes
    <2>3. QED
      BY <2>1, <2>2 DEF EventBodies, AttemptFinished, GateRaised
  <1>3. ASSUME NEW st \in IdleSteps(s)
        PROVE  GateRaised(InterruptedStepGate(st, s.lastSeq), st, "interrupted-step",
                          RecoveryCommands) \in EventBodies
    <2>1. st \in Steps
      BY <1>1 DEF IsMap, IdleSteps
    <2>2. InterruptedStepGate(st, s.lastSeq) \in GateIds /\ "interrupted-step" \in GateKinds
          /\ RecoveryCommands \in SUBSET Commands
      BY <2>1, <1>1 DEF InterruptedStepGate, GateIds, GateKinds, RecoveryCommands, Commands
    <2>3. QED
      BY <2>1, <2>2 DEF EventBodies, GateRaised
  <1>4. /\ Len(AttemptOrder(s)) \in Nat /\ Len(StepOrder(s)) \in Nat
        /\ \A j \in 1..Len(AttemptOrder(s)) : AttemptOrder(s)[j] \in RunningAttempts(s)
        /\ \A j \in 1..Len(StepOrder(s)) : StepOrder(s)[j] \in IdleSteps(s)
    BY OrdersTyped
  <1>5. n \in Nat /\ DOMAIN Recover(s) = 1..n /\ Len(Recover(s)) = n
        /\ Recover(s) = [i \in 1..n |-> Recover(s)[i]]
    BY <1>4 DEF Recover, AttemptOrder, StepOrder
  <1>6. ASSUME NEW i \in 1..n
        PROVE  Recover(s)[i] \in EventBodies
    <2>1. i \in 1..Len(Recover(s))
      BY <1>5
    <2>2. CASE \E j \in 1..Len(AttemptOrder(s)) :
                 Recover(s)[i] = AttemptFinished(AttemptOrder(s)[j], "interrupted")
      BY <2>2, <1>2, <1>4
    <2>3. CASE \E j \in 1..Len(AttemptOrder(s)) :
                 Recover(s)[i] =
                   GateRaised(InterruptedGate(AttemptOrder(s)[j]),
                              s.attempts[AttemptOrder(s)[j]].step, "interrupted-attempt",
                              RecoveryCommands)
      BY <2>3, <1>2, <1>4
    <2>4. CASE \E j \in 1..Len(StepOrder(s)) :
                 Recover(s)[i] =
                   GateRaised(InterruptedStepGate(StepOrder(s)[j], s.lastSeq),
                              StepOrder(s)[j], "interrupted-step", RecoveryCommands)
      BY <2>4, <1>3, <1>4
    <2> HIDE DEF n
    <2> QED BY <2>1, <2>2, <2>3, <2>4, RecoverRows
  <1> HIDE DEF n
  <1>7. Recover(s) \in [1..n -> EventBodies]
    BY <1>5, <1>6
  <1>8. QED
    BY <1>5, <1>7, SeqDef

\* What one more row adds to what is recovered.
LEMMA InterruptRow ==
  ASSUME NEW s, IsRunState(s), NEW i \in Nat, NEW j \in 1..Len(AttemptOrder(s)), i = 2 * j - 1
  PROVE  /\ Interrupted(s, i) = Interrupted(s, i - 1) \cup {AttemptOrder(s)[j]}
         /\ AttemptOrder(s)[j] \notin Interrupted(s, i - 1)
         /\ GatedAttempts(s, i) = GatedAttempts(s, i - 1)
         /\ GatedSteps(s, i) = GatedSteps(s, i - 1)
  <1> DEFINE as == AttemptOrder(s)
             p == Len(as)
             q == Len(StepOrder(s))
  <1>1. p \in Nat /\ q \in Nat /\ \A k, l \in 1..p : as[k] = as[l] => k = l
    BY OrdersTyped
  <1> HIDE DEF p, q
  <1>2. {k \in 1..p : 2 * k - 1 <= i} = {k \in 1..p : 2 * k - 1 <= i - 1} \cup {j}
    BY <1>1 DEF p
  <1>3. j \notin {k \in 1..p : 2 * k - 1 <= i - 1} /\ j \in 1..p
    BY <1>1 DEF p
  <1>4. {k \in 1..p : 2 * k <= i} = {k \in 1..p : 2 * k <= i - 1}
    BY <1>1
  <1>5. {k \in 1..q : 2 * p + k <= i} = {k \in 1..q : 2 * p + k <= i - 1}
    BY <1>1, <1>3
  <1> HIDE DEF as
  <1>6. /\ Interrupted(s, i) = Interrupted(s, i - 1) \cup {as[j]}
        /\ as[j] \notin Interrupted(s, i - 1)
    BY <1>1, <1>2, <1>3 DEF Interrupted, as, p
  <1>7. GatedAttempts(s, i) = GatedAttempts(s, i - 1)
    BY <1>4 DEF GatedAttempts, p, as
  <1>8. GatedSteps(s, i) = GatedSteps(s, i - 1)
    BY <1>5 DEF GatedSteps, p, q, as
  <1>9. QED
    BY <1>6, <1>7, <1>8 DEF as

LEMMA AttemptGateRow ==
  ASSUME NEW s, IsRunState(s), NEW i \in Nat, NEW j \in 1..Len(AttemptOrder(s)), i = 2 * j
  PROVE  /\ Interrupted(s, i) = Interrupted(s, i - 1)
         /\ AttemptOrder(s)[j] \in Interrupted(s, i - 1)
         /\ GatedAttempts(s, i) = GatedAttempts(s, i - 1) \cup {AttemptOrder(s)[j]}
         /\ AttemptOrder(s)[j] \notin GatedAttempts(s, i - 1)
         /\ GatedSteps(s, i) = GatedSteps(s, i - 1)
  <1> DEFINE as == AttemptOrder(s)
             p == Len(as)
             q == Len(StepOrder(s))
  <1>1. p \in Nat /\ q \in Nat /\ \A k, l \in 1..p : as[k] = as[l] => k = l
    BY OrdersTyped
  <1> HIDE DEF p, q
  <1>2. {k \in 1..p : 2 * k <= i} = {k \in 1..p : 2 * k <= i - 1} \cup {j}
    BY <1>1 DEF p
  <1>3. /\ j \notin {k \in 1..p : 2 * k <= i - 1} /\ j \in 1..p
        /\ j \in {k \in 1..p : 2 * k - 1 <= i - 1}
    BY <1>1 DEF p
  <1>4. {k \in 1..p : 2 * k - 1 <= i} = {k \in 1..p : 2 * k - 1 <= i - 1}
    BY <1>1
  <1>5. {k \in 1..q : 2 * p + k <= i} = {k \in 1..q : 2 * p + k <= i - 1}
    BY <1>1, <1>3
  <1> HIDE DEF as
  <1>6. /\ GatedAttempts(s, i) = GatedAttempts(s, i - 1) \cup {as[j]}
        /\ as[j] \notin GatedAttempts(s, i - 1)
    BY <1>1, <1>2, <1>3 DEF GatedAttempts, as, p
  <1>7. Interrupted(s, i) = Interrupted(s, i - 1) /\ as[j] \in Interrupted(s, i - 1)
    BY <1>3, <1>4 DEF Interrupted, p, as
  <1>8. GatedSteps(s, i) = GatedSteps(s, i - 1)
    BY <1>5 DEF GatedSteps, p, q, as
  <1>9. QED
    BY <1>6, <1>7, <1>8 DEF as

LEMMA StepGateRow ==
  ASSUME NEW s, IsRunState(s), NEW i \in Nat, NEW j \in 1..Len(StepOrder(s)),
         i = 2 * Len(AttemptOrder(s)) + j
  PROVE  /\ Interrupted(s, i) = Interrupted(s, i - 1)
         /\ GatedAttempts(s, i) = GatedAttempts(s, i - 1)
         /\ GatedSteps(s, i) = GatedSteps(s, i - 1) \cup {StepOrder(s)[j]}
         /\ StepOrder(s)[j] \notin GatedSteps(s, i - 1)
  <1> DEFINE as == AttemptOrder(s)
             sts == StepOrder(s)
             p == Len(as)
             q == Len(sts)
  <1>1. p \in Nat /\ q \in Nat /\ \A k, l \in 1..q : sts[k] = sts[l] => k = l
    BY OrdersTyped
  <1>0. i = 2 * p + j /\ j \in 1..q
    OBVIOUS
  <1> HIDE DEF p, q
  <1>2. {k \in 1..p : 2 * k <= i} = {k \in 1..p : 2 * k <= i - 1}
    BY <1>0, <1>1
  <1>3. {k \in 1..p : 2 * k - 1 <= i} = {k \in 1..p : 2 * k - 1 <= i - 1}
    BY <1>0, <1>1
  <1>4. {k \in 1..q : 2 * p + k <= i} = {k \in 1..q : 2 * p + k <= i - 1} \cup {j}
    BY <1>0, <1>1
  <1>5. j \notin {k \in 1..q : 2 * p + k <= i - 1}
    BY <1>0, <1>1
  <1> HIDE DEF as, sts
  <1>6. GatedAttempts(s, i) = GatedAttempts(s, i - 1)
    BY <1>2 DEF GatedAttempts, as, p
  <1>7. Interrupted(s, i) = Interrupted(s, i - 1)
    BY <1>3 DEF Interrupted, p, as
  <1>8. /\ GatedSteps(s, i) = GatedSteps(s, i - 1) \cup {sts[j]}
        /\ sts[j] \notin GatedSteps(s, i - 1)
    BY <1>0, <1>1, <1>4, <1>5 DEF GatedSteps, p, q, as, sts
  <1>9. QED
    BY <1>6, <1>7, <1>8 DEF sts

\* Nothing of an empty recovery...
LEMMA NothingRecovered ==
  ASSUME NEW s, IsRunState(s)
  PROVE  IsRecovered(s, s, 0)
  <1>1. Interrupted(s, 0) = {} /\ GatedAttempts(s, 0) = {} /\ GatedSteps(s, 0) = {}
    BY OrdersTyped DEF Interrupted, GatedAttempts, GatedSteps
  <1>2. QED
    BY <1>1 DEF IsRecovered, IsRunState

\* ... and a whole one leaves no running attempt, and no running step without a gate.
LEMMA WholeRecovered ==
  ASSUME NEW s, IsRunState(s), NEW i, i = Len(Recover(s))
  PROVE  /\ Interrupted(s, i) = RunningAttempts(s)
         /\ GatedAttempts(s, i) = RunningAttempts(s)
         /\ GatedSteps(s, i) = IdleSteps(s)
  <1> DEFINE as == AttemptOrder(s)
             sts == StepOrder(s)
             p == Len(as)
             q == Len(sts)
  <1>1. /\ p \in Nat /\ q \in Nat
        /\ \A j \in 1..p : as[j] \in RunningAttempts(s)
        /\ \A j \in 1..q : sts[j] \in IdleSteps(s)
        /\ \A a \in RunningAttempts(s) : \E j \in 1..p : as[j] = a
        /\ \A st \in IdleSteps(s) : \E j \in 1..q : sts[j] = st
    BY OrdersTyped
  <1>2. i = 2 * p + q
    BY <1>1 DEF Recover, AttemptOrder, StepOrder
  <1> HIDE DEF p, q
  <1>3. /\ {k \in 1..p : 2 * k <= i} = 1..p /\ {k \in 1..p : 2 * k - 1 <= i} = 1..p
        /\ {k \in 1..q : 2 * p + k <= i} = 1..q
    BY <1>1, <1>2
  <1> HIDE DEF as, sts
  <1>4. QED
    BY ZenonT(60), <1>1, <1>3 DEF Interrupted, GatedAttempts, GatedSteps, p, q, as, sts

\* The state a recovery starts from, and what it is allowed to find.
Recoverable(s) == IsRunState(s) /\ RunInv(s) /\ StepGatesPast(s)

LEMMA RunningInActive ==
  ASSUME NEW s, IsRunState(s), RunInv(s),
         RunningAttempts(s) # {} \/ IdleSteps(s) # {}
  PROVE  s.status = "active"
  <1>1. s.status # "ended"
    BY DEF RunInv, EndedIsSettled, Settled, RunningAttempts, IdleSteps
  <1>2. s.status # "none"
    <2> SUFFICES ASSUME s = NullRun PROVE FALSE
      BY DEF RunInv
    <2>1. DOMAIN s.attempts = {} /\ DOMAIN s.steps = {}
      BY DEF NullRun, EmptyMap
    <2>2. QED
      BY <2>1 DEF RunningAttempts, IdleSteps
  <1>3. QED
    BY <1>1, <1>2 DEF IsRunState

LEMMA InterruptIsNext ==
  ASSUME NEW s, Recoverable(s), NEW i \in Nat, NEW j \in 1..Len(AttemptOrder(s)),
         i = 2 * j - 1, NEW t, IsRecovered(t, s, i - 1)
  PROVE  LET e == AttemptFinished(AttemptOrder(s)[j], "interrupted")
         IN  Legal(t, e) /\ IsRecovered(Reduce(t, e), s, i)
  <1> DEFINE a == AttemptOrder(s)[j]
             e == AttemptFinished(a, "interrupted")
             u == Reduce(t, e)
  <1>0. /\ a \in RunningAttempts(s) /\ a \in DOMAIN s.attempts
        /\ s.attempts[a].status = "running" /\ s.lastSeq \in Nat
    BY ZenonT(60), OrdersTyped DEF Recoverable, RunningAttempts, IsRunState
  <1>1. /\ Interrupted(s, i) = Interrupted(s, i - 1) \cup {a}
        /\ a \notin Interrupted(s, i - 1)
        /\ GatedAttempts(s, i) = GatedAttempts(s, i - 1)
        /\ GatedSteps(s, i) = GatedSteps(s, i - 1)
    BY InterruptRow DEF Recoverable
  <1>2. s.status = "active"
    BY <1>0, RunningInActive DEF Recoverable
  <1>3. e.type = "attempt.finished" /\ e.attempt = a /\ e.outcome = "interrupted"
    BY DEF AttemptFinished
  <1> HIDE DEF e, a
  <1>4. Legal(t, e)
    BY <1>0, <1>1, <1>2, <1>3 DEF Legal, IsRecovered, RunningAttempt
  <1>5. /\ u.status = t.status /\ u.lastSeq = t.lastSeq + 1 /\ u.steps = t.steps
        /\ u.gates = t.gates
        /\ u.attempts = Put(t.attempts, a, [step |-> t.attempts[a].step,
                                            status |-> "interrupted"])
    BY <1>3 DEF Reduce, StepsAfter, AttemptsAfter, GatesAfter
  <1> HIDE DEF u
  <1> DEFINE r == [step |-> t.attempts[a].step, status |-> "interrupted"]
  <1>6. r.step = s.attempts[a].step /\ r.status = "interrupted"
    BY <1>0 DEF IsRecovered
  <1>7. u.attempts = Put(t.attempts, a, r)
    BY <1>5
  <1> HIDE DEF r
  <1>8. /\ DOMAIN u.attempts = DOMAIN s.attempts
        /\ u.attempts[a] = r
        /\ \A x \in DOMAIN s.attempts : x # a => u.attempts[x] = t.attempts[x]
    BY <1>0, <1>7 DEF Put, IsRecovered
  <1>9. u.lastSeq = s.lastSeq + i
    BY <1>0, <1>5 DEF IsRecovered
  <1>10. IsRecovered(u, s, i)
    <2>1. ASSUME NEW x \in DOMAIN s.attempts
          PROVE  /\ u.attempts[x].step = s.attempts[x].step
                 /\ u.attempts[x].status =
                      IF x \in Interrupted(s, i) THEN "interrupted" ELSE s.attempts[x].status
      <3>1. CASE x = a
        BY <3>1, <1>1, <1>6, <1>8
      <3>2. CASE x # a
        BY <3>2, <1>1, <1>8 DEF IsRecovered
      <3>3. QED
        BY <3>1, <3>2
    <2>2. u.status = s.status /\ u.steps = s.steps /\ u.gates = t.gates
      BY <1>5 DEF IsRecovered
    <2>3. QED
      BY <2>1, <2>2, <1>1, <1>8, <1>9 DEF IsRecovered
  <1>11. QED
    BY <1>4, <1>10 DEF a, e, u

LEMMA AttemptGateIsNext ==
  ASSUME NEW s, Recoverable(s), NEW i \in Nat, NEW j \in 1..Len(AttemptOrder(s)),
         i = 2 * j, NEW t, IsRecovered(t, s, i - 1)
  PROVE  LET a == AttemptOrder(s)[j]
             e == GateRaised(InterruptedGate(a), s.attempts[a].step,
                             "interrupted-attempt", RecoveryCommands)
         IN  Legal(t, e) /\ IsRecovered(Reduce(t, e), s, i)
  <1> DEFINE a == AttemptOrder(s)[j]
             g == InterruptedGate(a)
             e == GateRaised(g, s.attempts[a].step, "interrupted-attempt", RecoveryCommands)
             u == Reduce(t, e)
  <1>0. /\ a \in RunningAttempts(s) /\ a \in DOMAIN s.attempts /\ a \in Attempts
        /\ s.attempts[a].status = "running" /\ s.lastSeq \in Nat
    <2>1. IsRunState(s)
      BY DEF Recoverable
    <2>2. a \in RunningAttempts(s)
      BY <2>1, OrdersTyped
    <2>3. IsMap(s.attempts, Attempts, AttemptRecords) /\ s.lastSeq \in Nat
      BY <2>1 DEF IsRunState
    <2>4. QED
      BY <2>2, <2>3 DEF RunningAttempts, IsMap
  <1>1. /\ Interrupted(s, i) = Interrupted(s, i - 1)
        /\ a \in Interrupted(s, i - 1)
        /\ GatedAttempts(s, i) = GatedAttempts(s, i - 1) \cup {a}
        /\ a \notin GatedAttempts(s, i - 1)
        /\ GatedSteps(s, i) = GatedSteps(s, i - 1)
    BY AttemptGateRow DEF Recoverable
  <1>2. s.status = "active" /\ RunningStep(s, s.attempts[a].step)
    BY <1>0, RunningInActive DEF Recoverable, RunInv, AttemptsInRunningSteps
  <1>3. /\ e.type = "gate.raised" /\ e.gate = g /\ e.step = s.attempts[a].step
        /\ e.kind = "interrupted-attempt" /\ e.allowed = RecoveryCommands
    BY DEF GateRaised
  <1>4. g.name = "interrupted" /\ g.of = a
    BY DEF InterruptedGate
  <1>5. g \notin DOMAIN s.gates
    BY <1>0 DEF Recoverable, RunInv, RecoveryGatesTrue
  <1>6. \A b \in GatedAttempts(s, i - 1) : InterruptedGate(b) # g
    BY <1>1 DEF InterruptedGate
  <1>7. \A st \in GatedSteps(s, i - 1) : InterruptedStepGate(st, s.lastSeq) # g
    BY <1>4 DEF InterruptedStepGate
  <1> HIDE DEF e, a, g
  <1>8. g \notin DOMAIN t.gates
    BY <1>5, <1>6, <1>7 DEF IsRecovered
  <1>9. t.status = "active" /\ RunningStep(t, e.step) /\ ReservedIdOK(t, e)
    BY <1>0, <1>1, <1>2, <1>3, <1>4 DEF IsRecovered, RunningStep, ReservedIdOK
  <1>10. Legal(t, e)
    BY <1>3, <1>8, <1>9 DEF Legal
  <1> DEFINE r == [step |-> e.step, kind |-> e.kind, allowed |-> e.allowed, status |-> "open"]
  <1>11. /\ u.status = t.status /\ u.lastSeq = t.lastSeq + 1 /\ u.steps = t.steps
         /\ u.attempts = t.attempts
         /\ u.gates = Put(t.gates, g, r)
    BY <1>3 DEF Reduce, StepsAfter, AttemptsAfter, GatesAfter
  <1>12. r.step = s.attempts[a].step /\ r.status = "open"
    BY <1>3
  <1> HIDE DEF u, r
  <1>13. /\ DOMAIN u.gates = DOMAIN t.gates \cup {g} /\ u.gates[g] = r
         /\ \A x \in DOMAIN t.gates : u.gates[x] = t.gates[x]
    BY <1>8, <1>11 DEF Put
  <1>14. DOMAIN u.gates = DOMAIN s.gates
             \cup {InterruptedGate(b) : b \in GatedAttempts(s, i)}
             \cup {InterruptedStepGate(st, s.lastSeq) : st \in GatedSteps(s, i)}
    BY <1>1, <1>13 DEF IsRecovered, g
  <1>15. u.lastSeq = s.lastSeq + i
    BY <1>0, <1>11 DEF IsRecovered
  <1>16. \A x \in DOMAIN s.gates : u.gates[x] = s.gates[x]
    BY <1>13 DEF IsRecovered
  <1>17. ASSUME NEW b \in GatedAttempts(s, i)
         PROVE  /\ u.gates[InterruptedGate(b)].step = s.attempts[b].step
                /\ u.gates[InterruptedGate(b)].status = "open"
    <2>1. CASE b = a
      BY <2>1, <1>12, <1>13 DEF g
    <2>2. CASE b # a
      BY <2>2, <1>1, <1>13, <1>17 DEF IsRecovered
    <2>3. QED
      BY <2>1, <2>2
  <1>18. ASSUME NEW st \in GatedSteps(s, i)
         PROVE  /\ u.gates[InterruptedStepGate(st, s.lastSeq)].step = st
                /\ u.gates[InterruptedStepGate(st, s.lastSeq)].status = "open"
    BY <1>1, <1>13, <1>18 DEF IsRecovered
  <1>19. IsRecovered(u, s, i)
    BY <1>1, <1>11, <1>14, <1>15, <1>16, <1>17, <1>18 DEF IsRecovered
  <1>20. QED
    BY <1>10, <1>19 DEF a, g, e, u

LEMMA StepGateIsNext ==
  ASSUME NEW s, Recoverable(s), NEW i \in Nat, NEW j \in 1..Len(StepOrder(s)),
         i = 2 * Len(AttemptOrder(s)) + j, NEW t, IsRecovered(t, s, i - 1)
  PROVE  LET st == StepOrder(s)[j]
             e == GateRaised(InterruptedStepGate(st, s.lastSeq), st, "interrupted-step",
                             RecoveryCommands)
         IN  Legal(t, e) /\ IsRecovered(Reduce(t, e), s, i)
  <1> DEFINE st == StepOrder(s)[j]
             g == InterruptedStepGate(st, s.lastSeq)
             e == GateRaised(g, st, "interrupted-step", RecoveryCommands)
             u == Reduce(t, e)
  <1>0. /\ st \in IdleSteps(s) /\ RunningStep(s, st) /\ s.lastSeq \in Nat
    BY OrdersTyped DEF Recoverable, IdleSteps, RunningStep, IsRunState
  <1>1. /\ Interrupted(s, i) = Interrupted(s, i - 1)
        /\ GatedAttempts(s, i) = GatedAttempts(s, i - 1)
        /\ GatedSteps(s, i) = GatedSteps(s, i - 1) \cup {st}
        /\ st \notin GatedSteps(s, i - 1)
    BY StepGateRow DEF Recoverable
  <1>2. s.status = "active"
    BY <1>0, RunningInActive DEF Recoverable
  <1>3. /\ e.type = "gate.raised" /\ e.gate = g /\ e.step = st
        /\ e.kind = "interrupted-step" /\ e.allowed = RecoveryCommands
    BY DEF GateRaised
  <1>4. g.name = "interrupted-step" /\ g.of = st /\ g.at = s.lastSeq
    BY DEF InterruptedStepGate
  <1>5. g \notin DOMAIN s.gates
    BY <1>0, <1>4 DEF Recoverable, StepGatesPast
  <1>6. \A b \in GatedAttempts(s, i - 1) : InterruptedGate(b) # g
    BY <1>4 DEF InterruptedGate
  <1>7. \A x \in GatedSteps(s, i - 1) : InterruptedStepGate(x, s.lastSeq) # g
    BY <1>1 DEF InterruptedStepGate
  <1> HIDE DEF e, st, g
  <1>8. g \notin DOMAIN t.gates
    BY <1>5, <1>6, <1>7 DEF IsRecovered
  <1>9. t.status = "active" /\ RunningStep(t, e.step) /\ ReservedIdOK(t, e)
    BY <1>0, <1>2, <1>3, <1>4 DEF IsRecovered, RunningStep, ReservedIdOK
  <1>10. Legal(t, e)
    BY <1>3, <1>8, <1>9 DEF Legal
  <1> DEFINE r == [step |-> e.step, kind |-> e.kind, allowed |-> e.allowed, status |-> "open"]
  <1>11. /\ u.status = t.status /\ u.lastSeq = t.lastSeq + 1 /\ u.steps = t.steps
         /\ u.attempts = t.attempts
         /\ u.gates = Put(t.gates, g, r)
    BY <1>3 DEF Reduce, StepsAfter, AttemptsAfter, GatesAfter
  <1>12. r.step = st /\ r.status = "open"
    BY <1>3
  <1> HIDE DEF u, r
  <1>13. /\ DOMAIN u.gates = DOMAIN t.gates \cup {g} /\ u.gates[g] = r
         /\ \A x \in DOMAIN t.gates : u.gates[x] = t.gates[x]
    BY <1>8, <1>11 DEF Put
  <1>14. DOMAIN u.gates = DOMAIN s.gates
             \cup {InterruptedGate(b) : b \in GatedAttempts(s, i)}
             \cup {InterruptedStepGate(x, s.lastSeq) : x \in GatedSteps(s, i)}
    BY <1>1, <1>13 DEF IsRecovered, g
  <1>15. u.lastSeq = s.lastSeq + i
    BY <1>0, <1>11 DEF IsRecovered
  <1>16. \A x \in DOMAIN s.gates : u.gates[x] = s.gates[x]
    BY <1>13 DEF IsRecovered
  <1>17. ASSUME NEW b \in GatedAttempts(s, i)
         PROVE  /\ u.gates[InterruptedGate(b)].step = s.attempts[b].step
                /\ u.gates[InterruptedGate(b)].status = "open"
    BY <1>1, <1>13, <1>17 DEF IsRecovered
  <1>18. ASSUME NEW x \in GatedSteps(s, i)
         PROVE  /\ u.gates[InterruptedStepGate(x, s.lastSeq)].step = x
                /\ u.gates[InterruptedStepGate(x, s.lastSeq)].status = "open"
    <2>1. CASE x = st
      BY <2>1, <1>12, <1>13 DEF g
    <2>2. CASE x # st
      BY <2>2, <1>1, <1>13, <1>18 DEF IsRecovered
    <2>3. QED
      BY <2>1, <2>2
  <1>19. IsRecovered(u, s, i)
    BY <1>1, <1>11, <1>14, <1>15, <1>16, <1>17, <1>18 DEF IsRecovered
  <1>20. QED
    BY <1>10, <1>19 DEF st, g, e, u

\* The next row of a recovery is legal where the ones before it have led.
LEMMA RecoveryGoesOn ==
  ASSUME NEW s, Recoverable(s), NEW i \in 1..Len(Recover(s)), NEW t, IsRecovered(t, s, i - 1)
  PROVE  Legal(t, Recover(s)[i]) /\ IsRecovered(Reduce(t, Recover(s)[i]), s, i)
  <1>1. IsRunState(s) /\ i \in Nat
    BY DEF Recoverable
  <1> DEFINE e == Recover(s)[i]
  <1>2. ASSUME NEW j \in 1..Len(AttemptOrder(s)), i = 2 * j - 1,
               e = AttemptFinished(AttemptOrder(s)[j], "interrupted")
        PROVE  Legal(t, e) /\ IsRecovered(Reduce(t, e), s, i)
    BY <1>1, <1>2, InterruptIsNext
  <1>3. ASSUME NEW j \in 1..Len(AttemptOrder(s)), i = 2 * j,
               e = GateRaised(InterruptedGate(AttemptOrder(s)[j]),
                              s.attempts[AttemptOrder(s)[j]].step, "interrupted-attempt",
                              RecoveryCommands)
        PROVE  Legal(t, e) /\ IsRecovered(Reduce(t, e), s, i)
    BY <1>1, <1>3, AttemptGateIsNext
  <1>4. ASSUME NEW j \in 1..Len(StepOrder(s)), i = 2 * Len(AttemptOrder(s)) + j,
               e = GateRaised(InterruptedStepGate(StepOrder(s)[j], s.lastSeq),
                              StepOrder(s)[j], "interrupted-step", RecoveryCommands)
        PROVE  Legal(t, e) /\ IsRecovered(Reduce(t, e), s, i)
    BY <1>1, <1>4, StepGateIsNext
  <1>5. QED
    BY <1>1, <1>2, <1>3, <1>4, RecoverRows

\* recover is never refused: all its rows are legal one after the other.
LEMMA RecoveryFolds ==
  ASSUME NEW s, Recoverable(s), Recover(s) \in Seq(EventBodies)
  PROVE  /\ LegalBatch(s, Recover(s))
         /\ IsRecovered(ReduceBatch(s, Recover(s)), s, Len(Recover(s)))
  <1> DEFINE b == Recover(s)
             n == Len(b)
             f == Folded(s, b)
             S == {i \in 0..n : IsRecovered(f[i], s, i)}
  <1>0. n \in Nat /\ IsRunState(s)
    BY DEF Recoverable
  <1>1. f[0] = s /\ \A i \in 1..n : f[i] = Reduce(f[i - 1], b[i])
    BY <1>0, FoldedIs
  <1>2. \A i \in 1..n : \A t : IsRecovered(t, s, i - 1) =>
          Legal(t, b[i]) /\ IsRecovered(Reduce(t, b[i]), s, i)
    BY RecoveryGoesOn
  <1>3. LegalBatch(s, b) <=> \A i \in 1..n : Legal(f[i - 1], b[i])
    BY LegalBatchIs
  <1> HIDE DEF b, n, f
  <1>4. 0 \in S
    BY <1>0, <1>1, NothingRecovered
  <1>5. ASSUME NEW i \in 0..n, i < n, i \in S
        PROVE  i + 1 \in S
    <2>1. i + 1 \in 1..n /\ (i + 1) - 1 = i /\ i + 1 \in 0..n
      BY <1>0, <1>5
    <2>2. IsRecovered(f[i], s, i)
      BY <1>5
    <2>3. IsRecovered(f[i + 1], s, i + 1)
      BY <2>1, <2>2, <1>1, <1>2
    <2>4. QED
      BY <2>1, <2>3
  <1> HIDE DEF S
  <1>6. \A i \in 0..n : i \in S
    BY <1>0, <1>4, <1>5, UpTo
  <1>7. \A i \in 0..n : IsRecovered(f[i], s, i)
    BY <1>6 DEF S
  <1>8. ASSUME NEW i \in 1..n
        PROVE  Legal(f[i - 1], b[i])
    <2>1. i - 1 \in 0..n
      BY <1>0
    <2>2. QED
      BY <2>1, <1>2, <1>7
  <1>9. n \in 0..n
    BY <1>0
  <1>10. QED
    BY <1>3, <1>7, <1>8, <1>9 DEF ReduceBatch, b, n, f

LEMMA NothingToRecover ==
  ASSUME NEW t, IsRunState(t), RunningAttempts(t) = {}, IdleSteps(t) = {}
  PROVE  Recover(t) = <<>>
  <1>1. IsFiniteSet({}) /\ Cardinality({}) = 0
    BY FS_EmptySet
  <1>2. Len(SetToSeq(RunningAttempts(t))) = 0 /\ Len(SetToSeq(IdleSteps(t))) = 0
    BY <1>1, SetToSeqTyped
  <1>3. QED
    BY <1>2 DEF Recover

\* A whole recovery leaves no attempt running, a gate on every running step, and nothing
\* for a second recovery.
LEMMA RecoveryEnds ==
  ASSUME NEW s, Recoverable(s), NEW t, IsRunState(t), IsRecovered(t, s, Len(Recover(s)))
  PROVE  /\ RunningAttempts(t) = {}
         /\ \A st \in DOMAIN t.steps : RunningStep(t, st) => Gated(t, st)
         /\ Recover(t) = <<>>
  <1> DEFINE i == Len(Recover(s))
  <1>0. IsRunState(s)
    BY DEF Recoverable
  <1>1. /\ Interrupted(s, i) = RunningAttempts(s)
        /\ GatedAttempts(s, i) = RunningAttempts(s)
        /\ GatedSteps(s, i) = IdleSteps(s)
    BY <1>0, WholeRecovered
  <1>2. IsRecovered(t, s, i)
    OBVIOUS
  <1> HIDE DEF i
  <1>3. RunningAttempts(t) = {}
    BY <1>1, <1>2 DEF IsRecovered, RunningAttempts
  <1>4. ASSUME NEW st \in DOMAIN t.steps, RunningStep(t, st)
        PROVE  Gated(t, st)
    <2>1. RunningStep(s, st)
      BY <1>2, <1>4 DEF IsRecovered, RunningStep
    <2>2. CASE Busy(s, st)
      <3>1. PICK a \in DOMAIN s.attempts :
              s.attempts[a].step = st /\ s.attempts[a].status = "running"
        BY <2>2 DEF Busy
      <3>2. a \in GatedAttempts(s, i)
        BY <3>1, <1>1 DEF RunningAttempts
      <3>3. /\ InterruptedGate(a) \in DOMAIN t.gates
            /\ t.gates[InterruptedGate(a)].step = st
            /\ t.gates[InterruptedGate(a)].status = "open"
        BY <3>1, <3>2, <1>2 DEF IsRecovered
      <3>4. QED
        BY <3>3 DEF Gated
    <2>3. CASE Gated(s, st)
      <3>1. PICK g \in DOMAIN s.gates : s.gates[g].step = st /\ s.gates[g].status = "open"
        BY <2>3 DEF Gated
      <3>2. g \in DOMAIN t.gates /\ t.gates[g] = s.gates[g]
        BY <3>1, <1>2 DEF IsRecovered
      <3>3. QED
        BY <3>1, <3>2 DEF Gated
    <2>4. CASE ~Busy(s, st) /\ ~Gated(s, st)
      <3>1. st \in GatedSteps(s, i)
        BY <2>1, <2>4, <1>1 DEF IdleSteps, RunningStep
      <3>2. /\ InterruptedStepGate(st, s.lastSeq) \in DOMAIN t.gates
            /\ t.gates[InterruptedStepGate(st, s.lastSeq)].step = st
            /\ t.gates[InterruptedStepGate(st, s.lastSeq)].status = "open"
        BY <3>1, <1>2 DEF IsRecovered
      <3>3. QED
        BY <3>2 DEF Gated
    <2>5. QED
      BY <2>2, <2>3, <2>4
  <1>5. IdleSteps(t) = {}
    BY <1>4 DEF IdleSteps, RunningStep
  <1>7. Recover(t) = <<>>
    BY <1>3, <1>5, NothingToRecover
  <1>8. QED
    BY <1>3, <1>4, <1>7

\* A row keeps StepGatesPast unless it raises a step's recovery gate for a time to come.
LEMMA StepGatesKept ==
  ASSUME NEW s, IsRunState(s), StepGatesPast(s), NEW e \in EventBodies, Legal(s, e),
         e.type = "gate.raised" /\ e.gate.name = "interrupted-step" => e.gate.at <= s.lastSeq
  PROVE  StepGatesPast(Reduce(s, e))
  <1> DEFINE t == Reduce(s, e)
  <1>1. t.gates = GatesAfter(s, e) /\ t.lastSeq = s.lastSeq + 1
    BY DEF Reduce
  <1>2. s.lastSeq \in Nat /\ IsMap(s.gates, GateIds, GateRecords)
    BY DEF IsRunState
  <1>3. \A g \in DOMAIN t.gates : g \in DOMAIN s.gates \/ (e.type = "gate.raised" /\ g = e.gate)
    <2>1. CASE e.type = "gate.resolved"
      BY <2>1, <1>1 DEF GatesAfter, Put, Legal, OpenGate
    <2>2. CASE e.type # "gate.resolved"
      BY <2>2, <1>1 DEF GatesAfter, Put
    <2>3. QED
      BY <2>1, <2>2
  <1> HIDE DEF t
  <1>4. ASSUME NEW g \in DOMAIN t.gates, g.name = "interrupted-step"
        PROVE  g.at < t.lastSeq
    <2>1. CASE g \in DOMAIN s.gates
      <3>1. g.at < s.lastSeq /\ g.at \in Nat
        BY <2>1, <1>2, <1>4 DEF StepGatesPast, IsMap, GateIds
      <3>2. QED
        BY <3>1, <1>1, <1>2
    <2>2. CASE e.type = "gate.raised" /\ g = e.gate
      <3>1. g.at \in Nat /\ g.at <= s.lastSeq
        BY <2>2, <1>4, EventFields DEF GateIds
      <3>2. QED
        BY <3>1, <1>1, <1>2
    <2>3. QED
      BY <2>1, <2>2, <1>3
  <1>5. QED
    BY <1>4 DEF StepGatesPast, t
=============================================================================
