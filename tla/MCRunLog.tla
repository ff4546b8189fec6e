------------------------------ MODULE MCRunLog ------------------------------
(* RunLog with one step, two attempts, and the batches the engine writes.  *)
(* Each handle is a process of its own: the handles of one process are the *)
(* case where both crash in two adjacent steps.                            *)
EXTENDS RunLog, TLC

CONSTANTS h1, h2

MCSteps == {"s"}
MCAttempts == {"a", "b"}
MCArtifacts == {"x"}
MCHandles == {h1, h2}
MCProcesses == {{h1}, {h2}}
MCMaxLog == 4
MCMaxQueue == 1
HandleSymmetry == Permutations(MCHandles)

MCGates == {InterruptedGate("a"), EscalationGate("s")}
             \cup {InterruptedStepGate("s", n) : n \in 1..MCMaxLog}
MCBatches ==
  {<<StepStarted("s")>>,
   <<AttemptStarted("a", "s")>>,
   <<AttemptStarted("b", "s")>>,
   <<AttemptEvent("a"), AttemptFinished("a", "succeeded"), ArtifactRecorded("x", "a")>>,
   <<GateRaised(EscalationGate("s"), "s", "escalation", RecoveryCommands),
     StepFinished("s", "failed")>>,
   <<RunEnded>>,
   <<>>}
  \cup {<<GateResolved(g, "retry")>> : g \in MCGates}
=============================================================================
