----------------------------- MODULE MCAgentStep -----------------------------
(* Two steps on one permit: one with write tools, whose runner may stream  *)
(* an event before its last and whose store may fail once, one without.    *)
EXTENDS AgentStep, TLC

MCSteps == {"w", "r"}
MCAttempts == MCSteps \X {1, 2}
MCArtifacts == {"text", "raw"}
MCWriteSteps == {"w"}
MCOneForW == "w" :> 1 @@ "r" :> 0
=============================================================================
