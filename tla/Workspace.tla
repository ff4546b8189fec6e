------------------------------ MODULE Workspace ------------------------------
(***************************************************************************)
(* The workspace of an execution from its preparation on: the worktree     *)
(* (module Worktrees) and what runs in it (module Processes) under one     *)
(* server, which is told to stop, crashes and is started again.  Agents    *)
(* and checks run one after the other in a workspace that is recorded.     *)
(***************************************************************************)
EXTENDS Worktrees, Processes

ASSUME WorkspaceAssumption == MaxFaults \in Nat /\ MaxProcs \in Nat \ {0}

vars == <<server, treeVars, lane>>

Init == up = TRUE /\ aborted = FALSE /\ faults = 0 /\ InitTree /\ InitLane

Prepare == TreeStep /\ UNCHANGED lane

\* The engine starts a job where the run stands.
StartJob ==
  /\ up /\ ~aborted /\ recorded
  /\ \E k \in {"writer", "reader", "check"} : Start(k)
  /\ UNCHANGED <<server, treeVars>>

Work == up /\ LaneWorks /\ UNCHANGED <<server, treeVars>>
Processing == LaneRuns /\ UNCHANGED <<server, treeVars>>

\* Shutdown aborts the tasks.
Abort ==
  /\ up /\ ~aborted /\ faults < MaxFaults
  /\ aborted' = TRUE /\ faults' = faults + 1 /\ up' = up
  /\ LaneAborts
  /\ UNCHANGED treeVars

\* The server ends: killed at any point, or by itself when everything has returned.
Down ==
  /\ up /\ up' = FALSE /\ aborted' = FALSE
  /\ \/ faults < MaxFaults /\ faults' = faults + 1
     \/ /\ aborted /\ phase = "idle" /\ step \in {"none", "failed"}
        /\ faults' = faults
  /\ TreeCrash /\ LaneCrash

Restart ==
  /\ ~up /\ up' = TRUE
  /\ UNCHANGED <<aborted, faults, treeVars, lane>>

Next == Prepare \/ StartJob \/ Work \/ Processing \/ Abort \/ Down \/ Restart

\* Timers fire, signals are heeded, killed processes end, and what is due is done.
\* No process has to end by itself.
Returning ==
  \/ AbortAgent \/ AgentReturns \/ Close \/ CheckReturns \/ Grace
Ticking == Deadline \/ ForceEnd

Fairness ==
  /\ WF_vars(up /\ Returning /\ UNCHANGED <<server, treeVars>>)
  /\ WF_vars(up /\ Ticking /\ UNCHANGED <<server, treeVars>>)
  /\ WF_vars(Killed /\ UNCHANGED <<server, treeVars>>)

Spec == Init /\ [][Next]_vars /\ Fairness

-----------------------------------------------------------------------------
TypeOK ==
  /\ up \in BOOLEAN /\ aborted \in BOOLEAN /\ faults \in 0..MaxFaults
  /\ TreeTypeOK /\ LaneTypeOK
=============================================================================
