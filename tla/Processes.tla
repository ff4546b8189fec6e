------------------------------ MODULE Processes ------------------------------
(***************************************************************************)
(* What runs in a workspace: the agents of the Pi runner                   *)
(* (adapters/runner-pi) and the checks (adapters/checks-process), one job  *)
(* at a time.  A job is a child process with descendants of its own, which *)
(* share its process group unless they leave it, may hold its output pipes *)
(* open and may be deaf to SIGTERM.  A job has returned when its promise   *)
(* (or its stream of events) has ended; the server goes on then, whatever  *)
(* still runs.                                                             *)
(***************************************************************************)
EXTENDS Naturals, FiniteSets

CONSTANT MaxProcs      \* bound: processes of one job alive at a time

VARIABLES
  kind,      \* the job: a "writer" or "reader" agent, a "check", or "none" yet
  phase,     \* "idle", "run", "term" after SIGTERM, "kill" after SIGKILL
  procs,     \* its processes that are alive
  signal,    \* it is aborted: by the server's shutdown or the attempt's deadline
  forced,    \* why a check was stopped
  said,      \* the last assistant message: has there been a text, was it an error
  told,      \* the outcome it reports
  left       \* what is still alive of the jobs before it, and why

lane == <<kind, phase, procs, signal, forced, said, told, left>>

\* What an agent may do is what tools it is given.
Agents == {"writer", "reader"}
Process == [leader: BOOLEAN, member: BOOLEAN, holds: BOOLEAN, deaf: BOOLEAN]
Silent == [text |-> FALSE, error |-> FALSE]

InitLane ==
  /\ kind = "none" /\ phase = "idle" /\ procs = {} /\ signal = FALSE
  /\ forced = "none" /\ said = Silent /\ told = "none" /\ left = {}

\* groupExists; and who keeps the pipes open.
Group == {p \in procs : p.member}
Holders == {p \in procs : p.holds}

\* Processes that outlive their job are kept by the reason for it.
Outliving(reason) ==
  left \cup (IF Group = {} THEN {} ELSE {reason})
       \cup (IF procs = Group THEN {} ELSE {"escaped"})

-----------------------------------------------------------------------------
\* It cannot be spawned: the job is over.
Unspawned == phase' = "idle" /\ procs' = {} /\ told' = "error"

\* A job starts: writers and checks as leaders of a process group of their own.
\* The signal was looked at before.
Start(k) ==
  /\ phase = "idle"
  /\ kind' = k /\ signal' = FALSE /\ forced' = "none" /\ said' = Silent
  /\ left' = left
  /\ \/ /\ phase' = "run" /\ told' = "none"
        /\ \E d \in BOOLEAN :
             procs' = {[leader |-> TRUE, member |-> TRUE, holds |-> TRUE, deaf |-> d]}
     \/ Unspawned

\* Processes make processes, and end.
Fork ==
  /\ phase # "kill" /\ procs # {} /\ Cardinality(procs) < MaxProcs
  /\ \E p \in Process : ~p.leader /\ procs' = procs \cup {p}
  /\ UNCHANGED <<kind, phase, signal, forced, said, told, left>>

Exit(p) ==
  /\ p \in procs /\ procs' = procs \ {p}
  /\ UNCHANGED <<kind, phase, signal, forced, said, told, left>>

StrayEnds ==
  /\ \E x \in left : left' = left \ {x}
  /\ UNCHANGED <<kind, phase, procs, signal, forced, said, told>>

-----------------------------------------------------------------------------
\* The job is over for its caller.
Returned(reason) ==
  /\ phase' = "idle" /\ procs' = {} /\ left' = Outliving(reason)

\* terminateWriteProcessGroup, terminateProcessTree: SIGTERM to the group.  A reader
\* is only asked to stop, not awaited.
\* Mutant: readers are waited for as well.
StopAlike == phase' = "term" /\ UNCHANGED <<procs, left>>
Stop ==
  IF kind = "reader" THEN Returned("reader")
  ELSE phase' = "term" /\ UNCHANGED <<procs, left>>

\* The grace period is over: SIGKILL to the group.
\* Mutant: nothing follows SIGTERM.
EscalationNone == "term"
Escalation == "kill"

Grace ==
  /\ phase = "term" /\ Group # {}
  /\ phase' = Escalation
  /\ UNCHANGED <<kind, procs, signal, forced, said, told, left>>

\* The signal reaches who is in the group, whoever started it, and nobody else.
Killed == phase = "kill" /\ \E p \in Group : Exit(p)

-----------------------------------------------------------------------------
\* An agent's records, mapPiRecord: what the assistant said last counts.
Message ==
  /\ phase = "run" /\ kind \in Agents
  /\ \E text, error \in BOOLEAN :
       said' = [text |-> said.text \/ text, error |-> error]
  /\ UNCHANGED <<kind, phase, procs, signal, forced, told, left>>

\* agent_settled: the result is the last text, if the agent stopped well.
Settle ==
  /\ phase = "run" /\ kind \in Agents
  /\ \E aborting \in BOOLEAN :
       told' = IF (aborting /\ ~signal) \/ said.error \/ ~said.text THEN "error" ELSE "result"
  /\ Stop
  /\ UNCHANGED <<kind, signal, forced, said>>

\* A line that is no JSON, or the end of the output without agent_settled.
EndWithoutSettlement == IF signal THEN "none" ELSE "error"

BadLine ==
  /\ phase = "run" /\ kind \in Agents
  /\ told' = "error" /\ Stop
  /\ UNCHANGED <<kind, signal, forced, said>>

OutputEnds ==
  /\ phase = "run" /\ kind \in Agents /\ Holders = {}
  /\ told' = EndWithoutSettlement /\ Stop
  /\ UNCHANGED <<kind, signal, forced, said>>

\* The agent is aborted: its output is closed, and nothing is reported.
AbortAgent ==
  /\ phase = "run" /\ kind \in Agents /\ signal
  /\ Stop
  /\ UNCHANGED <<kind, signal, forced, said, told>>

\* The deadline of the attempt.
Deadline ==
  /\ phase = "run" /\ kind \in Agents /\ ~signal
  /\ signal' = TRUE
  /\ UNCHANGED <<kind, phase, procs, forced, said, told, left>>

\* The runner returns when no member of the group is left; it has closed the pipes.
AgentReturns ==
  /\ phase \in {"term", "kill"} /\ kind = "writer" /\ Group = {}
  /\ Returned("group")
  /\ UNCHANGED <<kind, signal, forced, said, told>>

-----------------------------------------------------------------------------
\* A check is stopped once, by its timeout or by the abort, as long as it is open.
ForceEnd ==
  /\ phase = "run" /\ kind = "check"
  /\ forced' \in IF signal THEN {"cancelled", "timed_out"} ELSE {"timed_out"}
  /\ Stop
  /\ UNCHANGED <<kind, signal, said, told>>

\* The close event comes when the command has ended and nobody holds its pipes.  A
\* command that has left others behind has them ended first.
\* Mutant: it does not.
StaysBehindNever == FALSE
StaysBehind == Group # {}

Verdict == IF forced # "none" THEN {forced} ELSE {"passed", "failed"}

Close ==
  /\ phase = "run" /\ kind = "check" /\ Holders = {}
  /\ \/ StaysBehind /\ Stop /\ told' = told
     \/ ~StaysBehind /\ Returned("group") /\ told' \in Verdict
  /\ UNCHANGED <<kind, signal, forced, said>>

CheckReturns ==
  /\ phase \in {"term", "kill"} /\ kind = "check" /\ Group = {} /\ Holders = {}
  /\ Returned("group") /\ told' \in Verdict
  /\ UNCHANGED <<kind, signal, forced, said>>

-----------------------------------------------------------------------------
\* The server is told to stop; or it crashes, and groups of their own live on.
LaneAborts ==
  /\ signal' = (signal \/ phase # "idle")
  /\ UNCHANGED <<kind, phase, procs, forced, said, told, left>>

LaneCrash ==
  /\ Returned("crash")
  /\ kind' = "none" /\ signal' = FALSE /\ forced' = "none" /\ said' = Silent /\ told' = "none"

LaneWorks ==
  \/ Message \/ Settle \/ BadLine \/ OutputEnds \/ AbortAgent \/ Deadline \/ AgentReturns
  \/ ForceEnd \/ Close \/ CheckReturns \/ Grace

LaneRuns == Fork \/ StrayEnds \/ \E p \in procs : Exit(p)

-----------------------------------------------------------------------------
LaneTypeOK ==
  /\ kind \in Agents \cup {"check", "none"}
  /\ phase \in IF kind = "reader" THEN {"idle", "run"} ELSE {"idle", "run", "term", "kill"}
  /\ procs \subseteq Process /\ Cardinality(procs) <= MaxProcs
  /\ signal \in BOOLEAN /\ forced \in {"none", "timed_out", "cancelled"}
  /\ said \in [text: BOOLEAN, error: BOOLEAN]
  /\ told \in {"none", "error"} \cup
       (IF kind = "check" THEN {"passed", "failed", "timed_out", "cancelled"} ELSE {"result"})
  /\ left \subseteq {"group", "reader", "crash", "escaped"}

\* One writer at a time, and no check beside it: when a writing agent or a check has
\* returned, no process of its group is alive, whatever it started and however deaf
\* it was.  (Left are only processes that made themselves independent, readers, and
\* those of a server that crashed.)  And an agent that returns has said how it ended,
\* unless it was aborted.
ReturnedIsOver ==
  /\ "group" \notin left
  /\ phase = "idle" /\ kind \in Agents => told # "none" \/ signal

\* Every job returns.  Only a check whose command left an independent process with
\* its pipes open does not, for as long as that process lives.
JobReturns ==
  phase # "idle" ~> \/ phase = "idle"
                    \/ kind = "check" /\ \E p \in Holders : ~p.member
=============================================================================
