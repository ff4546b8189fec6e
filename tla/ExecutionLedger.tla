-------------------------- MODULE ExecutionLedger --------------------------
(***************************************************************************)
(* What an execution run of Payo promises, without its engine: the units   *)
(* of an approved PR (its phases, then the PR-wide final scope) are taken  *)
(* in order; each is committed at most once and recorded exactly once; the *)
(* run ends once, after the last of them.  A unit whose content is already *)
(* on the branch is recorded without a commit.  Module Execution is shown  *)
(* to implement this specification across crashes and resumes.             *)
(***************************************************************************)
EXTENDS Naturals

CONSTANT Phases   \* number of phases of the approved PR

VARIABLES
  made,       \* the unit committed at each place of the branch that has the run's commit
  recorded,   \* number of phases with a durable receipt
  over        \* the run has ended as reviewed
ledger == <<made, recorded, over>>

LedgerInit == DOMAIN made = {} /\ recorded = 0 /\ over = FALSE

\* The commit of the only unit that is neither recorded nor committed yet, above the
\* run's earlier ones.  (That top is in the domain of made' follows from made'.)
CommitUnit ==
  /\ ~over
  /\ \A p \in DOMAIN made : made[p] # recorded + 1
  /\ \E top \in DOMAIN made' :
       /\ \A p \in DOMAIN made : p < top
       /\ made' = [p \in DOMAIN made \cup {top} |-> IF p = top THEN recorded + 1 ELSE made[p]]
  /\ UNCHANGED <<recorded, over>>

RecordPhase ==
  /\ ~over /\ recorded < Phases
  /\ recorded' = recorded + 1
  /\ UNCHANGED <<made, over>>

EndRun ==
  /\ ~over /\ recorded = Phases
  /\ over' = TRUE
  /\ UNCHANGED <<made, recorded>>

LedgerNext == CommitUnit \/ RecordPhase \/ EndRun

LedgerSpec == LedgerInit /\ [][LedgerNext]_ledger

=============================================================================
