--------------------------- MODULE ExecutionProofs ---------------------------
(***************************************************************************)
(* Proofs about module Execution, for any number of phases, lenses and     *)
(* cycles and any bounds on the environment: what the engine commits was   *)
(* checked and accepted, a commit without its receipt is named by the      *)
(* durable intent, a gated run has nothing running that its gate does not  *)
(* own, and phases are committed and recorded as the ledger allows.        *)
(***************************************************************************)
EXTENDS Execution, FiniteSetTheorems, SequenceTheorems, WellFoundedInduction, TLAPS

(***************************************************************************)
(* Types.                                                                  *)
(***************************************************************************)
Ids(S) == S \subseteq Nat /\ IsFiniteSet(S)
Intents == [unit: 0..Final, parent: Nat, snapshot: Snapshots]
Commits(latest) ==
  [by: {"base", "payo", "foreign"}, unit: Nat, tree: 0..latest, trailer: BOOLEAN]

CheckpointFields ==
  {"stage", "phase", "scope", "round", "manifest", "ws", "checks", "review", "intent",
   "receipts", "flight", "pinned", "partial"}
IsCheckpoint(c) ==
  /\ DOMAIN c = CheckpointFields
  /\ c.stage \in Stages /\ c.phase \in 1..Phases /\ c.scope \in {"phase", "final"}
  /\ c.round \in 0..MaxCycles
  /\ c.ws \in Snapshots /\ c.checks \in Snapshots /\ c.intent \in Intents
  /\ c.receipts \in Seq(Nat)
  /\ c.scope = "phase" => c.phase = Len(c.receipts) + 1
  /\ c.scope = "final" => Len(c.receipts) = Phases
  /\ Ids(c.flight.steps)

IsWorktree(w) ==
  /\ DOMAIN w = {"commits", "tree", "staged", "elsewhere", "latest", "exists"}
  /\ w.latest \in 0..MaxVersions /\ w.tree \in 0..w.latest /\ w.elsewhere \in Nat
  /\ w.commits \in Seq(Commits(w.latest)) /\ w.commits # <<>>

IsMem(m) ==
  /\ DOMAIN m = {"seen", "now", "res", "todo", "owned", "commit"}
  /\ m.seen \in Snapshots /\ m.now \in Snapshots /\ Ids(m.owned) /\ m.commit \in Nat

Types ==
  /\ IsCheckpoint(cp) /\ IsWorktree(wt) /\ IsMem(mem) /\ Ids(running) /\ Ids(open)

LEMMA NothingTyped ==
  /\ NoSnapshot \in Snapshots /\ NoIntent \in Intents /\ IsMem(NoMem) /\ Ids({})
<1>1. NoSnapshot \in Snapshots
  BY DEF NoSnapshot, Snapshots
<1>2. NoIntent \in Intents
  BY <1>1, ExecutionAssumption DEF NoIntent, Intents, Final
<1>3. Ids({})
  BY FS_EmptySet DEF Ids
<1> QED BY <1>1, <1>2, <1>3 DEF NoMem, IsMem

LEMMA IdsClosed ==
  ASSUME NEW S, NEW T, Ids(S), Ids(T)
  PROVE  Ids(S \cup T) /\ Ids(S \ T)
BY FS_Union, FS_Subset DEF Ids

\* The fingerprint of a worktree; its head is a commit.
LEMMA SnapshotTyped ==
  ASSUME NEW w, IsWorktree(w)
  PROVE  /\ Snapshot(w) \in Snapshots
         /\ HeadOf(w) \in Nat \ {0} /\ Snapshot(w).head = HeadOf(w)
         /\ Snapshot(w).tree = w.tree
         /\ HeadTree(w) \in 0..w.latest
<1>1. /\ w.commits \in Seq(Commits(w.latest)) /\ w.commits # <<>>
      /\ w.tree \in Nat /\ w.elsewhere \in Nat
  BY ExecutionAssumption DEF IsWorktree
<1>2. HeadOf(w) \in Nat \ {0}
  BY <1>1, EmptySeq DEF HeadOf
<1>3. HeadTree(w) \in 0..w.latest
  <2>1. w.commits[HeadOf(w)] \in Commits(w.latest)
    BY <1>1, <1>2, ElementOfSeq DEF HeadOf
  <2> QED BY <2>1 DEF HeadTree, Commits
<1>4. (w.staged /\ Dirty(w)) \in BOOLEAN
  OBVIOUS
<1>5. \A b \in BOOLEAN :
        [head |-> HeadOf(w), tree |-> w.tree, staged |-> b, elsewhere |-> w.elsewhere] \in Snapshots
  BY <1>1, <1>2 DEF Snapshots
<1>6. Snapshot(w) \in Snapshots
  BY <1>4, <1>5 DEF Snapshot
<1> QED BY <1>2, <1>3, <1>6 DEF Snapshot

-----------------------------------------------------------------------------
(* New ids: nothing refers to them, and there are some.                    *)

LEMMA UsedFinite ==
  ASSUME Types
  PROVE  Ids(UsedIds) /\ Cardinality(UsedIds) \in Nat
<1>1. Ids(running) /\ Ids(open) /\ Ids(cp.flight.steps) /\ Ids(mem.owned)
  BY DEF Types, IsCheckpoint, IsMem
<1>2. Ids(UsedIds)
  BY <1>1, IdsClosed DEF UsedIds
<1> QED BY <1>2, FS_CardinalityType DEF Ids

LEMMA NewIdsTyped ==
  ASSUME Types, NEW n \in Nat
  PROVE  Ids(NewIds(n))
<1> DEFINE all == 1..(Cardinality(UsedIds) + n)
<1>1. all \subseteq Nat /\ IsFiniteSet(all)
  BY SMTT(30), UsedFinite, FS_Interval
<1>2. NewIds(n) \subseteq all
  BY DEF NewIds
<1> QED BY <1>1, <1>2, FS_Subset DEF Ids

LEMMA NewIdTyped ==
  ASSUME Types
  PROVE  NewId \in Nat
<1> DEFINE c == Cardinality(UsedIds)
           free == (1..(c + 1)) \ UsedIds
<1>1. c \in Nat /\ IsFiniteSet(UsedIds)
  BY UsedFinite DEF Ids
<1>2. free # {}
  <2>1. IsFiniteSet(1..(c + 1)) /\ Cardinality(1..(c + 1)) = c + 1
    BY SMTT(30), <1>1, FS_Interval
  <2>2. SUFFICES ASSUME 1..(c + 1) \subseteq UsedIds PROVE FALSE
    OBVIOUS
  <2>3. c + 1 <= c
    BY <2>1, <2>2, <1>1, FS_Subset
  <2> QED BY <2>3, <1>1
<1>3. free \subseteq Nat
  BY <1>1
<1>4. PICK least \in free : \A y \in free : ~(y < least)
  <2>1. PICK x \in free : \A y \in free : <<y, x>> \notin OpToRel(<, Nat)
    BY ZenonT(60), <1>2, <1>3, NatLessThanWellFounded, WFMin
  <2> QED BY <2>1, <1>3 DEF OpToRel
<1>5. {y \in free : y < least} = {}
  BY <1>4
<1>6. least \in NewIds(1)
  BY <1>5, <1>4, FS_EmptySet DEF NewIds
<1>7. NewId \in NewIds(1)
  BY <1>6 DEF NewId
<1> QED BY <1>7, NewIdsTyped DEF Ids

\* The step a handler starts.
LEMMA OneId ==
  ASSUME NEW n \in Nat
  PROVE  Ids({n})
BY FS_Singleton DEF Ids

LEMMA NewIdKept ==
  ASSUME Types
  PROVE  Ids({NewId}) /\ Ids(running \cup {NewId})
BY NewIdTyped, OneId, IdsClosed DEF Types

-----------------------------------------------------------------------------
(* How a handler ends keeps the types.                                     *)

LEMMA UnwindTyped ==
  ASSUME Types, IsWorktree(wt)', Unwind
  PROVE  Types'
BY NothingTyped DEF Types, Unwind, log

LEMMA GotoTyped ==
  ASSUME Types, IsWorktree(wt)', NEW where, NEW m, IsMem(m), Goto(where, m)
  PROVE  Types'
BY DEF Types, Goto, log

LEMMA WriteTyped ==
  ASSUME Types, IsWorktree(wt)', NEW d, NEW steps, NEW gates, NEW where, NEW m,
         IsCheckpoint(d), Ids(steps), Ids(gates), IsMem(m),
         Write(d, steps, gates, where, m)
  PROVE  Types'
<1>1. CASE LegalCheckpoint(cp, d)
  BY <1>1 DEF Types, Write
<1>2. CASE ~LegalCheckpoint(cp, d)
  BY <1>2, UnwindTyped DEF Write
<1> QED BY <1>1, <1>2

LEMMA RaiseOnTyped ==
  ASSUME Types, IsWorktree(wt)', NEW c, NEW op, NEW steps, NEW gates, NEW pinned,
         IsCheckpoint(c), Ids(steps), Ids(gates), RaiseOn(c, op, steps, gates, pinned)
  PROVE  Types'
<1> DEFINE d == [c EXCEPT !.stage = "Escalated", !.flight = Flight(op, steps \cup {NewId}),
                          !.pinned = pinned, !.partial = FALSE]
<1>1. Ids(steps \cup {NewId}) /\ Ids(gates \cup {NewId}) /\ Ids(running)
  BY NewIdKept, IdsClosed DEF Types
<1>2. IsCheckpoint(d)
  BY <1>1 DEF IsCheckpoint, CheckpointFields, Flight, Stages
<1>3. Write(d, running, gates \cup {NewId}, "idle", NoMem)
  BY DEF RaiseOn
<1> QED BY <1>1, <1>2, <1>3, WriteTyped, NothingTyped

LEMMA RaiseTyped ==
  ASSUME Types, IsWorktree(wt)', NEW op, NEW steps, NEW pinned, Ids(steps),
         Raise(op, steps, pinned)
  PROVE  Types'
BY RaiseOnTyped DEF Types, Raise

-----------------------------------------------------------------------------
(* The worktree.                                                           *)

LEMMA EditTyped ==
  ASSUME NEW w, IsWorktree(w),
         NEW v \in {w.tree, HeadTree(w)} \cup 0..w.latest \cup NewVersions(w)
  PROVE  /\ IsWorktree(Edited(w, v)) /\ Edited(w, v).commits = w.commits
         /\ Edited(w, v).tree = v /\ w.latest <= Edited(w, v).latest
<1> DEFINE e == Edited(w, v)
<1>1. w.latest \in Nat /\ w.latest <= MaxVersions /\ MaxVersions \in Nat
  BY ExecutionAssumption DEF IsWorktree
<1>2. v \in Nat /\ v <= w.latest + 1 /\ v <= MaxVersions
  BY <1>1, SnapshotTyped DEF NewVersions, IsWorktree
<1>3. DOMAIN e = DOMAIN w /\ e.commits = w.commits /\ e.tree = v /\ e.elsewhere = w.elsewhere
  BY DEF Edited, IsWorktree
<1>4. e.latest = IF v > w.latest THEN v ELSE w.latest
  BY DEF Edited, IsWorktree
<1>5. e.latest \in Nat /\ e.latest <= MaxVersions /\ w.latest <= e.latest /\ v <= e.latest
  BY <1>1, <1>2, <1>4
<1>6. Commits(w.latest) \subseteq Commits(e.latest)
  BY <1>1, <1>5 DEF Commits
<1>7. e.commits \in Seq(Commits(e.latest)) /\ e.commits # <<>>
  <2>1. w.commits \in Seq(Commits(w.latest)) /\ w.commits # <<>>
    BY DEF IsWorktree
  <2>2. w.commits \in Seq(Commits(e.latest))
    BY <1>6, <2>1, SeqMonotonic
  <2> QED BY <1>3, <2>1, <2>2
<1> QED BY <1>1, <1>2, <1>3, <1>5, <1>7 DEF IsWorktree

\* A commit of the engine or of anybody else.
LEMMA CommitTyped ==
  ASSUME NEW w, IsWorktree(w), NEW by \in {"payo", "foreign"}, NEW unit \in Nat,
         NEW trailer \in BOOLEAN
  PROVE  LET e == WithCommit(w, by, unit, trailer)
         IN /\ IsWorktree(e)
            /\ e.commits = Append(w.commits, [by |-> by, unit |-> unit, tree |-> w.tree,
                                              trailer |-> trailer])
            /\ e.tree = w.tree /\ e.latest = w.latest
<1> DEFINE e == WithCommit(w, by, unit, trailer)
           c == [by |-> by, unit |-> unit, tree |-> w.tree, trailer |-> trailer]
<1>1. /\ DOMAIN e = DOMAIN w /\ e.latest = w.latest /\ e.tree = w.tree
      /\ e.elsewhere = w.elsewhere /\ e.commits = Append(w.commits, c)
  BY DEF WithCommit, IsWorktree
<1>2. c \in Commits(w.latest) /\ w.commits \in Seq(Commits(w.latest))
  BY DEF IsWorktree, Commits
<1>3. e.commits \in Seq(Commits(w.latest)) /\ e.commits # <<>>
  BY <1>1, <1>2, AppendProperties
<1> QED BY <1>1, <1>3 DEF IsWorktree

\* A commit with the content t that its hooks have staged, and v left by them.
LEMMA HookTyped ==
  ASSUME NEW w, IsWorktree(w), NEW unit \in Nat, NEW t \in {w.tree} \cup NewVersions(w),
         NEW trailer \in BOOLEAN,
         NEW v \in {t, w.tree}
                   \cup NewVersions(WithCommit(Edited(w, t), "payo", unit, trailer))
  PROVE  LET e == Edited(WithCommit(Edited(w, t), "payo", unit, trailer), v)
         IN /\ IsWorktree(e)
            /\ e.commits = Append(w.commits, [by |-> "payo", unit |-> unit, tree |-> t,
                                              trailer |-> trailer])
<1> DEFINE d == Edited(w, t)
           c == WithCommit(d, "payo", unit, trailer)
<1>1. IsWorktree(d) /\ d.commits = w.commits /\ d.tree = t /\ w.latest <= d.latest
  BY EditTyped
<1>2. /\ IsWorktree(c) /\ c.latest = d.latest
      /\ c.commits = Append(w.commits, [by |-> "payo", unit |-> unit, tree |-> t,
                                        trailer |-> trailer])
  BY <1>1, CommitTyped
<1>3. t \in 0..d.latest
  BY <1>1 DEF IsWorktree
<1>4. w.tree \in 0..d.latest
  BY <1>1, ExecutionAssumption DEF IsWorktree
<1> HIDE DEF c, d
<1>5. v \in 0..c.latest \cup NewVersions(c)
  BY <1>2, <1>3, <1>4 DEF c, d
<1>6. IsWorktree(Edited(c, v)) /\ Edited(c, v).commits = c.commits
  BY <1>2, <1>5, EditTyped
<1> QED BY <1>2, <1>6 DEF c, d

\* What does not concern the commits: staging, adding the worktree, other branches.
LEMMA WorktreeKept ==
  ASSUME IsWorktree(wt)
  PROVE  /\ IsWorktree(Staged(wt)) /\ Staged(wt).commits = wt.commits
         /\ IsWorktree([wt EXCEPT !.exists = TRUE])
         /\ IsWorktree([wt EXCEPT !.elsewhere = @ + 1])
BY DEF IsWorktree, Staged

LEMMA NowTyped ==
  ASSUME Types
  PROVE  /\ Now \in Snapshots /\ Now.head = HeadOf(wt) /\ Now.tree = wt.tree
         /\ HeadOf(wt) \in Nat \ {0}
BY SnapshotTyped DEF Types, Now

-----------------------------------------------------------------------------
(* Every step of the specification keeps the types.                        *)

LEMMA StartsTyped ==
  ASSUME Types, PrepareStarts \/ ManifestStarts \/ ImplementStarts \/ RepairStarts \/ CheckStarts
  PROVE  Types'
<1>1. /\ IsWorktree(wt)' /\ Ids({}) /\ IsMem(NoMem) /\ IsMem([NoMem EXCEPT !.seen = Now])
      /\ Ids({NewId}) /\ Ids(running \cup {NewId}) /\ Ids(running) /\ Ids(open)
  <2>1. UNCHANGED wt
    BY DEF PrepareStarts, ManifestStarts, ImplementStarts, RepairStarts, CheckStarts
  <2>2. IsMem(NoMem) /\ IsMem([NoMem EXCEPT !.seen = Now])
    BY NothingTyped, NowTyped DEF IsMem
  <2> QED BY <2>1, <2>2, NewIdKept, NothingTyped DEF Types
<1>2. CASE PrepareStarts
  <2> DEFINE d == [cp EXCEPT !.stage = "Prepare", !.flight = Flight("Prepare", {NewId})]
  <2>1. IsCheckpoint(d)
    BY <1>1 DEF Types, IsCheckpoint, CheckpointFields, Flight, Stages
  <2>2. Write(d, running \cup {NewId}, open, "worktree", NoMem)
    BY <1>2 DEF PrepareStarts
  <2> QED BY <1>1, <2>1, <2>2, WriteTyped
<1>3. CASE ManifestStarts
  <2> DEFINE d == [cp EXCEPT !.stage = "Prepare", !.flight = Flight("Prepare", {NewId})]
  <2>1. IsCheckpoint(d)
    BY <1>1 DEF Types, IsCheckpoint, CheckpointFields, Flight, Stages
  <2>2. Write(d, running, open, "agent", NoMem)
    BY <1>3 DEF ManifestStarts
  <2> QED BY <1>1, <2>1, <2>2, WriteTyped
<1>4. CASE ImplementStarts
  <2> DEFINE d == [cp EXCEPT !.stage = "Implement", !.ws = Now,
                             !.flight = Flight("Implement", {NewId})]
  <2>1. IsCheckpoint(d)
    BY <1>1, NowTyped DEF Types, IsCheckpoint, CheckpointFields, Flight, Stages
  <2>2. \/ Unwind
        \/ Raise("Implement", {}, FALSE)
        \/ Write(d, running, open, "agent", [NoMem EXCEPT !.seen = Now])
    BY <1>4 DEF ImplementStarts
  <2> QED BY <1>1, <2>1, <2>2, WriteTyped, UnwindTyped, RaiseTyped
<1>5. CASE RepairStarts
  <2> DEFINE d == [cp EXCEPT !.stage = "Repair", !.ws = Now, !.flight = Flight("Repair", {NewId})]
  <2>1. IsCheckpoint(d)
    BY <1>1, NowTyped DEF Types, IsCheckpoint, CheckpointFields, Flight, Stages
  <2>2. Unwind \/ Write(d, running, open, "agent", [NoMem EXCEPT !.seen = Now])
    BY <1>5 DEF RepairStarts
  <2> QED BY <1>1, <2>1, <2>2, WriteTyped, UnwindTyped
<1>6. CASE CheckStarts
  <2> DEFINE d == [cp EXCEPT !.stage = "Check", !.round = NextRound(cp), !.ws = Now,
                             !.checks = NoSnapshot, !.review = FALSE,
                             !.flight = Flight("Check", {NewId})]
  <2>1. NextRound(cp) \in 0..MaxCycles
    BY <1>6, ExecutionAssumption DEF CheckStarts, NextRound, Types, IsCheckpoint
  <2>2. IsCheckpoint(d)
    BY <1>1, <2>1, NowTyped, NothingTyped DEF Types, IsCheckpoint, CheckpointFields, Flight, Stages
  <2>3. Unwind \/ Write(d, running \cup {NewId}, open, "checking", [NoMem EXCEPT !.seen = Now])
    BY <1>6 DEF CheckStarts
  <2> QED BY <1>1, <2>2, <2>3, WriteTyped, UnwindTyped
<1> QED BY <1>2, <1>3, <1>4, <1>5, <1>6

LEMMA PreparationTyped ==
  ASSUME Types, PrepareWorktree \/ PrepareEnds
  PROVE  Types'
<1>1. Ids(cp.flight.steps) /\ Ids(open) /\ Ids(running \ cp.flight.steps)
  BY IdsClosed DEF Types, IsCheckpoint
<1>2. CASE PrepareWorktree
  <2>1. IsWorktree(wt)'
    BY <1>2, WorktreeKept DEF PrepareWorktree, Types
  <2> QED BY <1>1, <1>2, <2>1, RaiseTyped, GotoTyped, NothingTyped DEF PrepareWorktree
<1>3. CASE PrepareEnds
  <2> DEFINE d == [cp EXCEPT !.ws = Now, !.flight = NoFlight]
  <2>1. IsWorktree(wt)'
    BY <1>3 DEF PrepareEnds, Types
  <2>2. IsCheckpoint(d)
    BY NothingTyped, NowTyped DEF Types, IsCheckpoint, CheckpointFields, NoFlight
  <2>3. \/ Raise("Prepare", cp.flight.steps, FALSE)
        \/ Write(d, running \ cp.flight.steps, open,
                 IF cp.manifest THEN "implement" ELSE "manifest", NoMem)
    BY <1>3 DEF PrepareEnds
  <2> QED BY <1>1, <2>1, <2>2, <2>3, RaiseTyped, WriteTyped, NothingTyped
<1> QED BY <1>2, <1>3

LEMMA AgentTyped ==
  ASSUME Types, AgentStarts \/ AgentEnds
  PROVE  Types'
<1>1. Ids(cp.flight.steps) /\ Ids(open) /\ Ids(running)
  BY DEF Types, IsCheckpoint
<1>2. Ids(running \ cp.flight.steps) /\ Ids(running \cup cp.flight.steps)
      /\ Ids(open \cup cp.flight.steps)
  BY <1>1, IdsClosed
<1>3. CASE AgentStarts
  <2>1. PICK v \in WriterVersions(wt) : wt' = Edited(wt, v)
    BY <1>3 DEF AgentStarts, WriterVersions
  <2>2. IsWorktree(wt)'
    BY <2>1, EditTyped DEF WriterVersions, Types
  <2> QED BY <1>2, <1>3, <2>2 DEF AgentStarts, Types
<1>4. CASE AgentEnds
  <2>1. IsMem(mem)'
    BY <1>4 DEF AgentEnds, Types, IsMem
  <2>2. Ids(open)'
    BY <1>1, <1>2, <1>4 DEF AgentEnds
  <2> QED BY <1>2, <1>4, <2>1, <2>2 DEF AgentEnds, Types
<1> QED BY <1>3, <1>4

LEMMA ReportsTyped ==
  ASSUME Types, ManifestEnds \/ ImplementEnds \/ ImplementationCaptured \/ RepairEnds \/ Unrepaired
  PROVE  Types'
<1>1. /\ IsWorktree(wt)' /\ Ids(cp.flight.steps) /\ Ids(open) /\ Ids(running)
      /\ IsMem(NoMem) /\ IsMem([NoMem EXCEPT !.seen = Now]) /\ IsMem(mem)
  <2>1. IsMem(NoMem) /\ IsMem([NoMem EXCEPT !.seen = Now])
    BY NothingTyped, NowTyped DEF IsMem
  <2>2. UNCHANGED wt
    BY DEF ManifestEnds, ImplementEnds, ImplementationCaptured, RepairEnds, Unrepaired
  <2> QED BY <2>1, <2>2 DEF Types, IsCheckpoint
<1>2. CASE ManifestEnds
  <2> DEFINE d == [cp EXCEPT !.stage = "Implement", !.manifest = TRUE, !.flight = NoFlight]
  <2>1. IsCheckpoint(d)
    BY NothingTyped DEF Types, IsCheckpoint, CheckpointFields, NoFlight, Stages
  <2>2. \/ Write(d, running, open, "implement", NoMem)
        \/ Raise("Prepare", cp.flight.steps, mem.res = "plan")
    BY <1>2 DEF ManifestEnds
  <2> QED BY <1>1, <2>1, <2>2, RaiseTyped, WriteTyped
<1>3. CASE ImplementEnds
  <2>1. \/ Goto("capture", [NoMem EXCEPT !.seen = Now])
        \/ Raise("Implement", cp.flight.steps, FALSE)
        \/ Raise("Implement", cp.flight.steps, mem.res = "plan" /\ SameHistory(Now, mem.seen))
    BY <1>3 DEF ImplementEnds
  <2> QED BY <1>1, <2>1, RaiseTyped, GotoTyped
<1>4. CASE ImplementationCaptured
  <2> DEFINE d == [cp EXCEPT !.stage = "Check", !.ws = Now, !.checks = NoSnapshot,
                             !.review = FALSE, !.flight = NoFlight, !.partial = FALSE]
  <2>1. IsCheckpoint(d)
    BY NothingTyped, NowTyped DEF Types, IsCheckpoint, CheckpointFields, NoFlight, Stages
  <2>2. Write(d, running, open, "check", NoMem) \/ Raise("Implement", cp.flight.steps, FALSE)
    BY <1>4 DEF ImplementationCaptured
  <2> QED BY <1>1, <2>1, <2>2, RaiseTyped, WriteTyped
<1>5. CASE RepairEnds
  <2> DEFINE d == [cp EXCEPT !.ws = Now]
             e == [cp EXCEPT !.stage = "Check", !.ws = Now, !.flight = NoFlight]
  <2>1. IsCheckpoint(d)
    BY NowTyped DEF Types, IsCheckpoint, CheckpointFields
  <2>2. IsCheckpoint(e)
    BY NothingTyped, NowTyped DEF Types, IsCheckpoint, CheckpointFields, NoFlight, Stages
  <2>3. \/ Raise("Repair", cp.flight.steps, FALSE)
        \/ Write(d, running, open, "unrepaired", mem)
        \/ Write(e, running, open, "check", NoMem)
    BY <1>5 DEF RepairEnds
  <2> QED BY <1>1, <2>1, <2>2, <2>3, RaiseTyped, WriteTyped
<1>6. CASE Unrepaired
  BY <1>1, <1>6, RaiseTyped DEF Unrepaired
<1> QED BY <1>2, <1>3, <1>4, <1>5, <1>6

LEMMA ChecksTyped ==
  ASSUME Types,
         ChecksRun \/ ChecksThrow \/ ChecksUnrun \/ ChecksEnd \/ ChecksRecorded \/ ChecksExhausted
  PROVE  Types'
<1>1. /\ Ids(cp.flight.steps) /\ Ids(open) /\ Ids(running) /\ Ids(mem.owned) /\ Ids({})
      /\ Ids(running \ cp.flight.steps)
      /\ IsMem(NoMem) /\ IsMem(mem) /\ IsMem([NoMem EXCEPT !.owned = cp.flight.steps])
  <2>1. Ids(cp.flight.steps) /\ Ids(open) /\ Ids(running) /\ Ids(mem.owned) /\ IsMem(mem)
    BY DEF Types, IsCheckpoint, IsMem
  <2>2. IsMem(NoMem) /\ IsMem([NoMem EXCEPT !.owned = cp.flight.steps])
    BY <2>1, NothingTyped DEF IsMem
  <2> QED BY <2>1, <2>2, IdsClosed, NothingTyped
<1>2. CASE ChecksRun
  <2>1. PICK v \in {wt.tree} \cup NewVersions(wt) : wt' = Edited(wt, v)
    BY <1>2 DEF ChecksRun
  <2>2. IsWorktree(wt)'
    BY <2>1, EditTyped DEF Types
  <2>3. IsMem(mem)'
    BY <1>2 DEF ChecksRun, Types, IsMem
  <2> QED BY <1>2, <2>2, <2>3 DEF ChecksRun, Types, log
<1>3. IsWorktree(wt)'
  BY <1>2 DEF ChecksRun, ChecksThrow, ChecksUnrun, ChecksEnd, ChecksRecorded, ChecksExhausted, Types
<1>4. CASE ChecksThrow
  <2> DEFINE d == [cp EXCEPT !.flight = NoFlight]
  <2>1. IsCheckpoint(d)
    BY NothingTyped DEF Types, IsCheckpoint, CheckpointFields, NoFlight
  <2>2. Write(d, running \ cp.flight.steps, open, "unchecked",
              [NoMem EXCEPT !.owned = cp.flight.steps])
    BY <1>4 DEF ChecksThrow
  <2> QED BY <1>1, <1>3, <2>1, <2>2, WriteTyped
<1>5. CASE ChecksEnd
  <2> DEFINE d == [cp EXCEPT !.stage = "Check", !.ws = Now, !.flight = NoFlight]
  <2>1. IsCheckpoint(d)
    BY NothingTyped, NowTyped DEF Types, IsCheckpoint, CheckpointFields, NoFlight, Stages
  <2>2. \/ Write(d, running \ cp.flight.steps, open,
                 IF cp.round = MaxCycles THEN "exhausted" ELSE "check", NoMem)
        \/ Goto("evidence", mem)
        \/ Raise("Check", cp.flight.steps, FALSE)
    BY <1>5 DEF ChecksEnd
  <2> QED BY <1>1, <1>3, <2>1, <2>2, RaiseTyped, WriteTyped, GotoTyped
<1>6. CASE ChecksRecorded
  <2> DEFINE ok == mem.res = "passed"
             d == [cp EXCEPT !.stage = IF ok THEN "Review" ELSE "Repair", !.ws = mem.seen,
                             !.checks = IF ok THEN mem.seen ELSE NoSnapshot,
                             !.flight = NoFlight]
             where == CASE ok -> "review" [] ~ok /\ cp.round = MaxCycles -> "exhausted"
                        [] OTHER -> "repair"
  <2>1. IsCheckpoint(d)
    BY NothingTyped DEF Types, IsCheckpoint, IsMem, CheckpointFields, NoFlight, Stages
  <2>2. \/ Raise("Check", cp.flight.steps, FALSE)
        \/ Write(d, running \ cp.flight.steps, open, where, NoMem)
    BY <1>6 DEF ChecksRecorded
  <2> QED BY <1>1, <1>3, <2>1, <2>2, RaiseTyped, WriteTyped
<1>7. CASE ChecksUnrun \/ ChecksExhausted
  BY <1>1, <1>3, <1>7, RaiseTyped DEF ChecksUnrun, ChecksExhausted
<1> QED BY <1>2, <1>4, <1>5, <1>6, <1>7

LEMMA ReviewStepsTyped ==
  ASSUME Types, NEW s \in cp.flight.steps,
         ReviewStepStarts(s) \/ ReviewStepFails(s) \/ ScopeMapRefused(s) \/ ReviewStepEnds(s)
  PROVE  Types'
<1>1. Ids(running) /\ Ids(open) /\ Ids({s}) /\ IsMem(mem) /\ IsMem(NoMem)
  BY OneId, NothingTyped DEF Types, IsCheckpoint, Ids
<1>2. Ids(running \cup {s}) /\ Ids(running \ {s}) /\ Ids(open \cup {s})
  BY <1>1, IdsClosed
<1>3. UNCHANGED <<cp, wt>>
  BY DEF ReviewStepStarts, ReviewStepFails, ScopeMapRefused, ReviewStepEnds
<1>4. Ids(running)' /\ Ids(open)'
  BY <1>1, <1>2 DEF ReviewStepStarts, ReviewStepFails, ScopeMapRefused, ReviewStepEnds
<1>5. IsMem(mem)'
  <2>1. \A r : IsMem([mem EXCEPT !.res = r])
    BY <1>1 DEF IsMem
  <2>2. IsMem([mem EXCEPT !.todo = @ \ {s}])
    BY <1>1 DEF IsMem
  <2> QED BY <1>1, <2>1, <2>2
        DEF ReviewStepStarts, ReviewStepFails, ScopeMapRefused, ReviewStepEnds
<1> QED BY <1>3, <1>4, <1>5 DEF Types

LEMMA ReviewTyped ==
  ASSUME Types,
         ReviewStarts \/ ReviewScoped \/ ReviewDecided \/ ReviewRecorded \/ ReviewEscalates
  PROVE  Types'
<1>1. /\ IsWorktree(wt)' /\ Ids(open) /\ Ids(running) /\ Ids(NewIds(Lenses + 2)) /\ IsMem(mem)
      /\ IsMem(NoMem) /\ \A why : IsMem([NoMem EXCEPT !.res = why])
      /\ IsMem([NoMem EXCEPT !.seen = Now])
  <2>1. IsMem(NoMem) /\ IsMem([NoMem EXCEPT !.seen = Now])
        /\ \A why : IsMem([NoMem EXCEPT !.res = why])
    BY NothingTyped, NowTyped DEF IsMem
  <2>2. Ids(NewIds(Lenses + 2))
    BY NewIdsTyped, ExecutionAssumption
  <2>3. UNCHANGED wt
    BY DEF ReviewStarts, ReviewScoped, ReviewDecided, ReviewRecorded, ReviewEscalates
  <2> QED BY <2>1, <2>2, <2>3 DEF Types
<1>2. CASE ReviewStarts
  <2>1. Unreviewed("stale") \/ Goto("scope", [NoMem EXCEPT !.seen = Now]) \/ Unwind
    BY <1>2 DEF ReviewStarts
  <2> QED BY <1>1, <2>1, GotoTyped, UnwindTyped DEF Unreviewed
<1>3. CASE ReviewScoped
  <2> DEFINE ids == NewIds(Lenses + 2)
             d == [cp EXCEPT !.stage = "Review", !.flight = Flight("Review", ids)]
             m == [mem EXCEPT !.todo = ids]
  <2>1. IsCheckpoint(d)
    BY <1>1 DEF Types, IsCheckpoint, CheckpointFields, Flight, Stages
  <2>2. IsMem(m)
    BY <1>1 DEF IsMem
  <2>3. Unreviewed("stale") \/ Write(d, running, open, "scout", m)
    BY <1>3 DEF ReviewScoped
  <2> QED BY <1>1, <2>1, <2>2, <2>3, WriteTyped, GotoTyped DEF Unreviewed
<1>4. CASE ReviewDecided
  <2> DEFINE m == [mem EXCEPT !.res = Decision, !.todo = {}]
  <2>1. IsMem(m)
    BY <1>1 DEF IsMem
  <2> QED BY <1>1, <1>4, <2>1, GotoTyped DEF ReviewDecided
<1>5. CASE ReviewRecorded
  <2> DEFINE d == [cp EXCEPT !.stage = "Review", !.ws = Now, !.review = TRUE, !.flight = NoFlight]
             where == CASE mem.res = "clean" -> "commit" [] mem.res = "blockers" -> "repair"
                        [] OTHER -> "escalate"
             m == IF mem.res = "blockers" THEN NoMem ELSE mem
  <2>1. IsCheckpoint(d)
    BY NothingTyped, NowTyped DEF Types, IsCheckpoint, CheckpointFields, NoFlight, Stages
  <2>2. Write(d, running, open, where, m)
    BY <1>5 DEF ReviewRecorded
  <2> QED BY <1>1, <2>1, <2>2, WriteTyped
<1>6. CASE ReviewEscalates
  <2> DEFINE d == [cp EXCEPT !.checks = NoSnapshot, !.review = FALSE]
  <2>1. IsCheckpoint(d) /\ IsCheckpoint(cp)
    BY NothingTyped DEF Types, IsCheckpoint, CheckpointFields
  <2>2. RaiseOn(IF mem.res = "mutated" THEN d ELSE cp, "Review", open, open, mem.res = "plan")
    BY <1>6 DEF ReviewEscalates
  <2> QED BY <1>1, <2>1, <2>2, RaiseOnTyped
<1> QED BY <1>2, <1>3, <1>4, <1>5, <1>6

LEMMA CommitStepsTyped ==
  ASSUME Types,
         CommitPrepared \/ AlreadySatisfied \/ IntentRecorded \/ GitCommit
           \/ CommitInspected \/ CommitReconciled
  PROVE  Types'
<1>1. /\ Ids(open) /\ Ids(running) /\ Ids(running \cup {NewId}) /\ Ids({NewId}) /\ IsMem(mem)
      /\ IsMem(NoMem) /\ \A n \in Nat : IsMem([NoMem EXCEPT !.commit = n])
      /\ HeadOf(wt) \in Nat
  BY NothingTyped, NowTyped, NewIdKept DEF IsMem, Types
<1>2. CASE CommitPrepared
  <2>1. IsWorktree(wt)'
    BY <1>2, WorktreeKept DEF CommitPrepared, Types
  <2>2. IsMem([NoMem EXCEPT !.seen = Snapshot(wt'), !.now = Now])
    BY <1>1, <2>1, NowTyped, SnapshotTyped DEF IsMem
  <2> QED BY <1>1, <1>2, <2>1, <2>2, RaiseTyped, GotoTyped DEF CommitPrepared
<1>3. CASE AlreadySatisfied
  <2>1. IsWorktree(wt)'
    BY <1>3 DEF AlreadySatisfied, Types
  <2> QED BY <1>1, <1>3, <2>1, RaiseTyped, GotoTyped DEF AlreadySatisfied
<1>4. CASE IntentRecorded
  <2> DEFINE i == [unit |-> Unit(cp), parent |-> mem.seen.head, snapshot |-> mem.seen]
             d == [cp EXCEPT !.stage = "Review", !.ws = mem.now, !.intent = i,
                             !.flight = Flight("Review", {NewId})]
  <2>1. IsWorktree(wt)'
    BY <1>4 DEF IntentRecorded, Types
  <2>2. i \in Intents
    <3>1. Unit(cp) \in 0..Final
      BY ExecutionAssumption DEF Unit, Final, Types, IsCheckpoint
    <3>2. mem.seen \in Snapshots /\ mem.seen.head \in Nat
      BY <1>1 DEF IsMem, Snapshots
    <3> QED BY <3>1, <3>2 DEF Intents
  <2>3. IsCheckpoint(d)
    BY <1>1, <2>2 DEF Types, IsCheckpoint, CheckpointFields, Flight, Stages, IsMem
  <2>4. Write(d, running \cup {NewId}, open, "git", NoMem)
    BY <1>4 DEF IntentRecorded
  <2> QED BY <1>1, <2>1, <2>3, <2>4, WriteTyped
<1>5. CASE GitCommit
  <2>1. CASE Unwind /\ UNCHANGED wt
    BY <2>1, UnwindTyped DEF Types
  <2>2. CASE ~(Unwind /\ UNCHANGED wt)
    <3>1. PICK t \in {wt.tree} \cup NewVersions(wt), trailer \in BOOLEAN :
            \E v \in {t, wt.tree} \cup
                     NewVersions(WithCommit(Edited(wt, t), "payo", cp.intent.unit, trailer)) :
              wt' = Edited(WithCommit(Edited(wt, t), "payo", cp.intent.unit, trailer), v)
      BY <1>5, <2>2 DEF GitCommit
    <3>2. cp.intent.unit \in Nat
      BY ExecutionAssumption DEF Types, IsCheckpoint, Intents, Final
    <3>3. IsWorktree(wt)'
      <4>1. PICK v \in {t, wt.tree} \cup
                      NewVersions(WithCommit(Edited(wt, t), "payo", cp.intent.unit, trailer)) :
              wt' = Edited(WithCommit(Edited(wt, t), "payo", cp.intent.unit, trailer), v)
        BY <3>1
      <4>2. IsWorktree(wt)
        BY DEF Types
      <4> QED BY <3>2, <4>1, <4>2, HookTyped
    <3>4. Goto("committed", NoMem)
      BY <1>5, <2>2 DEF GitCommit
    <3> QED BY <1>1, <3>3, <3>4, GotoTyped
  <2> QED BY <2>1, <2>2
<1>6. CASE CommitInspected
  <2>1. IsWorktree(wt)'
    BY <1>6 DEF CommitInspected, Types
  <2> QED BY <1>1, <1>6, <2>1, UnwindTyped, GotoTyped DEF CommitInspected
<1>7. CASE CommitReconciled
  <2>1. IsWorktree(wt)'
    BY <1>7 DEF CommitReconciled, Types
  <2>2. \/ Raise("Review", open, FALSE)
        \/ Goto("git", NoMem)
        \/ Goto("complete", [NoMem EXCEPT !.commit = HeadOf(wt)])
    BY <1>7 DEF CommitReconciled
  <2> QED BY <1>1, <2>1, <2>2, RaiseTyped, GotoTyped
<1> QED BY <1>2, <1>3, <1>4, <1>5, <1>6, <1>7

\* The checkpoint that records a unit: the next phase, or the final scope.
LEMMA PhaseTyped ==
  ASSUME Types, cp.scope = "phase"
  PROVE  IsCheckpoint(PhaseAccepted(cp))
<1> DEFINE d == PhaseAccepted(cp)
           more == cp.phase < Phases
<1>1. /\ DOMAIN d = CheckpointFields /\ d.stage \in Stages /\ d.round = 0 /\ d.ws = Now
      /\ d.checks = NoSnapshot /\ d.intent = NoIntent /\ d.flight = NoFlight
      /\ d.receipts = Append(cp.receipts, mem.commit)
      /\ d.phase = IF more THEN cp.phase + 1 ELSE cp.phase
      /\ d.scope = IF more THEN "phase" ELSE "final"
  BY DEF PhaseAccepted, Recorded, Types, IsCheckpoint, CheckpointFields, Stages
<1>2. /\ cp.receipts \in Seq(Nat) /\ mem.commit \in Nat /\ cp.phase = Len(cp.receipts) + 1
      /\ cp.phase \in 1..Phases
  BY DEF Types, IsCheckpoint, IsMem
<1>3. d.receipts \in Seq(Nat) /\ Len(d.receipts) = Len(cp.receipts) + 1
  BY <1>1, <1>2, AppendProperties
<1>4. /\ d.phase \in 1..Phases /\ d.scope \in {"phase", "final"}
      /\ d.scope = "phase" => d.phase = Len(d.receipts) + 1
      /\ d.scope = "final" => Len(d.receipts) = Phases
  BY <1>1, <1>2, <1>3, ExecutionAssumption, LenProperties
<1>5. d.ws \in Snapshots /\ d.checks \in Snapshots /\ d.intent \in Intents /\ Ids(d.flight.steps)
  BY <1>1, NowTyped, NothingTyped DEF NoFlight
<1>6. d.round \in 0..MaxCycles
  BY <1>1, ExecutionAssumption
<1> QED BY <1>1, <1>3, <1>4, <1>5, <1>6 DEF IsCheckpoint

LEMMA CompletionTyped ==
  ASSUME Types, PhaseCompletes \/ ExecutionCompletes
  PROVE  Types'
<1>1. /\ IsWorktree(wt)' /\ IsMem(NoMem) /\ Ids({}) /\ Ids(open) /\ Ids(running \ cp.flight.steps)
  BY NothingTyped, IdsClosed DEF PhaseCompletes, ExecutionCompletes, Types, IsCheckpoint
<1>2. CASE PhaseCompletes
  <2> DEFINE d == PhaseAccepted(cp)
  <2>1. IsCheckpoint(d)
    BY <1>2, PhaseTyped DEF PhaseCompletes
  <2>2. Unwind \/ Write(d, running \ cp.flight.steps, open, Dispatch(d), NoMem)
    BY <1>2 DEF PhaseCompletes
  <2> QED BY <1>1, <2>1, <2>2, UnwindTyped, WriteTyped
<1>3. CASE ExecutionCompletes
  <2> DEFINE d == [cp EXCEPT !.stage = "Completed", !.ws = Now, !.intent = NoIntent,
                             !.flight = NoFlight, !.partial = FALSE]
  <2>1. IsCheckpoint(d)
    BY NothingTyped, NowTyped DEF Types, IsCheckpoint, CheckpointFields, NoFlight, Stages
  <2>2. \/ Unwind
        \/ cp' = d /\ running' = {} /\ mem' = NoMem /\ open' = open
    BY <1>3 DEF ExecutionCompletes
  <2> QED BY <1>1, <2>1, <2>2, UnwindTyped DEF Types
<1> QED BY <1>2, <1>3

LEMMA StopsTyped ==
  ASSUME Types, Caught \/ AbortThrows \/ Crash \/ Shutdown \/ Exit \/ Fault
  PROVE  Types'
<1>1. IsWorktree(wt)' /\ IsMem(NoMem) /\ Ids(cp.flight.steps)
  BY NothingTyped DEF Caught, AbortThrows, Crash, Shutdown, Exit, Fault, Types, IsCheckpoint
<1>2. CASE Caught
  BY <1>1, <1>2, GotoTyped, RaiseTyped DEF Caught
<1>3. CASE AbortThrows
  BY <1>1, <1>3, UnwindTyped DEF AbortThrows
<1>4. CASE Crash \/ Shutdown \/ Exit
  BY <1>1, <1>4 DEF Crash, Shutdown, Exit, Types, log
<1>5. CASE Fault
  BY <1>1, <1>5, GotoTyped, UnwindTyped DEF Fault
<1> QED BY <1>2, <1>3, <1>4, <1>5

LEMMA ReturnsTyped ==
  ASSUME Types, Resume \/ Restart
  PROVE  Types'
<1>1. /\ IsWorktree(wt)' /\ IsMem(NoMem) /\ Ids(cp.flight.steps) /\ Ids(open \cup running)
      /\ Ids(open) /\ Ids(open \ cp.flight.steps) /\ Ids(running \ cp.flight.steps)
      /\ IsCheckpoint(cp) /\ IsMem(mem) /\ Ids(running)
  BY NothingTyped, IdsClosed DEF Resume, Restart, Types, IsCheckpoint
<1>2. CASE Resume
  <2> DEFINE d == ResumeCheckpoint(cp)
  <2>1. ResumeStage \in Stages
    BY DEF ResumeStage, Stages
  <2>2. /\ DOMAIN d = CheckpointFields /\ d.stage = ResumeStage /\ d.phase = cp.phase
        /\ d.scope = cp.scope /\ d.ws \in Snapshots /\ d.checks = cp.checks
        /\ d.intent = cp.intent /\ d.receipts = cp.receipts /\ d.flight = NoFlight
    BY <1>1, NowTyped DEF ResumeCheckpoint, Resumed, IsCheckpoint, CheckpointFields
  <2>3. d.round \in 0..MaxCycles
    BY <1>1, ExecutionAssumption DEF ResumeCheckpoint, Resumed, IsCheckpoint, CheckpointFields
  <2>4. IsCheckpoint(d)
    BY <1>1, <2>1, <2>2, <2>3, NothingTyped DEF IsCheckpoint, NoFlight
  <2>5. Write(d, running \ cp.flight.steps, open \ cp.flight.steps, Dispatch(d), NoMem)
    BY <1>2 DEF Resume
  <2> QED BY <1>1, <2>4, <2>5, WriteTyped
<1>3. CASE Restart
  <2> DEFINE gated == IF ended THEN open ELSE open \cup running
             op == IF cp.flight = NoFlight THEN cp.stage ELSE cp.flight.op
  <2>1. Ids(gated)
    BY <1>1
  <2>2. CASE RaiseOn(cp, op, cp.flight.steps, gated, FALSE)
    BY <1>1, <2>1, <2>2, RaiseOnTyped
  <2>3. CASE open' = gated /\ UNCHANGED <<cp, running, mem>>
    BY <1>1, <2>1, <2>3 DEF Types
  <2> QED BY <1>3, <2>2, <2>3 DEF Restart
<1> QED BY <1>2, <1>3

LEMMA WorldTyped ==
  ASSUME Types, World
  PROVE  Types'
<1>1. UNCHANGED <<cp, running, open, mem>>
  BY DEF World, Touch, ForeignCommit, OtherBranch, Engines, log
<1>2. CASE Touch
  BY <1>1, <1>2, EditTyped DEF Touch, Types
<1>3. CASE ForeignCommit
  BY <1>1, <1>3, CommitTyped DEF ForeignCommit, Types
<1>4. CASE OtherBranch
  BY <1>1, <1>4, WorktreeKept DEF OtherBranch, Types
<1> QED BY <1>2, <1>3, <1>4 DEF World

LEMMA TypesInitially == Init => Types
<1> SUFFICES ASSUME Init PROVE Types
  OBVIOUS
<1>1. Ids({}) /\ IsMem(NoMem) /\ NoSnapshot \in Snapshots /\ NoIntent \in Intents
  BY NothingTyped
<1>2. IsCheckpoint(cp)
  <2>1. <<>> \in Seq(Nat) /\ Len(<<>>) = 0
    BY EmptySeq
  <2>2. 1 \in 1..Phases /\ 0 \in 0..MaxCycles
    BY ExecutionAssumption
  <2>3. DOMAIN InitialCheckpoint = CheckpointFields
    BY DEF InitialCheckpoint, CheckpointFields
  <2>4. /\ InitialCheckpoint.stage = "Prepare" /\ InitialCheckpoint.phase = 1
        /\ InitialCheckpoint.scope = "phase" /\ InitialCheckpoint.round = 0
        /\ InitialCheckpoint.ws = NoSnapshot /\ InitialCheckpoint.checks = NoSnapshot
        /\ InitialCheckpoint.intent = NoIntent /\ InitialCheckpoint.receipts = <<>>
        /\ InitialCheckpoint.flight.steps = {}
    BY DEF InitialCheckpoint, NoFlight
  <2>5. InitialCheckpoint.receipts \in Seq(Nat) /\ Len(InitialCheckpoint.receipts) = 0
    BY <2>1, <2>4
  <2>6. IsCheckpoint(InitialCheckpoint)
    BY <1>1, <2>2, <2>3, <2>4, <2>5 DEF IsCheckpoint, Stages
  <2> QED BY <2>6 DEF Init
<1>3. IsWorktree(wt)
  <2> DEFINE base == [by |-> "base", unit |-> 0, tree |-> 0, trailer |-> FALSE]
  <2>1. base \in Commits(0)
    BY DEF Commits
  <2>2. <<base>> \in Seq(Commits(0)) /\ <<base>> # <<>>
    BY <2>1
  <2> QED BY <2>2, ExecutionAssumption DEF Init, IsWorktree
<1> QED BY <1>1, <1>2, <1>3 DEF Init, Types

LEMMA TypesNext == Types /\ [ExecutionNext]_vars => Types'
<1> SUFFICES ASSUME Types, [ExecutionNext]_vars PROVE Types'
  OBVIOUS
<1>1. CASE Engine
  BY <1>1, StartsTyped, PreparationTyped, AgentTyped, ReportsTyped, ChecksTyped,
     ReviewStepsTyped, ReviewTyped, CommitStepsTyped, CompletionTyped, StopsTyped DEF Engine
<1>2. CASE Process
  BY <1>2, StopsTyped, ReturnsTyped DEF Process
<1>3. CASE World
  BY <1>3, WorldTyped
<1>4. CASE UNCHANGED vars
  BY <1>4 DEF vars, log, Types
<1> QED BY <1>1, <1>2, <1>3, <1>4 DEF ExecutionNext

\* The checkpoint, the log, the worktree and the engine's locals keep their types
\* across every write, crash, resume and edit; a phase's receipts are as many as the
\* phases before it, and the cycles of a unit never exceed their limit.
THEOREM TypeCorrect == Spec => []TypeOK
<1>1. Types => TypeOK
  <2> SUFFICES ASSUME Types PROVE TypeOK
    OBVIOUS
  <2>1. {cp.ws, cp.checks, cp.intent.snapshot, mem.seen, mem.now} \subseteq Snapshots
        /\ cp.intent.unit \in 0..Final
    BY DEF Types, IsCheckpoint, IsMem, Intents
  <2>2. running \cup open \cup cp.flight.steps \subseteq StepIds
    BY DEF Types, IsCheckpoint, Ids, StepIds
  <2>3. Len(cp.receipts) <= Phases
    BY ExecutionAssumption, LenProperties DEF Types, IsCheckpoint
  <2>4. wt.tree \in 0..wt.latest /\ wt.latest <= MaxVersions
    BY ExecutionAssumption DEF Types, IsWorktree
  <2> QED BY <2>1, <2>2, <2>3, <2>4 DEF Types, IsCheckpoint, TypeOK
<1> QED BY <1>1, TypesInitially, TypesNext, PTL DEF Spec

(***************************************************************************)
(* The gates.                                                              *)
(***************************************************************************)
\* Where nothing of the run's log is running.
Quiet ==
  {"prepare", "manifest", "implement", "repair", "check", "exhausted", "agent", "report",
   "capture", "unrepaired", "unchecked", "review", "scope", "verdict", "record", "escalate",
   "commit", "satisfied", "intent", "reconcile"}
\* Where no gate of the run is open.
Gateless ==
  {"prepare", "worktree", "prepared", "manifest", "implement", "repair", "check", "checking",
   "checked", "evidence", "exhausted", "agent", "work", "capture", "unrepaired", "unchecked",
   "review", "scope", "scout", "verifier", "commit", "satisfied", "intent", "git", "committed",
   "complete", "reconcile"}

Owned == running \subseteq cp.flight.steps
Rests == /\ pc \in Quiet => running = {}
         /\ pc = "work" => running = cp.flight.steps
Ungated ==
  /\ pc \in Gateless => open = {}
  /\ pc = "report" => mem.res = "failed" \/ open = {}
  /\ pc \in {"lenses", "verdict"} => mem.res = "unchecked" \/ open = {}
  /\ pc = "record" => mem.res \notin {"clean", "blockers"} \/ open = {}
\* Only the review steps whose turn it is are running, and they are started once.
Turns == pc \in ReviewPCs => running \subseteq Turn(pc) /\ running \cap mem.todo = {}
EndRests ==
  ended => pc \in {"idle", "down"} /\ cp.stage = "Completed" /\ running = {} /\ open = {}

GateInv == Owned /\ Rests /\ Ungated /\ Turns /\ EndRests

LEMMA GatesInitially == Init => GateInv
BY DEF Init, GateInv, Owned, Rests, Ungated, Turns, EndRests, Quiet, Gateless, ReviewPCs

LEMMA NotEnded ==
  ASSUME GateInv, pc \notin {"idle", "down"}
  PROVE  ~ended
BY DEF GateInv, EndRests

-----------------------------------------------------------------------------
(* How a handler ends.                                                     *)

LEMMA UnwindGated ==
  ASSUME GateInv, pc \notin {"idle", "down"}, Unwind
  PROVE  GateInv'
BY DEF GateInv, Owned, Rests, Ungated, Turns, EndRests, Quiet, Gateless, ReviewPCs, Unwind, log

LEMMA GotoGated ==
  ASSUME GateInv, pc \notin {"idle", "down"}, NEW where, NEW m, Goto(where, m),
         where \notin {"work", "report", "lenses", "verdict", "record"} \cup ReviewPCs,
         where \in Quiet => running = {}, where \in Gateless => open = {}
  PROVE  GateInv'
BY DEF GateInv, Owned, Rests, Ungated, Turns, EndRests, ReviewPCs, Goto, log

LEMMA WriteGated ==
  ASSUME GateInv, ~ended, NEW d, NEW steps, NEW gates, NEW where, NEW m,
         Write(d, steps, gates, where, m), steps \subseteq d.flight.steps,
         where \notin {"work", "report", "lenses", "verdict", "record"} \cup ReviewPCs,
         where \in Quiet => steps = {}, where \in Gateless => gates = {}
  PROVE  GateInv'
BY DEF GateInv, Owned, Rests, Ungated, Turns, EndRests, Quiet, Gateless, ReviewPCs, Write, Unwind, log

LEMMA RaiseOnGated ==
  ASSUME Types, GateInv, ~ended, NEW c, IsCheckpoint(c), NEW op, NEW steps, NEW gates, NEW pinned,
         RaiseOn(c, op, steps, gates, pinned), running \subseteq steps
  PROVE  GateInv'
<1> DEFINE d == [c EXCEPT !.stage = "Escalated", !.flight = Flight(op, steps \cup {NewId}),
                          !.pinned = pinned, !.partial = FALSE]
<1>1. running \subseteq d.flight.steps
  BY DEF IsCheckpoint, CheckpointFields, Flight
<1>2. Write(d, running, gates \cup {NewId}, "idle", NoMem)
  BY DEF RaiseOn
<1>3. "idle" \notin Quiet \cup Gateless \cup ReviewPCs
  BY DEF Quiet, Gateless, ReviewPCs
<1> QED BY <1>1, <1>2, <1>3, WriteGated

LEMMA RaiseGated ==
  ASSUME Types, GateInv, ~ended, NEW op, NEW steps, NEW pinned, Raise(op, steps, pinned),
         running \subseteq steps
  PROVE  GateInv'
BY RaiseOnGated DEF Raise, Types

-----------------------------------------------------------------------------
(* Every step keeps the gates.                                             *)

LEMMA StartsGated ==
  ASSUME Types, GateInv,
         PrepareStarts \/ ManifestStarts \/ ImplementStarts \/ RepairStarts \/ CheckStarts
  PROVE  GateInv'
<1>1. ~ended /\ running = {} /\ open = {} /\ pc \notin {"idle", "down"}
  BY NotEnded DEF PrepareStarts, ManifestStarts, ImplementStarts, RepairStarts, CheckStarts, At,
                  GateInv, Rests, Ungated, Quiet, Gateless
<1>2. \A where \in {"worktree", "agent", "checking"} :
        where \notin {"work", "report", "lenses", "verdict", "record"} \cup ReviewPCs
  BY DEF ReviewPCs
<1>3. CASE PrepareStarts
  <2> DEFINE d == [cp EXCEPT !.stage = "Prepare", !.flight = Flight("Prepare", {NewId})]
  <2>1. Write(d, running \cup {NewId}, open, "worktree", NoMem)
    BY <1>3 DEF PrepareStarts
  <2>2. d.flight.steps = {NewId} /\ "worktree" \notin Quiet
    BY DEF Types, IsCheckpoint, CheckpointFields, Flight, Quiet
  <2> QED BY <1>1, <1>2, <2>1, <2>2, WriteGated
<1>4. CASE ManifestStarts
  <2> DEFINE d == [cp EXCEPT !.stage = "Prepare", !.flight = Flight("Prepare", {NewId})]
  <2>1. Write(d, running, open, "agent", NoMem)
    BY <1>4 DEF ManifestStarts
  <2> QED BY <1>1, <1>2, <2>1, WriteGated
<1>5. CASE ImplementStarts
  <2> DEFINE d == [cp EXCEPT !.stage = "Implement", !.ws = Now,
                             !.flight = Flight("Implement", {NewId})]
  <2>1. \/ Unwind
        \/ Raise("Implement", {}, FALSE)
        \/ Write(d, running, open, "agent", [NoMem EXCEPT !.seen = Now])
    BY <1>5 DEF ImplementStarts
  <2>2. CASE Raise("Implement", {}, FALSE)
    <3>1. running \subseteq {}
      BY <1>1
    <3> QED BY <1>1, <2>2, <3>1, RaiseGated
  <2>3. CASE Write(d, running, open, "agent", [NoMem EXCEPT !.seen = Now])
    BY <1>1, <1>2, <2>3, WriteGated
  <2> QED BY <1>1, <2>1, <2>2, <2>3, UnwindGated
<1>6. CASE RepairStarts
  <2> DEFINE d == [cp EXCEPT !.stage = "Repair", !.ws = Now, !.flight = Flight("Repair", {NewId})]
  <2>1. Unwind \/ Write(d, running, open, "agent", [NoMem EXCEPT !.seen = Now])
    BY <1>6 DEF RepairStarts
  <2> QED BY <1>1, <1>2, <2>1, WriteGated, UnwindGated
<1>7. CASE CheckStarts
  <2> DEFINE d == [cp EXCEPT !.stage = "Check", !.round = NextRound(cp), !.ws = Now,
                             !.checks = NoSnapshot, !.review = FALSE,
                             !.flight = Flight("Check", {NewId})]
  <2>1. Unwind \/ Write(d, running \cup {NewId}, open, "checking", [NoMem EXCEPT !.seen = Now])
    BY <1>7 DEF CheckStarts
  <2>2. d.flight.steps = {NewId} /\ "checking" \notin Quiet
    BY DEF Types, IsCheckpoint, CheckpointFields, Flight, Quiet
  <2>3. running \cup {NewId} \subseteq d.flight.steps
    BY <1>1, <2>2
  <2> HIDE DEF d
  <2> QED BY <1>1, <1>2, <2>1, <2>2, <2>3, WriteGated, UnwindGated
<1> QED BY <1>3, <1>4, <1>5, <1>6, <1>7

LEMMA PreparationGated ==
  ASSUME Types, GateInv, PrepareWorktree \/ PrepareEnds
  PROVE  GateInv'
<1>1. ~ended /\ open = {} /\ pc \notin {"idle", "down"} /\ running \subseteq cp.flight.steps
  BY NotEnded DEF PrepareWorktree, PrepareEnds, At, GateInv, Owned, Ungated, Gateless
<1>2. \A where \in {"prepared", "implement", "manifest"} :
        where \notin {"work", "report", "lenses", "verdict", "record"} \cup ReviewPCs
  BY DEF ReviewPCs
<1>3. CASE PrepareWorktree
  <2>1. Raise("Prepare", cp.flight.steps, FALSE) \/ Goto("prepared", NoMem)
    BY <1>3 DEF PrepareWorktree
  <2>2. "prepared" \notin Quiet
    BY DEF Quiet
  <2> QED BY <1>1, <1>2, <2>1, <2>2, RaiseGated, GotoGated
<1>4. CASE PrepareEnds
  <2> DEFINE d == [cp EXCEPT !.ws = Now, !.flight = NoFlight]
             where == IF cp.manifest THEN "implement" ELSE "manifest"
  <2>1. \/ Raise("Prepare", cp.flight.steps, FALSE)
        \/ Write(d, running \ cp.flight.steps, open, where, NoMem)
    BY <1>4 DEF PrepareEnds
  <2>2. running \ cp.flight.steps = {} /\ where \in {"prepared", "implement", "manifest"}
    BY <1>1
  <2> QED BY <1>1, <1>2, <2>1, <2>2, RaiseGated, WriteGated
<1> QED BY <1>3, <1>4

LEMMA AgentGated ==
  ASSUME Types, GateInv, AgentStarts \/ AgentEnds
  PROVE  GateInv'
<1>1. CASE AgentStarts
  <2>1. ~ended /\ running = {} /\ open = {}
    BY <1>1, NotEnded DEF AgentStarts, At, GateInv, Rests, Ungated, Quiet, Gateless
  <2> QED BY <1>1, <2>1
        DEF AgentStarts, GateInv, Owned, Rests, Ungated, Turns, EndRests, Quiet, ReviewPCs
<1>2. CASE AgentEnds
  <2>1. ~ended /\ running = cp.flight.steps /\ open = {}
    BY <1>2, NotEnded DEF AgentEnds, At, GateInv, Rests, Ungated, Gateless
  <2>2. running' = {} /\ pc' = "report" /\ ended' = ended /\ cp' = cp
    BY <1>2, <2>1 DEF AgentEnds
  <2>3. mem'.res = "failed" \/ open' = {}
    BY <1>2, <2>1 DEF AgentEnds, Types, IsMem
  <2> QED BY <2>1, <2>2, <2>3
        DEF GateInv, Owned, Rests, Ungated, Turns, EndRests, Gateless, ReviewPCs
<1> QED BY <1>1, <1>2

LEMMA ReportsGated ==
  ASSUME Types, GateInv,
         ManifestEnds \/ ImplementEnds \/ ImplementationCaptured \/ RepairEnds \/ Unrepaired
  PROVE  GateInv'
<1>1. /\ ~ended /\ running = {} /\ pc \notin {"idle", "down"} /\ running \subseteq cp.flight.steps
  BY NotEnded DEF ManifestEnds, ImplementEnds, ImplementationCaptured, RepairEnds, Unrepaired,
                  Reporting, At, GateInv, Rests, Quiet
<1>2. \A where \in {"implement", "capture", "check", "unrepaired"} :
        where \notin {"work", "report", "lenses", "verdict", "record"} \cup ReviewPCs
  BY DEF ReviewPCs
<1>3. CASE ManifestEnds
  <2> DEFINE d == [cp EXCEPT !.stage = "Implement", !.manifest = TRUE, !.flight = NoFlight]
  <2>1. \/ Raise("Prepare", cp.flight.steps, mem.res = "plan")
        \/ mem.res = "ok" /\ Write(d, running, open, "implement", NoMem)
    BY <1>3 DEF ManifestEnds
  <2>2. mem.res = "ok" => open = {}
    BY <1>3 DEF ManifestEnds, Reporting, At, GateInv, Ungated
  <2> QED BY <1>1, <1>2, <2>1, <2>2, RaiseGated, WriteGated
<1>4. CASE ImplementEnds
  <2>1. \/ mem.res = "ok" /\ Goto("capture", [NoMem EXCEPT !.seen = Now])
        \/ Raise("Implement", cp.flight.steps, FALSE)
        \/ Raise("Implement", cp.flight.steps, mem.res = "plan" /\ SameHistory(Now, mem.seen))
    BY <1>4 DEF ImplementEnds
  <2>2. mem.res = "ok" => open = {}
    BY <1>4 DEF ImplementEnds, Reporting, At, GateInv, Ungated
  <2> QED BY <1>1, <1>2, <2>1, <2>2, RaiseGated, GotoGated
<1>5. CASE ImplementationCaptured
  <2> DEFINE d == [cp EXCEPT !.stage = "Check", !.ws = Now, !.checks = NoSnapshot,
                             !.review = FALSE, !.flight = NoFlight, !.partial = FALSE]
  <2>1. Write(d, running, open, "check", NoMem) \/ Raise("Implement", cp.flight.steps, FALSE)
    BY <1>5 DEF ImplementationCaptured
  <2>2. open = {}
    BY <1>5 DEF ImplementationCaptured, At, GateInv, Ungated, Gateless
  <2> QED BY <1>1, <1>2, <2>1, <2>2, RaiseGated, WriteGated
<1>6. CASE RepairEnds
  <2> DEFINE d == [cp EXCEPT !.ws = Now]
             e == [cp EXCEPT !.stage = "Check", !.ws = Now, !.flight = NoFlight]
  <2>1. \/ Raise("Repair", cp.flight.steps, FALSE)
        \/ mem.res # "failed" /\ Write(d, running, open, "unrepaired", mem)
        \/ mem.res # "failed" /\ Write(e, running, open, "check", NoMem)
    BY <1>6 DEF RepairEnds
  <2>2. mem.res # "failed" => open = {}
    BY <1>6 DEF RepairEnds, Reporting, At, GateInv, Ungated
  <2> QED BY <1>1, <1>2, <2>1, <2>2, RaiseGated, WriteGated
<1>7. CASE Unrepaired
  BY <1>1, <1>7, RaiseGated DEF Unrepaired
<1> QED BY <1>3, <1>4, <1>5, <1>6, <1>7

LEMMA ChecksGated ==
  ASSUME Types, GateInv,
         ChecksRun \/ ChecksThrow \/ ChecksUnrun \/ ChecksEnd \/ ChecksRecorded \/ ChecksExhausted
  PROVE  GateInv'
<1>1. ~ended /\ open = {} /\ pc \notin {"idle", "down"} /\ running \subseteq cp.flight.steps
      /\ running \ cp.flight.steps = {}
  BY NotEnded DEF ChecksRun, ChecksThrow, ChecksUnrun, ChecksEnd, ChecksRecorded, ChecksExhausted,
                  At, GateInv, Owned, Ungated, Gateless
<1>2. \A where \in {"unchecked", "exhausted", "check", "evidence", "review", "repair"} :
        where \notin {"work", "report", "lenses", "verdict", "record"} \cup ReviewPCs
  BY DEF ReviewPCs
<1>3. CASE ChecksRun
  <2>1. pc' = "checked" /\ UNCHANGED <<cp, log>>
    BY <1>3 DEF ChecksRun
  <2> QED BY <1>1, <2>1
        DEF GateInv, Owned, Rests, Ungated, Turns, EndRests, Quiet, ReviewPCs, log
<1>4. CASE ChecksThrow
  <2> DEFINE d == [cp EXCEPT !.flight = NoFlight]
  <2>1. Write(d, running \ cp.flight.steps, open, "unchecked",
              [NoMem EXCEPT !.owned = cp.flight.steps])
    BY <1>4 DEF ChecksThrow
  <2> QED BY <1>1, <1>2, <2>1, WriteGated
<1>5. CASE ChecksEnd
  <2> DEFINE d == [cp EXCEPT !.stage = "Check", !.ws = Now, !.flight = NoFlight]
             where == IF cp.round = MaxCycles THEN "exhausted" ELSE "check"
  <2>1. \/ Write(d, running \ cp.flight.steps, open, where, NoMem)
        \/ Goto("evidence", mem)
        \/ Raise("Check", cp.flight.steps, FALSE)
    BY <1>5 DEF ChecksEnd
  <2>2. "evidence" \notin Quiet /\ where \in {"exhausted", "check"}
    BY DEF Quiet
  <2> QED BY <1>1, <1>2, <2>1, <2>2, RaiseGated, WriteGated, GotoGated
<1>6. CASE ChecksRecorded
  <2> DEFINE ok == mem.res = "passed"
             d == [cp EXCEPT !.stage = IF ok THEN "Review" ELSE "Repair", !.ws = mem.seen,
                             !.checks = IF ok THEN mem.seen ELSE NoSnapshot,
                             !.flight = NoFlight]
             where == CASE ok -> "review" [] ~ok /\ cp.round = MaxCycles -> "exhausted"
                        [] OTHER -> "repair"
  <2>1. \/ Raise("Check", cp.flight.steps, FALSE)
        \/ Write(d, running \ cp.flight.steps, open, where, NoMem)
    BY <1>6 DEF ChecksRecorded
  <2>2. where \in {"review", "exhausted", "repair"}
    OBVIOUS
  <2> QED BY <1>1, <1>2, <2>1, <2>2, RaiseGated, WriteGated
<1>7. CASE ChecksUnrun \/ ChecksExhausted
  <2>1. running = {}
    BY <1>7 DEF ChecksUnrun, ChecksExhausted, At, GateInv, Rests, Quiet
  <2> QED BY <1>1, <1>7, <2>1, RaiseGated DEF ChecksUnrun, ChecksExhausted
<1> QED BY <1>3, <1>4, <1>5, <1>6, <1>7

\* A review step that ends is, for a scout or a verifier, the only one.
LEMMA TurnEnds ==
  ASSUME GateInv, pc \in ReviewPCs, NEW s \in Turn(pc) \cap running
  PROVE  /\ Awaited(s) = {} => running \ {s} = {}
         /\ pc \in {"scout", "verifier"} => Awaited(s) = {}
<1>1. running \subseteq Turn(pc) /\ s \notin mem.todo
  BY DEF GateInv, Turns
<1>2. Awaited(s) = {} => running \ {s} = {}
  BY <1>1 DEF Awaited
<1>3. pc \in {"scout", "verifier"} => Turn(pc) = {s}
  BY DEF Turn, Scout, Verifier
<1>4. pc \in {"scout", "verifier"} => Awaited(s) = {}
  BY <1>1, <1>3 DEF Awaited
<1> QED BY <1>2, <1>4

LEMMA ReviewStepsGated ==
  ASSUME Types, GateInv, NEW s \in cp.flight.steps,
         ReviewStepStarts(s) \/ ReviewStepFails(s) \/ ScopeMapRefused(s) \/ ReviewStepEnds(s)
  PROVE  GateInv'
<1>1. /\ pc \in ReviewPCs /\ UNCHANGED <<cp, ended>> /\ ~ended
      /\ running' \subseteq cp.flight.steps
  BY NotEnded DEF ReviewStepStarts, ReviewStepFails, ScopeMapRefused, ReviewStepEnds, ReviewPCs,
                  GateInv, Owned
<1>2. Owned' /\ EndRests'
  BY <1>1 DEF Owned, EndRests
<1>3. CASE ReviewStepStarts(s)
  <2>1. pc' = pc /\ open' = open /\ Turn(pc)' = Turn(pc) /\ mem'.res = mem.res
        /\ mem'.todo = mem.todo \ {s} /\ running' = running \cup {s} /\ s \in Turn(pc)
    BY <1>3 DEF ReviewStepStarts, Types, IsMem, Turn, Scout, Verifier
  <2>2. Rests' /\ Turns'
    BY <1>1, <2>1 DEF Rests, Turns, GateInv, ReviewPCs, Quiet
  <2>3. Ungated'
    BY <1>1, <2>1 DEF Ungated, GateInv, ReviewPCs, Gateless
  <2> QED BY <1>2, <2>2, <2>3 DEF GateInv
<1>4. CASE ReviewStepFails(s)
  <2>1. /\ mem'.res = "unchecked" /\ mem'.todo = mem.todo /\ running' = running \ {s}
        /\ pc' = IF Awaited(s) = {} THEN "verdict" ELSE pc
    BY <1>4 DEF ReviewStepFails, Types, IsMem
  <2>2. pc' \in {"lenses", "verdict"} /\ (pc' = "verdict" => running' = {})
    BY <1>1, <1>4, <2>1, TurnEnds DEF ReviewStepFails, ReviewPCs
  <2>3. Rests' /\ Ungated'
    BY <2>1, <2>2 DEF Rests, Ungated, Quiet, Gateless
  <2>4. Turns'
    <3>1. pc' = pc => Turn(pc)' = Turn(pc)
      BY <1>1 DEF Turn, Scout, Verifier
    <3> QED BY <1>1, <2>1, <2>2, <3>1 DEF Turns, GateInv, ReviewPCs
  <2> QED BY <1>2, <2>3, <2>4 DEF GateInv
<1>5. CASE ScopeMapRefused(s)
  <2>1. pc' = "catch"
    BY <1>5 DEF ScopeMapRefused
  <2> QED BY <1>2, <2>1 DEF GateInv, Rests, Ungated, Turns, Quiet, Gateless, ReviewPCs
<1>6. CASE ReviewStepEnds(s)
  <2>1. PICK r \in ReviewReports :
          /\ mem' = [mem EXCEPT !.res = r]
          /\ pc' = CASE Awaited(s) # {} -> pc
                     [] Awaited(s) = {} /\ pc = "scout" /\ r = "none" -> "lenses"
                     [] Awaited(s) = {} /\ pc = "lenses" /\ r = "none" -> "verifier"
                     [] OTHER -> "verdict"
    BY <1>6 DEF ReviewStepEnds
  <2>2. mem'.res = r /\ mem'.todo = mem.todo /\ running' = running \ {s} /\ open' = open
    BY <1>6, <2>1 DEF ReviewStepEnds, Types, IsMem
  <2>3. s \in Turn(pc) \cap running
    BY <1>6 DEF ReviewStepEnds
  <2>4. \/ pc = "lenses" /\ pc' = pc
        \/ running' = {} /\ pc' \in {"lenses", "verifier", "verdict"}
           /\ (pc' = "verifier" => pc = "lenses" /\ r = "none")
    BY <1>1, <2>1, <2>2, <2>3, TurnEnds DEF ReviewPCs
  <2>5. open = {} \/ (pc = "lenses" /\ mem.res = "unchecked" /\ r = mem.res)
    BY <1>1, <2>1 DEF GateInv, Ungated, Gateless, ReviewPCs, ReviewReports
  <2>6. Rests' /\ Ungated'
    BY <1>1, <2>2, <2>4, <2>5 DEF Rests, Ungated, Quiet, Gateless
  <2>7. Turns'
    <3>1. CASE pc = "lenses" /\ pc' = pc
      <4>1. Turn(pc)' = Turn(pc)
        BY <1>1, <3>1 DEF Turn, Scout, Verifier
      <4> QED BY <1>1, <2>2, <3>1, <4>1 DEF Turns, GateInv
    <3>2. CASE running' = {}
      BY <3>2 DEF Turns
    <3> QED BY <2>4, <3>1, <3>2
  <2> QED BY <1>2, <2>6, <2>7 DEF GateInv
<1> QED BY <1>3, <1>4, <1>5, <1>6

LEMMA ReviewGated ==
  ASSUME Types, GateInv,
         ReviewStarts \/ ReviewScoped \/ ReviewDecided \/ ReviewRecorded \/ ReviewEscalates
  PROVE  GateInv'
<1>1. ~ended /\ running = {} /\ pc \notin {"idle", "down"}
  BY NotEnded DEF ReviewStarts, ReviewScoped, ReviewDecided, ReviewRecorded, ReviewEscalates,
                  At, GateInv, Rests, Quiet
<1>2. \A where \in {"escalate", "scope", "commit", "repair"} :
        where \notin {"work", "report", "lenses", "verdict", "record"} \cup ReviewPCs
  BY DEF ReviewPCs
<1>3. "escalate" \notin Gateless
  BY DEF Gateless
<1>4. CASE ReviewStarts
  <2>1. Unreviewed("stale") \/ Goto("scope", [NoMem EXCEPT !.seen = Now]) \/ Unwind
    BY <1>4 DEF ReviewStarts
  <2>2. open = {}
    BY <1>4 DEF ReviewStarts, At, GateInv, Ungated, Gateless
  <2> QED BY <1>1, <1>2, <2>1, <2>2, GotoGated, UnwindGated DEF Unreviewed
<1>5. CASE ReviewScoped
  <2> DEFINE ids == NewIds(Lenses + 2)
             d == [cp EXCEPT !.stage = "Review", !.flight = Flight("Review", ids)]
             m == [mem EXCEPT !.todo = ids]
  <2>1. Unreviewed("stale") \/ Write(d, running, open, "scout", m)
    BY <1>5 DEF ReviewScoped
  <2>2. open = {}
    BY <1>5 DEF ReviewScoped, At, GateInv, Ungated, Gateless
  <2>3. CASE Unreviewed("stale")
    BY <1>1, <1>2, <1>3, <2>3, GotoGated DEF Unreviewed
  <2>4. CASE Write(d, running, open, "scout", m)
    <3>1. Unwind \/ (pc' = "scout" /\ running' = {} /\ open' = {} /\ ended' = ended)
      BY <1>1, <2>2, <2>4 DEF Write
    <3> QED BY <1>1, <3>1, UnwindGated
          DEF GateInv, Owned, Rests, Ungated, Turns, EndRests, Quiet, Gateless
  <2> QED BY <2>1, <2>3, <2>4
<1>6. CASE ReviewDecided
  <2>1. /\ pc' = "record" /\ UNCHANGED <<cp, log>> /\ mem'.res = Decision
        /\ mem.res = "unchecked" \/ open = {}
    BY <1>6 DEF ReviewDecided, At, Goto, GateInv, Ungated, Types, IsMem
  <2>2. mem.res = "unchecked" => Decision \notin {"clean", "blockers"}
    BY DEF Decision
  <2> QED BY <1>1, <2>1, <2>2
        DEF GateInv, Owned, Rests, Ungated, Turns, EndRests, Gateless, ReviewPCs, log
<1>7. CASE ReviewRecorded
  <2> DEFINE d == [cp EXCEPT !.stage = "Review", !.ws = Now, !.review = TRUE, !.flight = NoFlight]
             where == CASE mem.res = "clean" -> "commit" [] mem.res = "blockers" -> "repair"
                        [] OTHER -> "escalate"
             m == IF mem.res = "blockers" THEN NoMem ELSE mem
  <2>1. Write(d, running, open, where, m)
    BY <1>7 DEF ReviewRecorded
  <2>2. mem.res \in {"clean", "blockers"} => open = {}
    BY <1>7 DEF ReviewRecorded, At, GateInv, Ungated
  <2>3. where \in {"escalate", "commit", "repair"} /\ (where # "escalate" => open = {})
    BY <2>2
  <2> HIDE DEF d, where, m
  <2> QED BY <1>1, <1>2, <1>3, <2>1, <2>3, WriteGated
<1>8. CASE ReviewEscalates
  <2> DEFINE d == [cp EXCEPT !.checks = NoSnapshot, !.review = FALSE]
  <2>1. IsCheckpoint(d) /\ IsCheckpoint(cp)
    BY NothingTyped DEF Types, IsCheckpoint, CheckpointFields
  <2>2. RaiseOn(IF mem.res = "mutated" THEN d ELSE cp, "Review", open, open, mem.res = "plan")
    BY <1>8 DEF ReviewEscalates
  <2> QED BY <1>1, <2>1, <2>2, RaiseOnGated
<1> QED BY <1>4, <1>5, <1>6, <1>7, <1>8

LEMMA CommitStepsGated ==
  ASSUME Types, GateInv,
         CommitPrepared \/ AlreadySatisfied \/ IntentRecorded \/ GitCommit
           \/ CommitInspected \/ CommitReconciled
  PROVE  GateInv'
<1>1. ~ended /\ open = {} /\ pc \notin {"idle", "down"}
  BY NotEnded DEF CommitPrepared, AlreadySatisfied, IntentRecorded, GitCommit, CommitInspected,
                  CommitReconciled, At, GateInv, Ungated, Gateless
<1>2. pc \in {"commit", "satisfied", "intent", "reconcile"} => running = {}
  BY DEF GateInv, Rests, Quiet
<1>3. \A where \in {"intent", "satisfied", "complete", "git", "committed"} :
        where \notin {"work", "report", "lenses", "verdict", "record"} \cup ReviewPCs
  BY DEF ReviewPCs
<1>4. "complete" \notin Quiet /\ "git" \notin Quiet /\ "committed" \notin Quiet
  BY DEF Quiet
<1>5. CASE CommitPrepared
  <2> DEFINE where == IF Dirty(wt) THEN "intent" ELSE "satisfied"
  <2>1. \/ Raise("Review", open, FALSE)
        \/ Goto(where, [NoMem EXCEPT !.seen = Snapshot(wt'), !.now = Now])
    BY <1>5 DEF CommitPrepared
  <2>2. running = {} /\ where \in {"intent", "satisfied"}
    BY <1>2, <1>5 DEF CommitPrepared, At
  <2> QED BY <1>1, <1>3, <2>1, <2>2, RaiseGated, GotoGated
<1>6. CASE AlreadySatisfied
  <2>1. Raise("Review", open, FALSE) \/ Goto("complete", [NoMem EXCEPT !.commit = HeadOf(wt)])
    BY <1>6 DEF AlreadySatisfied
  <2>2. running = {}
    BY <1>2, <1>6 DEF AlreadySatisfied, At
  <2> QED BY <1>1, <1>3, <2>1, <2>2, RaiseGated, GotoGated
<1>7. CASE IntentRecorded
  <2> DEFINE i == [unit |-> Unit(cp), parent |-> mem.seen.head, snapshot |-> mem.seen]
             d == [cp EXCEPT !.stage = "Review", !.ws = mem.now, !.intent = i,
                             !.flight = Flight("Review", {NewId})]
  <2>1. Write(d, running \cup {NewId}, open, "git", NoMem)
    BY <1>7 DEF IntentRecorded
  <2>2. running = {} /\ d.flight.steps = {NewId}
    BY <1>2, <1>7 DEF IntentRecorded, At, Types, IsCheckpoint, CheckpointFields, Flight
  <2>3. running \cup {NewId} \subseteq d.flight.steps
    BY <2>2
  <2> HIDE DEF d
  <2> QED BY <1>1, <1>3, <1>4, <2>1, <2>3, WriteGated
<1>8. CASE GitCommit
  <2>1. Unwind \/ Goto("committed", NoMem)
    BY <1>8 DEF GitCommit
  <2> QED BY <1>1, <1>3, <1>4, <2>1, UnwindGated, GotoGated
<1>9. CASE CommitInspected
  <2>1. Unwind \/ Goto("complete", [NoMem EXCEPT !.commit = HeadOf(wt)])
    BY <1>9 DEF CommitInspected
  <2> QED BY <1>1, <1>3, <1>4, <2>1, UnwindGated, GotoGated
<1>10. CASE CommitReconciled
  <2>1. \/ Raise("Review", open, FALSE)
        \/ Goto("git", NoMem)
        \/ Goto("complete", [NoMem EXCEPT !.commit = HeadOf(wt)])
    BY <1>10 DEF CommitReconciled
  <2>2. running = {}
    BY <1>2, <1>10 DEF CommitReconciled, At
  <2> QED BY <1>1, <1>3, <1>4, <2>1, <2>2, RaiseGated, GotoGated
<1> QED BY <1>5, <1>6, <1>7, <1>8, <1>9, <1>10

\* Where a recorded checkpoint or a resume sends the engine.
LEMMA DispatchedTo ==
  ASSUME NEW c
  PROVE  /\ Dispatch(c) \in {"reconcile", "prepare", "manifest", "implement", "check", "idle"}
         /\ Dispatch(c) = "reconcile" <=> c.intent # NoIntent
BY DEF Dispatch

LEMMA DispatchGated ==
  ASSUME GateInv, ~ended, NEW d, NEW steps, NEW gates, steps = {}, gates = {},
         Write(d, steps, gates, Dispatch(d), NoMem)
  PROVE  GateInv'
<1>1. Dispatch(d) \notin {"work", "report", "lenses", "verdict", "record"} \cup ReviewPCs
  BY DispatchedTo DEF ReviewPCs
<1> QED BY <1>1, WriteGated

LEMMA CompletionGated ==
  ASSUME Types, GateInv, PhaseCompletes \/ ExecutionCompletes
  PROVE  GateInv'
<1>1. ~ended /\ open = {} /\ pc \notin {"idle", "down"} /\ running \ cp.flight.steps = {}
  BY NotEnded DEF PhaseCompletes, ExecutionCompletes, At, GateInv, Owned, Ungated, Gateless
<1>2. CASE PhaseCompletes
  <2> DEFINE d == PhaseAccepted(cp)
  <2>1. Unwind \/ Write(d, running \ cp.flight.steps, open, Dispatch(d), NoMem)
    BY <1>2 DEF PhaseCompletes
  <2> QED BY <1>1, <2>1, UnwindGated, DispatchGated
<1>3. CASE ExecutionCompletes
  <2> DEFINE d == [cp EXCEPT !.stage = "Completed", !.ws = Now, !.intent = NoIntent,
                             !.flight = NoFlight, !.partial = FALSE]
  <2>1. \/ Unwind
        \/ cp' = d /\ running' = {} /\ pc' = "idle" /\ open' = open
    BY <1>3 DEF ExecutionCompletes
  <2>2. d.stage = "Completed"
    BY DEF Types, IsCheckpoint, CheckpointFields
  <2>3. ~Unwind => cp'.stage = "Completed" /\ running' = {} /\ pc' = "idle" /\ open' = {}
    BY <1>1, <2>1, <2>2
  <2> QED BY <1>1, <2>3, UnwindGated
        DEF GateInv, Owned, Rests, Ungated, Turns, EndRests, Quiet, Gateless, ReviewPCs
<1> QED BY <1>2, <1>3

LEMMA StopsGated ==
  ASSUME Types, GateInv, Caught \/ AbortThrows \/ Crash \/ Shutdown \/ Exit \/ Fault
  PROVE  GateInv'
<1>1. "idle" \notin {"work", "report", "lenses", "verdict", "record"} \cup ReviewPCs
      /\ "idle" \notin Quiet \cup Gateless
  BY DEF ReviewPCs, Quiet, Gateless
<1>2. running \subseteq cp.flight.steps
  BY DEF GateInv, Owned
<1>3. CASE Caught
  <2>1. ~ended /\ pc \notin {"idle", "down"}
    BY <1>3, NotEnded DEF Caught, At
  <2>2. Goto("idle", NoMem) \/ Raise(cp.stage, cp.flight.steps, FALSE)
    BY <1>3 DEF Caught
  <2> QED BY <1>1, <1>2, <2>1, <2>2, GotoGated, RaiseGated
<1>4. CASE AbortThrows
  BY <1>4, UnwindGated DEF AbortThrows, Busy
<1>5. CASE Crash
  BY <1>5 DEF Crash, log, GateInv, Owned, Rests, Ungated, Turns, EndRests, Quiet, Gateless, ReviewPCs
<1>6. CASE Shutdown
  <2>1. UNCHANGED <<cp, log, pc, mem>>
    BY <1>6 DEF Shutdown
  <2> QED BY <2>1 DEF log, GateInv, Owned, Rests, Ungated, Turns, EndRests, Turn, Scout, Verifier
<1>7. CASE Exit
  BY <1>7 DEF Exit, log, GateInv, Owned, Rests, Ungated, Turns, EndRests, Quiet, Gateless, ReviewPCs
<1>8. CASE Fault
  BY <1>1, <1>8, UnwindGated, GotoGated DEF Fault, Busy
<1> QED BY <1>3, <1>4, <1>5, <1>6, <1>7, <1>8

LEMMA ReturnsGated ==
  ASSUME Types, GateInv, Resume \/ Restart
  PROVE  GateInv'
<1>1. CASE Resume
  <2> DEFINE d == ResumeCheckpoint(cp)
  <2>1. ~ended /\ running \ cp.flight.steps = {} /\ open \ cp.flight.steps = {}
    BY <1>1 DEF Resume, Resumable, GateInv, Owned, EndRests
  <2>2. Write(d, running \ cp.flight.steps, open \ cp.flight.steps, Dispatch(d), NoMem)
    BY <1>1 DEF Resume
  <2> QED BY <2>1, <2>2, DispatchGated
<1>2. CASE Restart
  <2> DEFINE gated == IF ended THEN open ELSE open \cup running
             op == IF cp.flight = NoFlight THEN cp.stage ELSE cp.flight.op
  <2>1. CASE ended \/ (cp.stage = "Escalated" /\ cp.flight # NoFlight)
    <3>1. pc' = "idle" /\ open' = gated /\ UNCHANGED <<cp, running, ended, mem>>
      BY <1>2, <2>1 DEF Restart
    <3> QED BY <3>1
          DEF GateInv, Owned, Rests, Ungated, Turns, EndRests, Quiet, Gateless, ReviewPCs
  <2>2. CASE ~(ended \/ (cp.stage = "Escalated" /\ cp.flight # NoFlight))
    <3>1. RaiseOn(cp, op, cp.flight.steps, gated, FALSE)
      BY <1>2, <2>2 DEF Restart
    <3>2. IsCheckpoint(cp) /\ running \subseteq cp.flight.steps
      BY DEF Types, GateInv, Owned
    <3> QED BY <2>2, <3>1, <3>2, RaiseOnGated
  <2> QED BY <2>1, <2>2
<1> QED BY <1>1, <1>2

LEMMA GatesNext == Types /\ GateInv /\ [ExecutionNext]_vars => GateInv'
<1> SUFFICES ASSUME Types, GateInv, [ExecutionNext]_vars PROVE GateInv'
  OBVIOUS
<1>1. CASE Engine
  BY <1>1, StartsGated, PreparationGated, AgentGated, ReportsGated, ChecksGated,
     ReviewStepsGated, ReviewGated, CommitStepsGated, CompletionGated, StopsGated DEF Engine
<1>2. CASE Process
  BY <1>2, StopsGated, ReturnsGated DEF Process
<1>3. CASE World \/ UNCHANGED vars
  <2>1. UNCHANGED <<cp, log, pc, mem>>
    BY <1>3 DEF World, Touch, ForeignCommit, OtherBranch, Engines, vars
  <2> QED BY <2>1 DEF log, GateInv, Owned, Rests, Ungated, Turns, EndRests, Turn, Scout, Verifier
<1> QED BY <1>1, <1>2, <1>3 DEF ExecutionNext

\* While a writer may edit the worktree nothing else of the run is running and no gate
\* is open, and every step still running when the run is gated belongs to its gate,
\* through failed steps, refused reports, crashes during any of them and restarts.
THEOREM GatesOwnTheirSteps == Spec => []GateOwnsRunningSteps
<1>1. GateInv => GateOwnsRunningSteps
  BY DEF GateInv, Owned, Rests, Ungated, EndRests, Gateless, GateOwnsRunningSteps, WriterAlone
<1> QED BY <1>1, TypesInitially, TypesNext, GatesInitially, GatesNext, PTL DEF Spec

(***************************************************************************)
(* The commits.                                                            *)
(***************************************************************************)
IntentIsHandled ==
  /\ cp.intent # NoIntent =>
       pc \in {"git", "committed", "complete", "reconcile", "catch", "idle", "down"}
  /\ pc \in {"git", "committed", "reconcile"} => cp.intent # NoIntent
Passed(v) == <<Unit(cp), v>> \in green
Reviewed(v) == Vetted(Unit(cp), v)
ReviewedIn(i) == i \in 1..HeadOf(wt) /\ Reviewed(wt.commits[i].tree)

\* What the engine's locals name.
SeenIsPassed == pc \in ReviewPCs \cup {"scope", "verdict", "record", "commit"} => Passed(mem.seen.tree)
SeenIsReviewed ==
  /\ pc = "commit" \/ pc = "intent" \/ (pc = "record" /\ mem.res = "clean") => Reviewed(mem.seen.tree)
  /\ pc = "satisfied" =>
       ReviewedIn(mem.seen.head) /\ wt.commits[mem.seen.head].tree = mem.seen.tree
\* The commit that is taken: for an intent, the child of its parent, made for its unit.
CommitIsReviewed ==
  pc = "complete" =>
    /\ ReviewedIn(mem.commit)
    /\ cp.intent # NoIntent =>
         mem.commit = cp.intent.parent + 1 /\ wt.commits[mem.commit].unit = Unit(cp)
\* What the checkpoint names.
ChecksArePassed == cp.checks # NoSnapshot => Passed(cp.checks.tree)
IntentIsReviewed ==
  cp.intent # NoIntent =>
    /\ cp.intent.unit = Unit(cp) /\ cp.intent.parent = cp.intent.snapshot.head
    /\ Reviewed(cp.intent.snapshot.tree)
    /\ \A i \in 1..HeadOf(wt) :
         wt.commits[i].by = "payo" /\ wt.commits[i].unit = Unit(cp) => i > cp.intent.parent
UnitsCommitted == \A i \in 1..HeadOf(wt) : wt.commits[i].by = "payo" => wt.commits[i].unit \in 1..Final
ReceiptsName == \A p \in 1..Len(cp.receipts) : cp.receipts[p] \in 1..HeadOf(wt)
\* A commit the hooks may have changed is the child of the durable intent's parent.
OwnAreVetted ==
  \A i \in 1..HeadOf(wt) : wt.commits[i].by = "payo" =>
    \/ Vetted(wt.commits[i].unit, wt.commits[i].tree)
    \/ cp.intent # NoIntent /\ i = cp.intent.parent + 1
RecordsAreVetted ==
  /\ \A p \in 1..Len(cp.receipts) : Vetted(p, wt.commits[cp.receipts[p]].tree)
  /\ ended => \E i \in 1..HeadOf(wt) : Vetted(Final, wt.commits[i].tree)

LocalsInv == IntentIsHandled /\ SeenIsPassed /\ SeenIsReviewed /\ CommitIsReviewed
DurableInv ==
  /\ ChecksArePassed /\ IntentIsReviewed /\ UnitsCommitted /\ ReceiptsName
  /\ OwnAreVetted /\ RecordsAreVetted /\ CommitsAreCovered
CommitInv == LocalsInv /\ DurableInv

-----------------------------------------------------------------------------
(* Most steps leave the unit, its intent and the branch's commits alone.   *)

SameUnit(d) ==
  /\ d.scope = cp.scope /\ d.phase = cp.phase /\ d.receipts = cp.receipts
  /\ d.intent = cp.intent /\ d.checks \in {cp.checks, NoSnapshot}
Kept == SameUnit(cp') /\ ended' = ended
\* The same, but for the evidence of its checks.
SameScope ==
  /\ cp'.scope = cp.scope /\ cp'.phase = cp.phase /\ cp'.receipts = cp.receipts
  /\ cp'.intent = cp.intent /\ ended' = ended

LEMMA UnwindKeeps ==
  ASSUME Unwind
  PROVE  Kept /\ pc' = "catch"
BY DEF Unwind, Kept, SameUnit, log

LEMMA GotoKeeps ==
  ASSUME NEW where, NEW m, Goto(where, m)
  PROVE  Kept /\ pc' = where /\ mem' = m /\ cp' = cp
BY DEF Goto, Kept, SameUnit, log

LEMMA WriteKeeps ==
  ASSUME NEW d, NEW steps, NEW gates, NEW where, NEW m, Write(d, steps, gates, where, m), SameUnit(d)
  PROVE  Kept /\ (pc' = "catch" \/ (pc' = where /\ mem' = m /\ cp' = d))
BY UnwindKeeps DEF Write, Kept

LEMMA RaiseOnKeeps ==
  ASSUME Types, NEW c, IsCheckpoint(c), SameUnit(c), NEW op, NEW steps, NEW gates, NEW pinned,
         RaiseOn(c, op, steps, gates, pinned)
  PROVE  Kept /\ pc' \in {"catch", "idle"}
<1> DEFINE d == [c EXCEPT !.stage = "Escalated", !.flight = Flight(op, steps \cup {NewId}),
                          !.pinned = pinned, !.partial = FALSE]
<1>1. Write(d, running, gates \cup {NewId}, "idle", NoMem)
  BY DEF RaiseOn
<1>2. SameUnit(d)
  BY DEF SameUnit, IsCheckpoint, CheckpointFields
<1> QED BY <1>1, <1>2, WriteKeeps

LEMMA RaiseKeeps ==
  ASSUME Types, NEW op, NEW steps, NEW pinned, Raise(op, steps, pinned)
  PROVE  Kept /\ pc' \in {"catch", "idle"}
BY RaiseOnKeeps DEF Raise, Types, SameUnit

Stops == {"catch", "idle", "down"}
\* Where the engine vouches for a content or a commit.
Vouching ==
  ReviewPCs \cup {"scope", "verdict", "record", "commit", "intent", "satisfied", "git",
                  "committed", "complete", "reconcile"}
Routine ==
  /\ Kept /\ UNCHANGED history /\ wt'.commits = wt.commits
  /\ pc' \notin Vouching /\ (pc' \in Stops \/ cp.intent = NoIntent)

LEMMA StartsRoutine ==
  ASSUME Types, IntentIsHandled,
         PrepareStarts \/ ManifestStarts \/ ImplementStarts \/ RepairStarts \/ CheckStarts
  PROVE  Routine
<1>1. CASE PrepareStarts
  BY <1>1, UnwindKeeps, GotoKeeps, RaiseKeeps
     DEF PrepareStarts, At, Write, Types, IsCheckpoint, CheckpointFields, IntentIsHandled,
         Routine, Kept, SameUnit, Vouching, ReviewPCs, Stops, Env
<1>2. CASE ManifestStarts
  BY <1>2, UnwindKeeps, GotoKeeps, RaiseKeeps
     DEF ManifestStarts, At, Write, Types, IsCheckpoint, CheckpointFields, IntentIsHandled,
         Routine, Kept, SameUnit, Vouching, ReviewPCs, Stops, Env
<1>3. CASE ImplementStarts
  BY <1>3, UnwindKeeps, GotoKeeps, RaiseKeeps
     DEF ImplementStarts, At, Write, Types, IsCheckpoint, CheckpointFields, IntentIsHandled,
         Routine, Kept, SameUnit, Vouching, ReviewPCs, Stops, Env
<1>4. CASE RepairStarts
  BY <1>4, UnwindKeeps, GotoKeeps, RaiseKeeps
     DEF RepairStarts, At, Write, Types, IsCheckpoint, CheckpointFields, IntentIsHandled,
         Routine, Kept, SameUnit, Vouching, ReviewPCs, Stops, Env
<1>5. CASE CheckStarts
  BY <1>5, UnwindKeeps, GotoKeeps, RaiseKeeps
     DEF CheckStarts, At, Write, Types, IsCheckpoint, CheckpointFields, IntentIsHandled,
         Routine, Kept, SameUnit, Vouching, ReviewPCs, Stops, Env
<1> QED BY <1>1, <1>2, <1>3, <1>4, <1>5

LEMMA PreparationRoutine ==
  ASSUME Types, IntentIsHandled,
         PrepareWorktree \/ PrepareEnds
  PROVE  Routine
<1>1. CASE PrepareWorktree
  <2>1. Kept /\ pc' \in {"catch", "idle", "prepared"}
    BY <1>1, GotoKeeps, RaiseKeeps DEF PrepareWorktree
  <2>2. wt'.commits = wt.commits
    BY <1>1 DEF PrepareWorktree, Types, IsWorktree
  <2> QED BY <1>1, <2>1, <2>2
        DEF PrepareWorktree, At, IntentIsHandled, Routine, Vouching, ReviewPCs, Stops, Env
<1>2. CASE PrepareEnds
  BY <1>2, UnwindKeeps, GotoKeeps, RaiseKeeps
     DEF PrepareEnds, At, Write, Types, IsCheckpoint, CheckpointFields, IntentIsHandled,
         Routine, Kept, SameUnit, Vouching, ReviewPCs, Stops, Env
<1> QED BY <1>1, <1>2

LEMMA ReportsRoutine ==
  ASSUME Types, IntentIsHandled,
         ManifestEnds \/ ImplementEnds \/ ImplementationCaptured \/ RepairEnds \/ Unrepaired
  PROVE  Routine
<1>1. CASE ManifestEnds
  BY <1>1, UnwindKeeps, GotoKeeps, RaiseKeeps
     DEF ManifestEnds, Reporting, At, Write, Types, IsCheckpoint, CheckpointFields, IntentIsHandled,
         Routine, Kept, SameUnit, Vouching, ReviewPCs, Stops, Env
<1>2. CASE ImplementEnds
  <2>1. Kept /\ pc' \in {"catch", "idle", "capture"}
    BY <1>2, GotoKeeps, RaiseKeeps DEF ImplementEnds
  <2> QED BY <1>2, <2>1
        DEF ImplementEnds, Reporting, At, IntentIsHandled, Routine, Vouching, ReviewPCs, Stops, Env
<1>3. CASE ImplementationCaptured
  BY <1>3, UnwindKeeps, GotoKeeps, RaiseKeeps
     DEF ImplementationCaptured, At, Write, Types, IsCheckpoint, CheckpointFields, IntentIsHandled,
         Routine, Kept, SameUnit, Vouching, ReviewPCs, Stops, Env
<1>4. CASE RepairEnds
  BY <1>4, UnwindKeeps, GotoKeeps, RaiseKeeps
     DEF RepairEnds, Reporting, At, Write, Types, IsCheckpoint, CheckpointFields, IntentIsHandled,
         Routine, Kept, SameUnit, Vouching, ReviewPCs, Stops, Env
<1>5. CASE Unrepaired
  BY <1>5, UnwindKeeps, GotoKeeps, RaiseKeeps
     DEF Unrepaired, At, Write, Types, IsCheckpoint, CheckpointFields, IntentIsHandled,
         Routine, Kept, SameUnit, Vouching, ReviewPCs, Stops, Env
<1> QED BY <1>1, <1>2, <1>3, <1>4, <1>5

LEMMA ChecksRoutine ==
  ASSUME Types, IntentIsHandled,
         ChecksThrow \/ ChecksUnrun \/ ChecksEnd \/ ChecksExhausted
  PROVE  Routine
<1>1. CASE ChecksThrow
  BY <1>1, UnwindKeeps, GotoKeeps, RaiseKeeps
     DEF ChecksThrow, At, Write, Types, IsCheckpoint, CheckpointFields, IntentIsHandled,
         Routine, Kept, SameUnit, Vouching, ReviewPCs, Stops, Env
<1>2. CASE ChecksUnrun
  BY <1>2, UnwindKeeps, GotoKeeps, RaiseKeeps
     DEF ChecksUnrun, At, Write, Types, IsCheckpoint, CheckpointFields, IntentIsHandled,
         Routine, Kept, SameUnit, Vouching, ReviewPCs, Stops, Env
<1>3. CASE ChecksEnd
  <2> DEFINE d == [cp EXCEPT !.stage = "Check", !.ws = Now, !.flight = NoFlight]
             where == IF cp.round = MaxCycles THEN "exhausted" ELSE "check"
  <2>1. \/ Write(d, running \ cp.flight.steps, open, where, NoMem)
        \/ Goto("evidence", mem)
        \/ Raise("Check", cp.flight.steps, FALSE)
    BY <1>3 DEF ChecksEnd
  <2>2. SameUnit(d) /\ where \in {"exhausted", "check"}
    BY DEF SameUnit, Types, IsCheckpoint, CheckpointFields
  <2> HIDE DEF d, where
  <2>3. Kept /\ pc' \in {"catch", "idle", "exhausted", "check", "evidence"}
    BY <2>1, <2>2, WriteKeeps, GotoKeeps, RaiseKeeps
  <2> QED BY <1>3, <2>3
        DEF ChecksEnd, At, IntentIsHandled, Routine, Vouching, ReviewPCs, Stops, Env
<1>4. CASE ChecksExhausted
  BY <1>4, UnwindKeeps, GotoKeeps, RaiseKeeps
     DEF ChecksExhausted, At, Write, Types, IsCheckpoint, CheckpointFields, IntentIsHandled,
         Routine, Kept, SameUnit, Vouching, ReviewPCs, Stops, Env
<1> QED BY <1>1, <1>2, <1>3, <1>4


LEMMA AgentRoutine ==
  ASSUME Types, IntentIsHandled, AgentStarts \/ AgentEnds \/ ChecksRun
  PROVE  Routine
<1>1. CASE AgentStarts
  <2>1. wt'.commits = wt.commits
    <3>1. PICK v \in WriterVersions(wt) : wt' = Edited(wt, v)
      BY <1>1 DEF AgentStarts, WriterVersions
    <3> QED BY <3>1, EditTyped DEF WriterVersions, Types
  <2> QED BY <1>1, <2>1
        DEF AgentStarts, At, Env, IntentIsHandled, Routine, Kept, SameUnit, Vouching, ReviewPCs
<1>2. CASE AgentEnds
  BY <1>2 DEF AgentEnds, At, Env, IntentIsHandled, Routine, Kept, SameUnit, Vouching, ReviewPCs
<1>3. CASE ChecksRun
  <2>1. wt'.commits = wt.commits
    <3>1. PICK v \in {wt.tree} \cup NewVersions(wt) : wt' = Edited(wt, v)
      BY <1>3 DEF ChecksRun
    <3> QED BY <3>1, EditTyped DEF Types
  <2> QED BY <1>3, <2>1
        DEF ChecksRun, At, Env, log, IntentIsHandled, Routine, Kept, SameUnit, Vouching, ReviewPCs
<1> QED BY <1>1, <1>2, <1>3

LEMMA StopsRoutine ==
  ASSUME Types, IntentIsHandled,
         ReviewEscalates \/ Caught \/ AbortThrows \/ Crash \/ Exit \/ Fault \/ Restart
  PROVE  Routine
<1> USE DEF Routine, Vouching, ReviewPCs, Stops, Env
<1>1. CASE ReviewEscalates
  <2> DEFINE d == [cp EXCEPT !.checks = NoSnapshot, !.review = FALSE]
  <2>1. IsCheckpoint(d) /\ IsCheckpoint(cp)
    BY NothingTyped DEF Types, IsCheckpoint, CheckpointFields
  <2>2. RaiseOn(IF mem.res = "mutated" THEN d ELSE cp, "Review", open, open, mem.res = "plan")
    BY <1>1 DEF ReviewEscalates
  <2>3. SameUnit(d) /\ SameUnit(cp)
    BY DEF SameUnit, Types, IsCheckpoint, CheckpointFields
  <2>4. Kept /\ pc' \in {"catch", "idle"}
    BY <2>1, <2>2, <2>3, RaiseOnKeeps
  <2> QED BY <1>1, <2>4 DEF ReviewEscalates
<1>2. CASE Caught
  <2>1. Kept /\ pc' \in {"catch", "idle"}
    BY <1>2, GotoKeeps, RaiseKeeps DEF Caught
  <2> QED BY <1>2, <2>1 DEF Caught
<1>3. CASE AbortThrows
  BY <1>3, UnwindKeeps DEF AbortThrows
<1>4. CASE Crash
  BY <1>4 DEF Crash, Kept, SameUnit, log
<1>5. CASE Exit
  BY <1>5 DEF Exit, Kept, SameUnit, log
<1>6. CASE Fault
  BY <1>6, GotoKeeps, UnwindKeeps DEF Fault
<1>7. CASE Restart
  <2> DEFINE gated == IF ended THEN open ELSE open \cup running
             op == IF cp.flight = NoFlight THEN cp.stage ELSE cp.flight.op
  <2>1. CASE RaiseOn(cp, op, cp.flight.steps, gated, FALSE)
    <3>1. IsCheckpoint(cp) /\ SameUnit(cp)
      BY DEF Types, SameUnit
    <3>2. Kept /\ pc' \in {"catch", "idle"}
      BY <2>1, <3>1, RaiseOnKeeps
    <3> QED BY <1>7, <3>2 DEF Restart
  <2>2. CASE pc' = "idle" /\ UNCHANGED <<cp, ended>>
    BY <1>7, <2>2 DEF Restart, Kept, SameUnit
  <2> QED BY <1>7, <2>1, <2>2 DEF Restart
<1> QED BY <1>1, <1>2, <1>3, <1>4, <1>5, <1>6, <1>7

-----------------------------------------------------------------------------
(* What is kept while the unit stays and the branch grows by others' commits.  *)

Grows ==
  /\ HeadOf(wt) <= HeadOf(wt)'
  /\ \A i \in 1..HeadOf(wt) : wt'.commits[i] = wt.commits[i]
  /\ \A i \in 1..HeadOf(wt)' : wt'.commits[i].by = "payo" => i <= HeadOf(wt)
Remembers == green \subseteq green' /\ accepted \subseteq accepted'

LEMMA SameCommitsGrow ==
  ASSUME Types, wt'.commits = wt.commits
  PROVE  Grows
<1>1. HeadOf(wt) \in Nat /\ HeadOf(wt)' = HeadOf(wt)
  BY NowTyped DEF HeadOf
<1> QED BY <1>1 DEF Grows

LEMMA UnitKept ==
  ASSUME SameScope
  PROVE  Unit(cp)' = Unit(cp)
BY DEF SameScope, Unit

LEMMA KeptScope ==
  ASSUME Kept
  PROVE  SameScope
BY DEF Kept, SameUnit, SameScope

LEMMA LocalsKept ==
  ASSUME Types, Types', LocalsInv, SameScope, Grows, Remembers, UNCHANGED <<pc, mem>>
  PROVE  LocalsInv'
<1>1. IntentIsHandled'
  BY DEF LocalsInv, IntentIsHandled, SameScope
<1>2. SeenIsPassed'
  BY UnitKept DEF LocalsInv, SeenIsPassed, Passed, Remembers
<1>3. \A i \in 1..HeadOf(wt) :
        i \in 1..HeadOf(wt)' /\ wt'.commits[i] = wt.commits[i]
  <2>1. HeadOf(wt) \in Nat /\ HeadOf(wt)' \in Nat
    BY SnapshotTyped DEF Types
  <2> QED BY <2>1 DEF Grows
<1>4. SeenIsReviewed'
  BY <1>3, UnitKept DEF LocalsInv, SeenIsReviewed, ReviewedIn, Reviewed, Vetted, Remembers
<1>5. CommitIsReviewed'
  <2>1. Unit(cp)' = Unit(cp) /\ cp'.intent = cp.intent
    BY UnitKept DEF SameScope
  <2> QED BY <1>3, <2>1 DEF LocalsInv, CommitIsReviewed, ReviewedIn, Reviewed, Vetted, Remembers
<1> QED BY <1>1, <1>2, <1>4, <1>5 DEF LocalsInv

LEMMA LocalsRoutine ==
  ASSUME Routine
  PROVE  LocalsInv'
BY DEF Routine, LocalsInv, IntentIsHandled, SeenIsPassed, SeenIsReviewed, CommitIsReviewed,
       Vouching, Stops, Kept, SameUnit

LEMMA EvidenceKept ==
  ASSUME ChecksArePassed, Kept, Remembers
  PROVE  ChecksArePassed'
BY UnitKept, KeptScope DEF ChecksArePassed, Kept, SameUnit, Passed, Remembers

LEMMA DurableKept ==
  ASSUME Types, Types', DurableInv, SameScope, Grows, Remembers, ChecksArePassed'
  PROVE  DurableInv'
<1>1. HeadOf(wt) \in Nat /\ HeadOf(wt)' \in Nat /\ HeadOf(wt) <= HeadOf(wt)'
  BY NowTyped, SnapshotTyped DEF Grows, Types
<1>2. \A i \in 1..HeadOf(wt)' : wt'.commits[i].by = "payo" =>
        i \in 1..HeadOf(wt) /\ wt'.commits[i] = wt.commits[i]
  BY <1>1 DEF Grows
<1>3. \A i \in 1..HeadOf(wt) :
        i \in 1..HeadOf(wt)' /\ wt'.commits[i] = wt.commits[i]
  BY <1>1 DEF Grows
<1>4. cp'.receipts = cp.receipts /\ cp'.intent = cp.intent /\ ended' = ended
  BY DEF SameScope
<1>5. IntentIsReviewed'
  BY <1>2, <1>4, UnitKept DEF DurableInv, IntentIsReviewed, Reviewed, Vetted, Remembers
<1>6. UnitsCommitted'
  BY <1>2 DEF DurableInv, UnitsCommitted
<1>7. ReceiptsName'
  BY <1>3, <1>4 DEF DurableInv, ReceiptsName
<1>8. OwnAreVetted' /\ RecordsAreVetted'
  <2>1. \A u, v : <<u, v>> \in green \cap accepted => <<u, v>> \in green' \cap accepted'
    BY DEF Remembers
  <2>2. \A i \in 1..HeadOf(wt)' : wt'.commits[i].by = "payo" =>
          \/ <<wt'.commits[i].unit, wt'.commits[i].tree>> \in green' \cap accepted'
          \/ cp'.intent # NoIntent /\ i = cp'.intent.parent + 1
    BY <1>2, <1>4, <2>1 DEF DurableInv, OwnAreVetted, Vetted
  <2>3. \A p \in 1..Len(cp'.receipts) :
          <<p, wt'.commits[cp'.receipts[p]].tree>> \in green' \cap accepted'
    BY <1>3, <1>4, <2>1 DEF DurableInv, RecordsAreVetted, ReceiptsName, Vetted
  <2>4. ended' => \E i \in 1..HeadOf(wt)' :
                    <<Final, wt'.commits[i].tree>> \in green' \cap accepted'
    BY <1>3, <1>4, <2>1 DEF DurableInv, RecordsAreVetted, Vetted
  <2> QED BY <2>2, <2>3, <2>4 DEF OwnAreVetted, RecordsAreVetted, Vetted
<1>9. CommitsAreCovered'
  BY <1>2, <1>4 DEF DurableInv, CommitsAreCovered
<1> QED BY <1>5, <1>6, <1>7, <1>8, <1>9 DEF DurableInv

LEMMA RoutineCommits ==
  ASSUME Types, Types', CommitInv, Routine
  PROVE  CommitInv'
<1>1. Kept /\ Grows /\ Remembers
  BY SameCommitsGrow DEF Routine, Remembers, history
<1>2. ChecksArePassed'
  BY <1>1, EvidenceKept DEF CommitInv, DurableInv
<1> QED BY <1>1, <1>2, KeptScope, DurableKept, LocalsRoutine DEF CommitInv

-----------------------------------------------------------------------------
(* The steps that vouch for a content: the checks' evidence, the review.   *)

LEMMA EvidenceCommits ==
  ASSUME Types, Types', CommitInv, ChecksRecorded
  PROVE  CommitInv'
<1> DEFINE ok == mem.res = "passed"
           d == [cp EXCEPT !.stage = IF ok THEN "Review" ELSE "Repair", !.ws = mem.seen,
                           !.checks = IF ok THEN mem.seen ELSE NoSnapshot,
                           !.flight = NoFlight]
           where == CASE ok -> "review" [] ~ok /\ cp.round = MaxCycles -> "exhausted"
                      [] OTHER -> "repair"
<1>1. cp.intent = NoIntent /\ wt' = wt /\ accepted' = accepted /\ pc \notin Stops
  BY DEF ChecksRecorded, At, CommitInv, LocalsInv, IntentIsHandled, Stops
<1>2. CASE Raise("Check", cp.flight.steps, FALSE) /\ UNCHANGED green
  <2>1. Kept /\ pc' \in {"catch", "idle"}
    BY <1>2, RaiseKeeps
  <2>2. Routine
    BY <1>1, <1>2, <2>1 DEF Routine, Vouching, ReviewPCs, Stops, history
  <2> QED BY <2>2, RoutineCommits
<1>3. CASE /\ Now = mem.seen /\ Write(d, running \ cp.flight.steps, open, where, NoMem)
           /\ green' = IF ok THEN green \cup {<<Unit(cp), wt.tree>>} ELSE green
  <2>1. \/ pc' = "catch" /\ UNCHANGED <<cp, ended>>
        \/ pc' = where /\ cp' = d /\ ended' = ended
    BY <1>3 DEF Write, Unwind, log
  <2>2. SameScope
    BY <2>1 DEF SameScope, Types, IsCheckpoint, CheckpointFields
  <2>3. Grows /\ Remembers
    BY <1>1, <1>3, SameCommitsGrow DEF Remembers
  <2>4. ChecksArePassed'
    <3>1. CASE UNCHANGED cp
      BY <3>1, <2>2, <2>3, UnitKept
         DEF CommitInv, DurableInv, ChecksArePassed, Passed, Remembers
    <3>2. CASE cp' = d
      <4>1. cp'.checks = IF ok THEN mem.seen ELSE NoSnapshot
        BY <3>2 DEF Types, IsCheckpoint, CheckpointFields
      <4>2. mem.seen.tree = wt.tree
        BY <1>3, NowTyped
      <4> QED BY <1>3, <4>1, <4>2, <2>2, UnitKept DEF ChecksArePassed, Passed
    <3> QED BY <2>1, <3>1, <3>2
  <2>5. pc' \notin Vouching /\ cp'.intent = NoIntent
    BY <1>1, <2>1, <2>2 DEF SameScope, Vouching, ReviewPCs
  <2>6. LocalsInv'
    BY <2>5 DEF LocalsInv, IntentIsHandled, SeenIsPassed, SeenIsReviewed, CommitIsReviewed, Vouching
  <2> QED BY <2>2, <2>3, <2>4, <2>6, DurableKept DEF CommitInv
<1> QED BY <1>2, <1>3 DEF ChecksRecorded

\* Where a review stands, the engine's locals name the content that passed.
LEMMA SeenLocals ==
  ASSUME Kept, cp.intent = NoIntent,
         pc' \in ReviewPCs \cup {"scope", "verdict", "record", "commit"},
         <<Unit(cp), mem'.seen.tree>> \in green',
         pc' = "commit" \/ (pc' = "record" /\ mem'.res = "clean") =>
           <<Unit(cp), mem'.seen.tree>> \in green' \cap accepted'
  PROVE  LocalsInv'
<1>1. Unit(cp)' = Unit(cp) /\ cp'.intent = NoIntent
  BY KeptScope, UnitKept DEF Kept, SameUnit
<1>2. IntentIsHandled' /\ CommitIsReviewed'
  BY <1>1 DEF IntentIsHandled, CommitIsReviewed, ReviewPCs
<1>3. SeenIsPassed' /\ SeenIsReviewed'
  BY <1>1 DEF SeenIsPassed, SeenIsReviewed, Passed, Reviewed, Vetted, ReviewPCs
<1> QED BY <1>2, <1>3 DEF LocalsInv

LEMMA ReviewCommits ==
  ASSUME Types, Types', CommitInv,
         ReviewStarts \/ ReviewScoped \/ ReviewDecided \/ ReviewRecorded
  PROVE  CommitInv'
<1>1. cp.intent = NoIntent /\ wt' = wt /\ Grows /\ Remembers
  <2>1. cp.intent = NoIntent
    BY DEF ReviewStarts, ReviewScoped, ReviewDecided, ReviewRecorded, At, CommitInv, LocalsInv,
           IntentIsHandled
  <2>2. wt' = wt /\ Remembers
    BY DEF ReviewStarts, ReviewScoped, ReviewDecided, ReviewRecorded, Env, history, Remembers
  <2> QED BY <2>1, <2>2, SameCommitsGrow
<1>2. Kept /\ LocalsInv' => CommitInv'
  BY <1>1, EvidenceKept, DurableKept, KeptScope DEF CommitInv, DurableInv
<1>3. Kept /\ pc' \in {"escalate", "catch", "repair"} /\ UNCHANGED history => CommitInv'
  BY <1>1, RoutineCommits DEF Routine, Vouching, ReviewPCs
<1>4. CASE ReviewStarts
  <2>1. CASE Unreviewed("stale") \/ Unwind
    <3>1. Kept /\ pc' \in {"escalate", "catch"}
      BY <2>1, GotoKeeps, UnwindKeeps DEF Unreviewed
    <3> QED BY <1>3, <1>4, <3>1 DEF ReviewStarts, Env
  <2>2. CASE StableChecks /\ Goto("scope", [NoMem EXCEPT !.seen = Now])
    <3>1. Kept /\ pc' = "scope" /\ mem' = [NoMem EXCEPT !.seen = Now]
      BY <2>2, GotoKeeps
    <3>2. mem'.seen = Now
      BY <3>1 DEF NoMem
    <3>3. Now # NoSnapshot
      BY NowTyped DEF NoSnapshot
    <3>4. <<Unit(cp), Now.tree>> \in green
      BY <2>2, <3>3 DEF StableChecks, CommitInv, DurableInv, ChecksArePassed, Passed
    <3>5. LocalsInv'
      BY <1>1, <3>1, <3>2, <3>4, SeenLocals DEF Remembers
    <3> QED BY <1>2, <3>1, <3>5
  <2> QED BY <1>4, <2>1, <2>2 DEF ReviewStarts
<1>5. pc \in {"scope", "verdict", "record"} => <<Unit(cp), mem.seen.tree>> \in green
  BY DEF CommitInv, LocalsInv, SeenIsPassed, Passed
<1>6. CASE ReviewScoped
  <2> DEFINE ids == NewIds(Lenses + 2)
             d == [cp EXCEPT !.stage = "Review", !.flight = Flight("Review", ids)]
             m == [mem EXCEPT !.todo = ids]
  <2>1. CASE Unreviewed("stale")
    <3>1. Kept /\ pc' = "escalate"
      BY <2>1, GotoKeeps DEF Unreviewed
    <3> QED BY <1>3, <1>6, <3>1 DEF ReviewScoped, Env
  <2>2. CASE Write(d, running, open, "scout", m)
    <3>1. SameUnit(d) /\ m.seen = mem.seen
      BY DEF SameUnit, Types, IsCheckpoint, CheckpointFields, IsMem
    <3>2. Kept /\ (pc' = "catch" \/ (pc' = "scout" /\ mem' = m))
      BY <2>2, <3>1, WriteKeeps
    <3>3. CASE pc' = "catch"
      BY <1>3, <1>6, <3>2, <3>3 DEF ReviewScoped, Env
    <3>4. CASE pc' = "scout" /\ mem' = m
      <4>1. <<Unit(cp), mem'.seen.tree>> \in green'
        BY <1>1, <1>5, <1>6, <3>1, <3>4 DEF ReviewScoped, At, Remembers
      <4>2. LocalsInv'
        BY <1>1, <3>2, <3>4, <4>1, SeenLocals DEF ReviewPCs
      <4> QED BY <1>2, <3>2, <4>2
    <3> QED BY <3>2, <3>3, <3>4
  <2> QED BY <1>6, <2>1, <2>2 DEF ReviewScoped
<1>7. CASE ReviewDecided
  <2> DEFINE m == [mem EXCEPT !.res = Decision, !.todo = {}]
  <2>1. Kept /\ pc' = "record" /\ mem' = m
    BY <1>7, GotoKeeps DEF ReviewDecided
  <2>2. mem'.seen = mem.seen /\ mem'.res = Decision
    BY <2>1 DEF Types, IsMem
  <2>3. <<Unit(cp), mem'.seen.tree>> \in green'
    BY <1>1, <1>5, <1>7, <2>2 DEF ReviewDecided, At, Remembers
  <2>4. mem'.res = "clean" => <<Unit(cp), mem'.seen.tree>> \in accepted'
    BY <1>7, <2>2 DEF ReviewDecided
  <2>5. LocalsInv'
    BY <1>1, <2>1, <2>3, <2>4, SeenLocals
  <2> QED BY <1>2, <2>1, <2>5
<1>8. CASE ReviewRecorded
  <2> DEFINE d == [cp EXCEPT !.stage = "Review", !.ws = Now, !.review = TRUE, !.flight = NoFlight]
             where == CASE mem.res = "clean" -> "commit" [] mem.res = "blockers" -> "repair"
                        [] OTHER -> "escalate"
             m == IF mem.res = "blockers" THEN NoMem ELSE mem
  <2>1. SameUnit(d)
    BY DEF SameUnit, Types, IsCheckpoint, CheckpointFields
  <2>2. Write(d, running, open, where, m)
    BY <1>8 DEF ReviewRecorded
  <2>3. Kept /\ (pc' = "catch" \/ (pc' = where /\ mem' = m))
    BY <2>1, <2>2, WriteKeeps
  <2>4. CASE pc' \in {"catch", "escalate", "repair"}
    BY <1>3, <1>8, <2>3, <2>4 DEF ReviewRecorded, Env
  <2>5. CASE pc' = "commit"
    <3>1. mem.res = "clean" /\ mem' = mem
      BY <2>3, <2>5
    <3>2. <<Unit(cp), mem'.seen.tree>> \in green' \cap accepted'
      BY <1>1, <1>8, <3>1
         DEF ReviewRecorded, At, Remembers, CommitInv, LocalsInv, SeenIsReviewed, Reviewed, Vetted
    <3>3. LocalsInv'
      BY <1>1, <2>3, <2>5, <3>2, SeenLocals
    <3> QED BY <1>2, <2>3, <3>3
  <2> QED BY <2>3, <2>4, <2>5
<1> QED BY <1>4, <1>6, <1>7, <1>8

LEMMA ReviewStepsCommits ==
  ASSUME Types, Types', CommitInv, NEW s \in cp.flight.steps,
         ReviewStepStarts(s) \/ ReviewStepFails(s) \/ ScopeMapRefused(s) \/ ReviewStepEnds(s)
  PROVE  CommitInv'
<1>1. pc \in ReviewPCs /\ UNCHANGED <<cp, ended, wt, history>>
  BY DEF ReviewStepStarts, ReviewStepFails, ScopeMapRefused, ReviewStepEnds, ReviewPCs, Env
<1>2. cp.intent = NoIntent
  BY <1>1 DEF CommitInv, LocalsInv, IntentIsHandled, ReviewPCs
<1>3. Kept /\ Grows /\ Remembers
  BY <1>1, SameCommitsGrow DEF Kept, SameUnit, Remembers, history
<1>4. CASE ScopeMapRefused(s)
  <2>1. Routine
    BY <1>1, <1>3, <1>4 DEF ScopeMapRefused, Routine, Vouching, ReviewPCs, Stops
  <2> QED BY <2>1, RoutineCommits
<1>5. CASE ~ScopeMapRefused(s)
  <2>1. mem'.seen = mem.seen /\ pc' \in ReviewPCs \cup {"verdict"}
    <3>1. CASE ReviewStepStarts(s)
      BY <1>1, <3>1 DEF ReviewStepStarts, Types, IsMem
    <3>2. CASE ReviewStepFails(s)
      BY <1>1, <3>2 DEF ReviewStepFails, Types, IsMem
    <3>3. CASE ReviewStepEnds(s)
      BY <1>1, <3>3 DEF ReviewStepEnds, ReviewPCs, Types, IsMem
    <3> QED BY <1>5, <3>1, <3>2, <3>3
  <2>2. <<Unit(cp), mem'.seen.tree>> \in green'
    BY <1>1, <1>3, <2>1 DEF CommitInv, LocalsInv, SeenIsPassed, Passed, Remembers
  <2>3. LocalsInv'
    BY <1>2, <1>3, <2>1, <2>2, SeenLocals DEF ReviewPCs
  <2> QED BY <1>3, <2>3, EvidenceKept, DurableKept, KeptScope DEF CommitInv, DurableInv
<1> QED BY <1>4, <1>5

-----------------------------------------------------------------------------
(* The steps that commit.                                                  *)

LEMMA StopCommits ==
  ASSUME Types, Types', CommitInv, Kept, pc' \in Stops, wt' = wt, UNCHANGED history
  PROVE  CommitInv'
<1>1. Routine
  BY DEF Routine, Stops, Vouching, ReviewPCs
<1> QED BY <1>1, RoutineCommits

\* A step that ends in a Goto, with the branch and the history as they are.
LEMMA GotoCommits ==
  ASSUME Types, Types', CommitInv, NEW where, NEW m, Goto(where, m), wt'.commits = wt.commits,
         UNCHANGED history, LocalsInv'
  PROVE  CommitInv'
<1>1. Kept /\ Grows /\ Remembers
  BY GotoKeeps, SameCommitsGrow DEF Remembers, history
<1> QED BY <1>1, EvidenceKept, DurableKept, KeptScope DEF CommitInv, DurableInv

\* The unit the engine works on is the one after those with a receipt.
LEMMA NextUnit ==
  ASSUME Types
  PROVE  Unit(cp) = Len(cp.receipts) + 1 /\ Unit(cp) \in 1..Final /\ Len(cp.receipts) \in Nat
<1>1. Len(cp.receipts) \in Nat /\ Phases \in Nat
  BY ExecutionAssumption, LenProperties DEF Types, IsCheckpoint
<1>2. CASE cp.scope = "phase"
  BY <1>1, <1>2 DEF Types, IsCheckpoint, Unit, Final
<1>3. CASE cp.scope = "final"
  BY <1>1, <1>3 DEF Types, IsCheckpoint, Unit, Final
<1> QED BY <1>1, <1>2, <1>3 DEF Types, IsCheckpoint

\* The commits the engine has made are of units with a receipt, or of this one.
LEMMA CommittedUnits ==
  ASSUME Types, CommitInv, ~ended, NEW i \in 1..HeadOf(wt), wt.commits[i].by = "payo"
  PROVE  /\ wt.commits[i].unit \in Nat
         /\ \/ wt.commits[i].unit <= Len(cp.receipts)
            \/ cp.intent # NoIntent /\ wt.commits[i].unit = Unit(cp)
<1>1. wt.commits[i].unit \in 1..Final
  BY DEF CommitInv, DurableInv, UnitsCommitted
<1>2. wt.commits[i].unit \in Nat \ {0}
  BY <1>1, ExecutionAssumption DEF Final
<1>3. wt.commits[i].unit <= Len(cp.receipts) \/ cp.intent.unit = wt.commits[i].unit
  BY DEF CommitInv, DurableInv, CommitsAreCovered
<1>4. cp.intent = NoIntent => cp.intent.unit = 0
  BY DEF NoIntent
<1>5. cp.intent # NoIntent => cp.intent.unit = Unit(cp)
  BY DEF CommitInv, DurableInv, IntentIsReviewed
<1> QED BY <1>2, <1>3, <1>4, <1>5

LEMMA PreparedCommits ==
  ASSUME Types, Types', CommitInv, CommitPrepared \/ AlreadySatisfied
  PROVE  CommitInv'
<1>1. cp.intent = NoIntent /\ UNCHANGED history
  BY DEF CommitPrepared, AlreadySatisfied, At, CommitInv, LocalsInv, IntentIsHandled, Env
<1>2. CASE Raise("Review", open, FALSE) /\ UNCHANGED wt
  <2>1. Kept /\ pc' \in Stops
    BY <1>2, RaiseKeeps DEF Stops
  <2> QED BY <1>1, <1>2, <2>1, StopCommits
<1>3. CASE CommitPrepared /\ AsReviewed
  <2> DEFINE where == IF Dirty(wt) THEN "intent" ELSE "satisfied"
             m == [NoMem EXCEPT !.seen = Snapshot(wt'), !.now = Now]
  <2>1. wt' = Staged(wt) /\ Goto(where, m)
    BY <1>3 DEF CommitPrepared
  <2>2. Kept /\ pc' = where /\ mem' = m /\ cp' = cp
    BY <2>1, GotoKeeps
  <2>3. mem'.seen = Snapshot(wt')
    BY <2>2 DEF NoMem
  <2>4. wt'.commits = wt.commits /\ wt'.tree = wt.tree
    BY <2>1 DEF Types, IsWorktree, Staged
  <2>5. mem'.seen.tree = wt.tree /\ mem'.seen.head = HeadOf(wt) /\ HeadOf(wt)' = HeadOf(wt)
    BY <2>3, <2>4, SnapshotTyped DEF Types, HeadOf
  <2>6. <<Unit(cp), wt.tree>> \in green \cap accepted
    <3>1. mem.seen.tree = wt.tree
      BY <1>3, NowTyped DEF AsReviewed
    <3> QED BY <1>3, <3>1 DEF CommitPrepared, At, CommitInv, LocalsInv, SeenIsReviewed, Reviewed, Vetted
  <2>7. Unit(cp)' = Unit(cp)
    BY <2>2, KeptScope, UnitKept
  <2>8. pc' = "satisfied" => wt.commits[HeadOf(wt)].tree = wt.tree
    BY <2>2 DEF Dirty, HeadTree
  <2>9. HeadOf(wt) \in 1..HeadOf(wt)
    BY NowTyped
  <2>10. IntentIsHandled' /\ SeenIsPassed' /\ CommitIsReviewed'
    BY <1>1, <2>2 DEF IntentIsHandled, SeenIsPassed, CommitIsReviewed, ReviewPCs
  <2>11. SeenIsReviewed'
    BY <1>1, <2>2, <2>4, <2>5, <2>6, <2>7, <2>8, <2>9
       DEF SeenIsReviewed, ReviewedIn, Reviewed, Vetted, history
  <2>12. LocalsInv'
    BY <2>10, <2>11 DEF LocalsInv
  <2> HIDE DEF where, m
  <2> QED BY <1>1, <2>1, <2>4, <2>12, GotoCommits
<1>4. CASE AlreadySatisfied /\ Now = mem.seen
  <2> DEFINE m == [NoMem EXCEPT !.commit = HeadOf(wt)]
  <2>1. Goto("complete", m) /\ wt' = wt
    BY <1>4 DEF AlreadySatisfied
  <2>2. Kept /\ pc' = "complete" /\ mem' = m /\ cp' = cp
    BY <2>1, GotoKeeps
  <2>3. mem'.commit = HeadOf(wt)
    BY <2>2 DEF NoMem
  <2>4. mem.seen.head = HeadOf(wt)
    BY <1>4, NowTyped
  <2>5. ReviewedIn(HeadOf(wt))
    BY <1>4, <2>4 DEF AlreadySatisfied, At, CommitInv, LocalsInv, SeenIsReviewed
  <2>6. LocalsInv'
    BY <1>1, <2>1, <2>2, <2>3, <2>5
       DEF LocalsInv, IntentIsHandled, SeenIsPassed, SeenIsReviewed, CommitIsReviewed, ReviewPCs,
           ReviewedIn, Reviewed, Vetted, Unit, history
  <2> HIDE DEF m
  <2> QED BY <1>1, <2>1, <2>6, GotoCommits
<1> QED BY <1>2, <1>3, <1>4 DEF CommitPrepared, AlreadySatisfied

LEMMA IntentCommits ==
  ASSUME Types, Types', GateInv, CommitInv, IntentRecorded
  PROVE  CommitInv'
<1> DEFINE i == [unit |-> Unit(cp), parent |-> mem.seen.head, snapshot |-> mem.seen]
           d == [cp EXCEPT !.stage = "Review", !.ws = mem.now, !.intent = i,
                           !.flight = Flight("Review", {NewId})]
<1>1. cp.intent = NoIntent /\ ~ended /\ wt' = wt /\ UNCHANGED history
  BY NotEnded DEF IntentRecorded, At, CommitInv, LocalsInv, IntentIsHandled, Env
<1>2. \/ Unwind
      \/ cp' = d /\ pc' = "git" /\ ended' = ended
  BY DEF IntentRecorded, Write
<1>3. CASE Unwind
  <2>1. Kept /\ pc' \in Stops
    BY <1>3, UnwindKeeps DEF Stops
  <2> QED BY <1>1, <2>1, StopCommits
<1>4. CASE cp' = d /\ pc' = "git" /\ ended' = ended
  <2>1. /\ cp'.scope = cp.scope /\ cp'.phase = cp.phase /\ cp'.receipts = cp.receipts
        /\ cp'.checks = cp.checks /\ cp'.intent = i
    BY <1>4 DEF Types, IsCheckpoint, CheckpointFields
  <2>2. Unit(cp)' = Unit(cp)
    BY <2>1 DEF Unit
  <2>3. i.unit = Unit(cp) /\ i.parent = i.snapshot.head /\ i.snapshot = mem.seen
    OBVIOUS
  <2>4. i # NoIntent
    BY <2>3, NextUnit DEF NoIntent
  <2>5. <<Unit(cp), mem.seen.tree>> \in green \cap accepted
    BY DEF IntentRecorded, At, CommitInv, LocalsInv, SeenIsReviewed, Reviewed, Vetted
  <2>6. \A j \in 1..HeadOf(wt) : wt.commits[j].by = "payo" =>
          wt.commits[j].unit <= Len(cp.receipts) /\ wt.commits[j].unit # Unit(cp)
    BY <1>1, CommittedUnits, NextUnit
  <2> HIDE DEF i
  <2>7. IntentIsReviewed'
    BY <1>1, <2>1, <2>2, <2>3, <2>5, <2>6 DEF IntentIsReviewed, Reviewed, Vetted, history
  <2>8. CommitsAreCovered'
    BY <1>1, <1>4, <2>1, <2>6 DEF CommitsAreCovered
  <2>9. ChecksArePassed' /\ UnitsCommitted' /\ ReceiptsName'
    BY <1>1, <2>1, <2>2
       DEF CommitInv, DurableInv, ChecksArePassed, Passed, UnitsCommitted, ReceiptsName, history
  <2>10. OwnAreVetted' /\ RecordsAreVetted'
    BY <1>1, <1>4, <2>1 DEF CommitInv, DurableInv, OwnAreVetted, RecordsAreVetted, Vetted, history
  <2>11. LocalsInv'
    BY <1>4, <2>1, <2>4
       DEF LocalsInv, IntentIsHandled, SeenIsPassed, SeenIsReviewed, CommitIsReviewed, ReviewPCs
  <2> QED BY <2>7, <2>8, <2>9, <2>10, <2>11 DEF CommitInv, DurableInv
<1> QED BY <1>2, <1>3, <1>4

\* What git makes of the intended content: one more commit on the branch.
LEMMA CommitMade ==
  ASSUME Types, GitCommit, ~Unwind
  PROVE  /\ Now = cp.intent.snapshot
         /\ Goto("committed", NoMem)
         /\ HeadOf(wt)' = HeadOf(wt) + 1 /\ HeadOf(wt) \in Nat
         /\ \A i \in 1..HeadOf(wt) : wt'.commits[i] = wt.commits[i]
         /\ wt'.commits[HeadOf(wt) + 1].by = "payo"
         /\ wt'.commits[HeadOf(wt) + 1].unit = cp.intent.unit
<1>1. Now = cp.intent.snapshot /\ Goto("committed", NoMem)
  BY DEF GitCommit
<1>2. PICK t \in {wt.tree} \cup NewVersions(wt), trailer \in BOOLEAN :
        \E v \in {t, wt.tree} \cup
                 NewVersions(WithCommit(Edited(wt, t), "payo", cp.intent.unit, trailer)) :
          wt' = Edited(WithCommit(Edited(wt, t), "payo", cp.intent.unit, trailer), v)
  BY DEF GitCommit
<1> DEFINE c == [by |-> "payo", unit |-> cp.intent.unit, tree |-> t, trailer |-> trailer]
<1>3. cp.intent.unit \in Nat
  BY ExecutionAssumption DEF Types, IsCheckpoint, Intents, Final
<1>4. wt'.commits = Append(wt.commits, c)
  BY <1>2, <1>3, HookTyped DEF Types
<1>5. wt.commits \in Seq(Commits(wt.latest))
  BY DEF Types, IsWorktree
<1>6. /\ HeadOf(wt) \in Nat /\ HeadOf(wt)' = HeadOf(wt) + 1
      /\ \A i \in 1..HeadOf(wt) : wt'.commits[i] = wt.commits[i]
      /\ wt'.commits[HeadOf(wt) + 1] = c
  <2>1. \A S, s, e : s \in Seq(S) => s \in Seq(S \cup {e})
    BY SeqMonotonic
  <2>2. wt.commits \in Seq(Commits(wt.latest) \cup {c}) /\ c \in Commits(wt.latest) \cup {c}
    BY <1>5, <2>1
  <2> QED BY <1>4, <2>2, AppendProperties, LenProperties DEF HeadOf
<1>7. c.by = "payo" /\ c.unit = cp.intent.unit
  OBVIOUS
<1> HIDE DEF c
<1> QED BY <1>1, <1>6, <1>7

LEMMA GitCommits ==
  ASSUME Types, Types', GateInv, CommitInv, GitCommit
  PROVE  CommitInv'
<1>1. cp.intent # NoIntent /\ ~ended /\ UNCHANGED history
  BY NotEnded DEF GitCommit, At, CommitInv, LocalsInv, IntentIsHandled, Env
<1>2. CASE Unwind
  <2>1. Kept /\ pc' = "catch"
    BY <1>2, UnwindKeeps
  <2>2. wt' = wt
    <3>1. CASE Now # cp.intent.snapshot
      BY <3>1 DEF GitCommit
    <3>2. CASE Now = cp.intent.snapshot
      BY <2>1, <3>2 DEF GitCommit, Goto
    <3> QED BY <3>1, <3>2
  <2> QED BY <1>1, <2>1, <2>2, StopCommits DEF Stops
<1>3. CASE ~Unwind
  <2> DEFINE h == HeadOf(wt)
             c == wt'.commits[h + 1]
  <2>1. /\ Now = cp.intent.snapshot /\ Goto("committed", NoMem)
        /\ HeadOf(wt)' = h + 1 /\ h \in Nat
        /\ \A i \in 1..h : wt'.commits[i] = wt.commits[i]
        /\ c.by = "payo" /\ c.unit = cp.intent.unit
    BY <1>3, CommitMade
  <2>2. cp' = cp /\ ended' = ended /\ pc' = "committed"
    BY <2>1, GotoKeeps DEF Kept
  <2>3. Unit(cp)' = Unit(cp)
    BY <2>2
  <2>4. c.unit = Unit(cp) /\ cp.intent.parent = h
    <3>1. cp.intent.snapshot.head = h
      BY <2>1, NowTyped
    <3> QED BY <1>1, <2>1, <3>1 DEF CommitInv, DurableInv, IntentIsReviewed
  <2>5. \A i \in 1..(h + 1) : i \in 1..h \/ i = h + 1
    BY <2>1
  <2> HIDE DEF h
  <2>6. \A i \in 1..HeadOf(wt)' : (i \in 1..h /\ wt'.commits[i] = wt.commits[i])
                                   \/ (i = h + 1 /\ wt'.commits[i] = c)
    BY <2>1, <2>5
  <2>7. h + 1 > h /\ h + 1 \in 1..HeadOf(wt)' /\ \A i \in 1..h : i \in 1..HeadOf(wt)'
    BY <2>1
  <2>8. ChecksArePassed'
    BY <1>1, <2>2, <2>3 DEF CommitInv, DurableInv, ChecksArePassed, Passed, history
  <2>9. IntentIsReviewed'
    <3>1. \A i \in 1..HeadOf(wt)' :
            wt'.commits[i].by = "payo" /\ wt'.commits[i].unit = Unit(cp) => i > cp.intent.parent
      BY <1>1, <2>4, <2>6, <2>7 DEF CommitInv, DurableInv, IntentIsReviewed, h
    <3> QED BY <1>1, <2>2, <2>3, <3>1
          DEF CommitInv, DurableInv, IntentIsReviewed, Reviewed, Vetted, history
  <2>10. UnitsCommitted'
    BY <2>4, <2>6, NextUnit DEF CommitInv, DurableInv, UnitsCommitted, h
  <2>11. ReceiptsName'
    BY <2>2, <2>7 DEF CommitInv, DurableInv, ReceiptsName, h
  <2>12. OwnAreVetted' /\ RecordsAreVetted'
    <3>1. \A i \in 1..HeadOf(wt)' : wt'.commits[i].by = "payo" =>
            \/ <<wt'.commits[i].unit, wt'.commits[i].tree>> \in green \cap accepted
            \/ i = cp.intent.parent + 1
      BY <2>4, <2>6 DEF CommitInv, DurableInv, OwnAreVetted, Vetted, h
    <3>2. \A p \in 1..Len(cp.receipts) :
            <<p, wt'.commits[cp.receipts[p]].tree>> \in green \cap accepted
      BY <2>1 DEF CommitInv, DurableInv, RecordsAreVetted, ReceiptsName, Vetted, h
    <3> QED BY <1>1, <2>2, <3>1, <3>2 DEF OwnAreVetted, RecordsAreVetted, Vetted, history
  <2>13. CommitsAreCovered'
    <3>1. \A i \in 1..HeadOf(wt)' : wt'.commits[i].by = "payo" =>
            \/ wt'.commits[i].unit <= Len(cp.receipts)
            \/ cp.intent.unit = wt'.commits[i].unit
            \/ ended /\ wt'.commits[i].unit = Final
      BY <2>1, <2>6 DEF CommitInv, DurableInv, CommitsAreCovered, h
    <3> QED BY <2>2, <3>1 DEF CommitsAreCovered
  <2>14. LocalsInv'
    BY <1>1, <2>2
       DEF LocalsInv, IntentIsHandled, SeenIsPassed, SeenIsReviewed, CommitIsReviewed, ReviewPCs
  <2> QED BY <2>8, <2>9, <2>10, <2>11, <2>12, <2>13, <2>14 DEF CommitInv, DurableInv
<1> QED BY <1>2, <1>3

LEMMA InspectedCommits ==
  ASSUME Types, Types', CommitInv, CommitInspected \/ CommitReconciled
  PROVE  CommitInv'
<1>1. wt' = wt /\ UNCHANGED history /\ cp.intent # NoIntent
  BY DEF CommitInspected, CommitReconciled, At, Env, CommitInv, LocalsInv, IntentIsHandled
<1>2. CASE Unwind \/ Raise("Review", open, FALSE)
  <2>1. Kept /\ pc' \in Stops
    BY <1>2, UnwindKeeps, RaiseKeeps DEF Stops
  <2> QED BY <1>1, <2>1, StopCommits
<1>3. CASE CommitReconciled /\ Goto("git", NoMem)
  <2>1. Kept /\ pc' = "git" /\ cp' = cp
    BY <1>3, GotoKeeps
  <2>2. LocalsInv'
    BY <1>1, <2>1
       DEF LocalsInv, IntentIsHandled, SeenIsPassed, SeenIsReviewed, CommitIsReviewed, ReviewPCs
  <2> QED BY <1>1, <1>3, <2>2, GotoCommits
<1>4. CASE /\ MatchesIntent(wt, cp.intent)
           /\ Goto("complete", [NoMem EXCEPT !.commit = HeadOf(wt)])
  <2> DEFINE m == [NoMem EXCEPT !.commit = HeadOf(wt)]
  <2>1. Kept /\ pc' = "complete" /\ mem' = m /\ cp' = cp
    BY <1>4, GotoKeeps
  <2>2. mem'.commit = HeadOf(wt)
    BY <2>1 DEF NoMem
  <2>3. /\ HeadOf(wt) = cp.intent.parent + 1
        /\ wt.commits[HeadOf(wt)].tree = cp.intent.snapshot.tree
        /\ wt.commits[HeadOf(wt)].unit = Unit(cp)
    BY <1>1, <1>4
       DEF MatchesIntent, Last, HeadOf, CommitInv, DurableInv, IntentIsReviewed
  <2>4. HeadOf(wt) \in 1..HeadOf(wt)
    BY NowTyped
  <2>5. <<Unit(cp), wt.commits[HeadOf(wt)].tree>> \in green \cap accepted
    BY <1>1, <2>3 DEF CommitInv, DurableInv, IntentIsReviewed, Reviewed, Vetted
  <2>6. LocalsInv'
    BY <1>1, <2>1, <2>2, <2>3, <2>4, <2>5
       DEF LocalsInv, IntentIsHandled, SeenIsPassed, SeenIsReviewed, CommitIsReviewed, ReviewPCs,
           ReviewedIn, Reviewed, Vetted, Unit, history
  <2> HIDE DEF m
  <2>7. Goto("complete", m)
    BY <1>4 DEF m
  <2> QED BY <1>1, <2>6, <2>7, GotoCommits
<1> QED BY <1>2, <1>3, <1>4 DEF CommitInspected, CommitReconciled

\* When a unit completes no commit of the engine is in doubt.
LEMMA NoneInDoubt ==
  ASSUME CommitInv, pc = "complete", NEW i \in 1..HeadOf(wt), wt.commits[i].by = "payo"
  PROVE  Vetted(wt.commits[i].unit, wt.commits[i].tree)
BY DEF CommitInv, LocalsInv, DurableInv, OwnAreVetted, CommitIsReviewed, ReviewedIn, Reviewed

LEMMA PhaseCommits ==
  ASSUME Types, Types', GateInv, CommitInv, PhaseCompletes
  PROVE  CommitInv'
<1> DEFINE d == PhaseAccepted(cp)
           n == Len(cp.receipts)
<1>1. ~ended /\ wt' = wt /\ UNCHANGED history
  BY NotEnded DEF PhaseCompletes, At, Env
<1>2. Unwind \/ Write(d, running \ cp.flight.steps, open, Dispatch(d), NoMem)
  BY DEF PhaseCompletes
<1>3. CASE Unwind
  <2>1. Kept /\ pc' \in Stops
    BY <1>3, UnwindKeeps DEF Stops
  <2> QED BY <1>1, <2>1, StopCommits
<1>4. CASE cp' = d /\ pc' = Dispatch(d) /\ ended' = ended
  <2>1. /\ d.checks = NoSnapshot /\ d.intent = NoIntent
        /\ d.receipts = Append(cp.receipts, mem.commit)
    BY DEF PhaseAccepted, Recorded, Types, IsCheckpoint, CheckpointFields
  <2>2. cp.receipts \in Seq(Nat) /\ mem.commit \in Nat
    BY DEF Types, IsCheckpoint, IsMem
  <2>3. /\ n \in Nat /\ Len(d.receipts) = n + 1 /\ d.receipts[n + 1] = mem.commit
        /\ \A p \in 1..n : d.receipts[p] = cp.receipts[p]
    BY <2>1, <2>2, AppendProperties, LenProperties
  <2>4. \A p \in 1..(n + 1) : p \in 1..n \/ p = n + 1
    BY <2>3
  <2>5. mem.commit \in 1..HeadOf(wt) /\ Vetted(n + 1, wt.commits[mem.commit].tree)
    <3>1. ReviewedIn(mem.commit)
      BY DEF PhaseCompletes, At, CommitInv, LocalsInv, CommitIsReviewed
    <3> QED BY <3>1, NextUnit DEF ReviewedIn, Reviewed
  <2>6. cp' = d /\ pc' = Dispatch(d) /\ ended' = ended
    BY <1>4
  <2> HIDE DEF d
  <2>7. LocalsInv'
    <3>1. pc' \notin Vouching
      BY <2>1, <2>6, DispatchedTo DEF Vouching, ReviewPCs
    <3> QED BY <2>1, <2>6, <3>1
          DEF LocalsInv, IntentIsHandled, SeenIsPassed, SeenIsReviewed, CommitIsReviewed, Vouching
  <2>8. ChecksArePassed' /\ IntentIsReviewed'
    BY <2>1, <2>6 DEF ChecksArePassed, IntentIsReviewed
  <2>9. UnitsCommitted'
    BY <1>1 DEF CommitInv, DurableInv, UnitsCommitted
  <2>10. \A p \in 1..Len(d.receipts) : d.receipts[p] \in 1..HeadOf(wt)
    BY <2>3, <2>4, <2>5 DEF CommitInv, DurableInv, ReceiptsName
  <2>11. ReceiptsName'
    BY <1>1, <2>6, <2>10 DEF ReceiptsName
  <2>12. OwnAreVetted' /\ RecordsAreVetted'
    <3>1. \A p \in 1..Len(d.receipts) : Vetted(p, wt.commits[d.receipts[p]].tree)
      BY <2>3, <2>4, <2>5 DEF CommitInv, DurableInv, RecordsAreVetted
    <3>2. \A i \in 1..HeadOf(wt) : wt.commits[i].by = "payo" =>
            Vetted(wt.commits[i].unit, wt.commits[i].tree)
      BY NoneInDoubt DEF PhaseCompletes, At
    <3>3. OwnAreVetted'
      BY <1>1, <3>2 DEF OwnAreVetted, Vetted, history
    <3> QED BY <1>1, <2>6, <3>1, <3>3 DEF RecordsAreVetted, Vetted, history
  <2>13. CommitsAreCovered'
    <3>1. \A i \in 1..HeadOf(wt) : wt.commits[i].by = "payo" => wt.commits[i].unit <= n + 1
      <4> SUFFICES ASSUME NEW i \in 1..HeadOf(wt), wt.commits[i].by = "payo"
                   PROVE  wt.commits[i].unit <= n + 1
        OBVIOUS
      <4> QED BY <1>1, <2>3, CommittedUnits, NextUnit
    <3> QED BY <1>1, <2>3, <2>6, <3>1 DEF CommitsAreCovered
  <2> QED BY <2>7, <2>8, <2>9, <2>11, <2>12, <2>13 DEF CommitInv, DurableInv
<1> QED BY <1>2, <1>3, <1>4 DEF Write

LEMMA EndCommits ==
  ASSUME Types, Types', GateInv, CommitInv, ExecutionCompletes
  PROVE  CommitInv'
<1> DEFINE d == [cp EXCEPT !.stage = "Completed", !.ws = Now, !.intent = NoIntent,
                           !.flight = NoFlight, !.partial = FALSE]
<1>1. ~ended /\ wt' = wt /\ UNCHANGED history /\ cp.scope = "final"
  BY NotEnded DEF ExecutionCompletes, At, Env
<1>2. Unwind \/ (cp' = d /\ ended' = TRUE /\ pc' = "idle")
  BY DEF ExecutionCompletes
<1>3. CASE Unwind
  <2>1. Kept /\ pc' \in Stops
    BY <1>3, UnwindKeeps DEF Stops
  <2> QED BY <1>1, <2>1, StopCommits
<1>4. CASE cp' = d /\ ended' = TRUE /\ pc' = "idle"
  <2>1. /\ cp'.scope = cp.scope /\ cp'.phase = cp.phase /\ cp'.receipts = cp.receipts
        /\ cp'.checks = cp.checks /\ cp'.intent = NoIntent
    BY <1>4 DEF Types, IsCheckpoint, CheckpointFields
  <2>2. Unit(cp) = Final /\ Unit(cp)' = Unit(cp)
    BY <1>1, <2>1 DEF Unit
  <2>3. mem.commit \in 1..HeadOf(wt) /\ Vetted(Final, wt.commits[mem.commit].tree)
    <3>1. ReviewedIn(mem.commit)
      BY DEF ExecutionCompletes, At, CommitInv, LocalsInv, CommitIsReviewed
    <3> QED BY <2>2, <3>1 DEF ReviewedIn, Reviewed
  <2>4. LocalsInv'
    BY <1>4, <2>1
       DEF LocalsInv, IntentIsHandled, SeenIsPassed, SeenIsReviewed, CommitIsReviewed, ReviewPCs
  <2>5. ChecksArePassed' /\ IntentIsReviewed' /\ UnitsCommitted' /\ ReceiptsName'
    BY <1>1, <2>1, <2>2
       DEF CommitInv, DurableInv, ChecksArePassed, Passed, IntentIsReviewed, UnitsCommitted,
           ReceiptsName, history
  <2>6. OwnAreVetted' /\ RecordsAreVetted'
    <3>1. \A i \in 1..HeadOf(wt) : wt.commits[i].by = "payo" =>
            Vetted(wt.commits[i].unit, wt.commits[i].tree)
      BY NoneInDoubt DEF ExecutionCompletes, At
    <3>2. OwnAreVetted'
      BY <1>1, <3>1 DEF OwnAreVetted, Vetted, history
    <3>3. RecordsAreVetted'
      BY <1>1, <2>1, <2>3 DEF CommitInv, DurableInv, RecordsAreVetted, Vetted, history
    <3> QED BY <3>2, <3>3
  <2>7. CommitsAreCovered'
    <3>1. \A i \in 1..HeadOf(wt) : wt.commits[i].by = "payo" =>
            wt.commits[i].unit <= Len(cp.receipts) \/ wt.commits[i].unit = Final
      BY <1>1, <2>2, CommittedUnits
    <3>2. ended'
      BY <1>4
    <3> QED BY <1>1, <2>1, <3>1, <3>2 DEF CommitsAreCovered
  <2> QED BY <2>4, <2>5, <2>6, <2>7 DEF CommitInv, DurableInv
<1> QED BY <1>2, <1>3, <1>4

LEMMA ResumeCommits ==
  ASSUME Types, Types', CommitInv, Resume
  PROVE  CommitInv'
<1> DEFINE d == ResumeCheckpoint(cp)
<1>1. wt' = wt /\ UNCHANGED history
  BY DEF Resume
<1>2. SameUnit(d)
  BY DEF ResumeCheckpoint, Resumed, SameUnit, Types, IsCheckpoint, CheckpointFields
<1>3. Write(d, running \ cp.flight.steps, open \ cp.flight.steps, Dispatch(d), NoMem)
  BY DEF Resume
<1> HIDE DEF d
<1>4. Kept /\ (pc' = "catch" \/ (pc' = Dispatch(d) /\ cp' = d))
  BY <1>2, <1>3, WriteKeeps
<1>5. CASE pc' = "catch"
  BY <1>1, <1>4, <1>5, StopCommits DEF Stops
<1>6. CASE pc' = Dispatch(d) /\ cp' = d
  <2>1. pc' \in {"reconcile", "prepare", "manifest", "implement", "check", "idle"}
        /\ (pc' = "reconcile" <=> cp'.intent # NoIntent)
    BY <1>6, DispatchedTo
  <2>2. LocalsInv'
    BY <2>1
       DEF LocalsInv, IntentIsHandled, SeenIsPassed, SeenIsReviewed, CommitIsReviewed, ReviewPCs
  <2>3. Grows /\ Remembers
    BY <1>1, SameCommitsGrow DEF Remembers, history
  <2> QED BY <1>4, <2>2, <2>3, EvidenceKept, DurableKept, KeptScope DEF CommitInv, DurableInv
<1> QED BY <1>4, <1>5, <1>6

\* What other people do to the worktree and its branch.
LEMMA WorldGrows ==
  ASSUME Types, World
  PROVE  Grows
<1>1. CASE Touch
  <2>1. wt'.commits = wt.commits
    BY <1>1, EditTyped DEF Touch, Types
  <2> QED BY <2>1, SameCommitsGrow
<1>2. CASE ForeignCommit
  <2> DEFINE c == [by |-> "foreign", unit |-> 0, tree |-> wt.tree, trailer |-> FALSE]
  <2>1. wt'.commits = Append(wt.commits, c)
    BY <1>2, CommitTyped DEF ForeignCommit, Types
  <2>2. wt.commits \in Seq(Commits(wt.latest)) /\ c \in Commits(wt.latest)
    BY DEF Types, IsWorktree, Commits
  <2>3. /\ HeadOf(wt) \in Nat /\ HeadOf(wt)' = HeadOf(wt) + 1
        /\ \A i \in 1..HeadOf(wt) : wt'.commits[i] = wt.commits[i]
        /\ wt'.commits[HeadOf(wt) + 1] = c
    BY <2>1, <2>2, AppendProperties, LenProperties DEF HeadOf
  <2>4. wt'.commits[HeadOf(wt) + 1].by # "payo"
    BY <2>3
  <2> QED BY <2>3, <2>4 DEF Grows
<1>3. CASE OtherBranch
  <2>1. wt'.commits = wt.commits
    BY <1>3 DEF OtherBranch, Types, IsWorktree
  <2> QED BY <2>1, SameCommitsGrow
<1> QED BY <1>1, <1>2, <1>3 DEF World

LEMMA CommitsInitially == Init => CommitInv
<1> SUFFICES ASSUME Init PROVE CommitInv
  OBVIOUS
<1>1. cp = InitialCheckpoint /\ pc = "prepare" /\ ended = FALSE
  BY DEF Init
<1>2. cp.intent = NoIntent /\ cp.checks = NoSnapshot /\ cp.receipts = <<>>
  BY <1>1 DEF InitialCheckpoint
<1>3. HeadOf(wt) = 1 /\ wt.commits[1].by = "base"
  BY DEF Init, HeadOf
<1>4. \A i \in 1..HeadOf(wt) : wt.commits[i].by # "payo"
  BY <1>3
<1>5. Len(cp.receipts) = 0 /\ 1..Len(cp.receipts) = {}
  BY <1>2, EmptySeq
<1>6. LocalsInv
  BY <1>1, <1>2
     DEF LocalsInv, IntentIsHandled, SeenIsPassed, SeenIsReviewed, CommitIsReviewed, ReviewPCs
<1> QED BY <1>1, <1>2, <1>4, <1>5, <1>6
      DEF CommitInv, DurableInv, ChecksArePassed, IntentIsReviewed, UnitsCommitted, ReceiptsName,
          OwnAreVetted, RecordsAreVetted, CommitsAreCovered

LEMMA CommitsNext ==
  Types /\ Types' /\ GateInv /\ CommitInv /\ [ExecutionNext]_vars => CommitInv'
<1> SUFFICES ASSUME Types, Types', GateInv, CommitInv, [ExecutionNext]_vars PROVE CommitInv'
  OBVIOUS
<1>1. IntentIsHandled
  BY DEF CommitInv, LocalsInv
<1>2. CASE Engine
  <2>1. CASE ReviewStarts \/ ReviewScoped \/ ReviewDecided \/ ReviewRecorded
    BY <2>1, ReviewCommits
  <2>2. ASSUME NEW s \in cp.flight.steps,
               ReviewStepStarts(s) \/ ReviewStepFails(s) \/ ScopeMapRefused(s) \/ ReviewStepEnds(s)
        PROVE  CommitInv'
    BY <2>2, ReviewStepsCommits
  <2>3. CASE \/ ChecksRecorded \/ CommitPrepared \/ AlreadySatisfied \/ IntentRecorded \/ GitCommit
             \/ CommitInspected \/ CommitReconciled \/ PhaseCompletes \/ ExecutionCompletes
    BY <2>3, EvidenceCommits, PreparedCommits, IntentCommits, GitCommits, InspectedCommits,
       PhaseCommits, EndCommits
  <2>4. CASE Routine
    BY <2>4, RoutineCommits
  <2> QED BY <1>1, <1>2, <2>1, <2>2, <2>3, <2>4, StartsRoutine, PreparationRoutine, ReportsRoutine,
             ChecksRoutine, AgentRoutine, StopsRoutine DEF Engine
<1>3. CASE Resume \/ Restart \/ Crash \/ Exit \/ Fault
  BY <1>1, <1>3, ResumeCommits, StopsRoutine, RoutineCommits
<1>4. CASE Shutdown \/ World \/ UNCHANGED vars
  <2>1. UNCHANGED <<cp, log, pc, mem, history>>
    BY <1>4 DEF Shutdown, World, Touch, ForeignCommit, OtherBranch, Engines, vars
  <2>2. Kept /\ Remembers
    BY <2>1 DEF Kept, SameUnit, Remembers, log, history
  <2>3. Grows
    BY <1>4, WorldGrows, SameCommitsGrow DEF Shutdown, vars
  <2> QED BY <2>1, <2>2, <2>3, LocalsKept, EvidenceKept, DurableKept, KeptScope
        DEF CommitInv, DurableInv
<1> QED BY <1>2, <1>3, <1>4 DEF ExecutionNext, Process

-----------------------------------------------------------------------------
IInv == Types /\ GateInv /\ CommitInv

LEMMA Invariance == Spec => []IInv
<1>1. Init => IInv
  BY TypesInitially, GatesInitially, CommitsInitially DEF IInv
<1>2. IInv /\ [ExecutionNext]_vars => IInv'
  BY TypesNext, GatesNext, CommitsNext DEF IInv
<1> QED BY <1>1, <1>2, PTL DEF Spec

\* Whatever is edited, committed by others, changed by a commit hook, crashed, faulted
\* or resumed in between, each receipt, the end of the run and each commit the engine
\* has taken over name a content that passed that unit's checks untouched and that its
\* reviewers accepted.  The one commit that may be another is the child of the durable
\* intent's parent, and the engine is not about to record it.
THEOREM OnlyVettedIsCommitted == Spec => []CommitsAreVetted
<1>1. IInv => CommitsAreVetted
  <2> SUFFICES ASSUME IInv PROVE CommitsAreVetted
    OBVIOUS
  <2>1. \A i \in 1..HeadOf(wt) : wt.commits[i].by = "payo" =>
          Vetted(wt.commits[i].unit, wt.commits[i].tree) \/ Doubtful(i)
    BY NoneInDoubt DEF IInv, CommitInv, DurableInv, OwnAreVetted, Doubtful
  <2> QED BY <2>1 DEF IInv, CommitInv, DurableInv, RecordsAreVetted, CommitsAreVetted
<1> QED BY <1>1, Invariance, PTL

\* A commit whose receipt is not written yet is named by the durable intent: no crash
\* between the two loses or repeats it.
THEOREM NoCommitIsLost == Spec => []CommitsAreCovered
<1>1. IInv => CommitsAreCovered
  BY DEF IInv, CommitInv, DurableInv
<1> QED BY <1>1, Invariance, PTL

-----------------------------------------------------------------------------
(* The ledger: every step is a step of it, or leaves it as it is.          *)

Made == [i \in Own(wt) |-> wt.commits[i].unit]
\* Nothing is recorded or ended, and only other people commit.
LedgerRests == cp'.receipts = cp.receipts /\ ended' = ended /\ Grows

LEMMA LedgerStutters ==
  ASSUME Types, Types', LedgerRests
  PROVE  UNCHANGED Ledger!ledger
<1>1. HeadOf(wt) \in Nat /\ HeadOf(wt)' \in Nat
  BY SnapshotTyped DEF Types
<1>2. Own(wt)' = Own(wt)
  BY <1>1 DEF LedgerRests, Grows, Own
<1>3. \A i \in Own(wt) : wt'.commits[i] = wt.commits[i]
  BY DEF LedgerRests, Grows, Own
<1>4. Made' = Made
  BY <1>2, <1>3 DEF Made
<1> QED BY <1>4 DEF LedgerRests, Ledger!ledger, Made

LEMMA KeptRests ==
  ASSUME Types, Kept, wt'.commits = wt.commits
  PROVE  LedgerRests
BY SameCommitsGrow DEF Kept, SameUnit, LedgerRests

LEMMA ReviewRests ==
  ASSUME Types, ChecksRecorded \/ ReviewStarts \/ ReviewScoped \/ ReviewDecided \/ ReviewRecorded
  PROVE  LedgerRests
<1>1. wt'.commits = wt.commits
  BY DEF ChecksRecorded, ReviewStarts, ReviewScoped, ReviewDecided, ReviewRecorded
<1>2. CASE ChecksRecorded
  <2>1. CASE Raise("Check", cp.flight.steps, FALSE)
    BY <1>1, <2>1, RaiseKeeps, KeptRests
  <2>2. CASE ~Raise("Check", cp.flight.steps, FALSE)
    <3>1. cp'.receipts = cp.receipts /\ ended' = ended
      BY <1>2, <2>2
         DEF ChecksRecorded, Write, Unwind, log, Types, IsCheckpoint, CheckpointFields
    <3> QED BY <1>1, <3>1, SameCommitsGrow DEF LedgerRests
  <2> QED BY <2>1, <2>2
<1>3. CASE ReviewStarts \/ ReviewDecided
  <2>1. Kept
    BY <1>3 DEF ReviewStarts, ReviewDecided, Unreviewed, Goto, Unwind, Kept, SameUnit, log
  <2> QED BY <1>1, <2>1, KeptRests
<1>4. CASE ReviewScoped
  <2>1. Kept
    BY <1>4 DEF ReviewScoped, Unreviewed, Goto, Write, Unwind, Kept, SameUnit, log,
                Types, IsCheckpoint, CheckpointFields
  <2> QED BY <1>1, <2>1, KeptRests
<1>5. CASE ReviewRecorded
  <2>1. Kept
    BY <1>5 DEF ReviewRecorded, Write, Unwind, Kept, SameUnit, log,
                Types, IsCheckpoint, CheckpointFields
  <2> QED BY <1>1, <2>1, KeptRests
<1> QED BY <1>2, <1>3, <1>4, <1>5

LEMMA CommittingRests ==
  ASSUME Types, CommitPrepared \/ AlreadySatisfied \/ IntentRecorded \/ CommitInspected
                  \/ CommitReconciled
  PROVE  LedgerRests
<1>1. wt'.commits = wt.commits
  BY WorktreeKept
     DEF CommitPrepared, AlreadySatisfied, IntentRecorded, CommitInspected, CommitReconciled, Types
<1>2. CASE Raise("Review", open, FALSE)
  BY <1>1, <1>2, RaiseKeeps, KeptRests
<1>3. CASE ~Raise("Review", open, FALSE)
  <2>1. cp'.receipts = cp.receipts /\ ended' = ended
    BY <1>3 DEF CommitPrepared, AlreadySatisfied, IntentRecorded, CommitInspected,
                CommitReconciled, Goto, Write, Unwind, log, Types, IsCheckpoint, CheckpointFields
  <2> QED BY <1>1, <2>1, SameCommitsGrow DEF LedgerRests
<1> QED BY <1>2, <1>3

LEMMA OthersRest ==
  ASSUME Types, Resume \/ Shutdown \/ World \/ UNCHANGED vars
  PROVE  LedgerRests
<1>1. CASE Resume
  <2>1. cp'.receipts = cp.receipts /\ ended' = ended
    BY <1>1 DEF Resume, Write, Unwind, log, ResumeCheckpoint, Resumed, Types, IsCheckpoint,
                CheckpointFields
  <2> QED BY <1>1, <2>1, SameCommitsGrow DEF Resume, LedgerRests
<1>2. CASE Shutdown \/ World \/ UNCHANGED vars
  <2>1. UNCHANGED <<cp, ended>>
    BY <1>2 DEF Shutdown, World, Touch, ForeignCommit, OtherBranch, Engines, vars, log
  <2>2. Grows
    BY <1>2, WorldGrows, SameCommitsGrow DEF Shutdown, vars
  <2> QED BY <2>1, <2>2 DEF LedgerRests
<1> QED BY <1>1, <1>2

LEMMA CommitIsLedgers ==
  ASSUME Types, Types', GateInv, CommitInv, GitCommit, ~Unwind
  PROVE  Ledger!CommitUnit
<1> DEFINE h == HeadOf(wt)
<1>1. cp.intent # NoIntent /\ ~ended
  BY NotEnded DEF GitCommit, At, CommitInv, LocalsInv, IntentIsHandled
<1>2. /\ Now = cp.intent.snapshot /\ HeadOf(wt)' = h + 1 /\ h \in Nat
      /\ \A i \in 1..h : wt'.commits[i] = wt.commits[i]
      /\ wt'.commits[h + 1].by = "payo" /\ wt'.commits[h + 1].unit = cp.intent.unit
  BY CommitMade
<1>3. cp' = cp /\ ended' = ended
  BY CommitMade, GotoKeeps DEF Kept
<1>4. cp.intent.unit = Len(cp.receipts) + 1 /\ cp.intent.parent = h
  BY <1>1, <1>2, NextUnit, NowTyped DEF CommitInv, DurableInv, IntentIsReviewed
<1>5. \A i \in 1..h : wt.commits[i].by = "payo" => wt.commits[i].unit # Len(cp.receipts) + 1
  BY <1>1, <1>2, <1>4 DEF CommitInv, DurableInv, IntentIsReviewed
<1>6. /\ wt'.commits[h + 1].by = "payo"
      /\ wt'.commits[h + 1].unit = Len(cp.receipts) + 1
  BY <1>2, <1>4
<1> HIDE DEF h
<1>7. \A i \in 1..(h + 1) : i \in 1..h \/ i = h + 1
  BY <1>2
<1>8. h + 1 \in 1..(h + 1) /\ \A i \in 1..h : i \in 1..(h + 1) /\ i < h + 1 /\ i # h + 1
  BY <1>2
<1>9. Own(wt) \subseteq 1..h
  BY DEF Own, h
<1>10. Own(wt)' = Own(wt) \cup {h + 1}
  BY <1>2, <1>6, <1>7, <1>8 DEF Own, h
<1>11. Made' = [p \in Own(wt) \cup {h + 1} |->
                  IF p = h + 1 THEN Len(cp.receipts) + 1 ELSE Made[p]]
  <2>1. \A p \in Own(wt) \cup {h + 1} :
          wt'.commits[p].unit = IF p = h + 1 THEN Len(cp.receipts) + 1 ELSE Made[p]
    BY <1>2, <1>6, <1>8, <1>9 DEF Made
  <2> QED BY <1>10, <2>1 DEF Made
<1>12. DOMAIN Made = Own(wt) /\ (DOMAIN Made)' = Own(wt) \cup {h + 1}
  BY <1>10 DEF Made
<1>13. \A p \in DOMAIN Made : Made[p] # Len(cp.receipts) + 1
  BY <1>5, <1>9, <1>12 DEF Made, Own
<1>14. \A p \in DOMAIN Made : p < h + 1
  BY <1>8, <1>9, <1>12
<1>15. \E top \in (DOMAIN Made)' :
         /\ \A p \in DOMAIN Made : p < top
         /\ Made' = [p \in DOMAIN Made \cup {top} |->
                       IF p = top THEN Len(cp.receipts) + 1 ELSE Made[p]]
  BY <1>11, <1>12, <1>14
<1> QED BY <1>1, <1>3, <1>13, <1>15 DEF Ledger!CommitUnit, Made

LEMMA PhaseIsLedgers ==
  ASSUME Types, Types', GateInv, PhaseCompletes
  PROVE  Ledger!RecordPhase \/ LedgerRests
<1> DEFINE d == PhaseAccepted(cp)
<1>1. ~ended /\ wt' = wt /\ cp.scope = "phase"
  BY NotEnded DEF PhaseCompletes, At
<1>2. CASE Unwind
  BY <1>1, <1>2, UnwindKeeps, KeptRests
<1>3. CASE ~Unwind
  <2>1. cp' = d /\ ended' = ended
    BY <1>3 DEF PhaseCompletes, Write
  <2>2. d.receipts = Append(cp.receipts, mem.commit)
    BY DEF PhaseAccepted, Recorded, Types, IsCheckpoint, CheckpointFields
  <2>3. cp.receipts \in Seq(Nat) /\ mem.commit \in Nat
    BY DEF Types, IsCheckpoint, IsMem
  <2>4. Len(cp'.receipts) = Len(cp.receipts) + 1
    BY <2>1, <2>2, <2>3, AppendProperties
  <2>5. Len(cp.receipts) < Phases
    BY <1>1, <2>3, LenProperties, ExecutionAssumption DEF Types, IsCheckpoint
  <2>6. Made' = Made
    BY <1>1 DEF Made, Own, HeadOf
  <2> QED BY <1>1, <2>1, <2>4, <2>5, <2>6 DEF Ledger!RecordPhase, Made
<1> QED BY <1>2, <1>3

LEMMA EndIsLedgers ==
  ASSUME Types, Types', GateInv, ExecutionCompletes
  PROVE  Ledger!EndRun \/ LedgerRests
<1>1. ~ended /\ wt' = wt /\ cp.scope = "final"
  BY NotEnded DEF ExecutionCompletes, At
<1>2. CASE Unwind
  BY <1>1, <1>2, UnwindKeeps, KeptRests
<1>3. CASE ~Unwind
  <2>1. cp'.receipts = cp.receipts /\ ended' = TRUE
    BY <1>3 DEF ExecutionCompletes, Types, IsCheckpoint, CheckpointFields
  <2>2. Len(cp.receipts) = Phases
    BY <1>1 DEF Types, IsCheckpoint
  <2>3. Made' = Made
    BY <1>1 DEF Made, Own, HeadOf
  <2> QED BY <1>1, <2>1, <2>2, <2>3 DEF Ledger!EndRun, Made
<1> QED BY <1>2, <1>3

LEMMA LedgerStep ==
  IInv /\ IInv' /\ [ExecutionNext]_vars => [Ledger!LedgerNext]_Ledger!ledger
<1> SUFFICES ASSUME IInv, IInv', [ExecutionNext]_vars PROVE [Ledger!LedgerNext]_Ledger!ledger
  OBVIOUS
<1>1. Types /\ Types' /\ GateInv /\ CommitInv /\ IntentIsHandled
  BY DEF IInv, CommitInv, LocalsInv
<1>2. SUFFICES LedgerRests \/ Ledger!LedgerNext
  BY <1>1, LedgerStutters
<1>3. Routine => LedgerRests
  BY <1>1, KeptRests DEF Routine
<1>4. CASE Engine
  <2>1. CASE GitCommit
    <3>1. CASE Unwind
      <4>1. Kept /\ pc' = "catch"
        BY <3>1, UnwindKeeps
      <4>2. wt' = wt
        BY <2>1, <4>1 DEF GitCommit, Goto
      <4> QED BY <1>1, <4>1, <4>2, KeptRests
    <3>2. CASE ~Unwind
      BY <1>1, <2>1, <3>2, CommitIsLedgers DEF Ledger!LedgerNext
    <3> QED BY <3>1, <3>2
  <2>2. CASE PhaseCompletes \/ ExecutionCompletes
    BY <1>1, <2>2, PhaseIsLedgers, EndIsLedgers DEF Ledger!LedgerNext
  <2>3. CASE ChecksRecorded \/ ReviewStarts \/ ReviewScoped \/ ReviewDecided \/ ReviewRecorded
    BY <1>1, <2>3, ReviewRests
  <2>4. CASE CommitPrepared \/ AlreadySatisfied \/ IntentRecorded \/ CommitInspected
               \/ CommitReconciled
    BY <1>1, <2>4, CommittingRests
  <2>5. ASSUME NEW s \in cp.flight.steps,
               ReviewStepStarts(s) \/ ReviewStepFails(s) \/ ScopeMapRefused(s) \/ ReviewStepEnds(s)
        PROVE  LedgerRests
    <3>1. UNCHANGED <<cp, ended, wt>>
      BY <2>5 DEF ReviewStepStarts, ReviewStepFails, ScopeMapRefused, ReviewStepEnds
    <3> QED BY <1>1, <3>1, SameCommitsGrow DEF LedgerRests
  <2> QED BY <1>1, <1>3, <1>4, <2>1, <2>2, <2>3, <2>4, <2>5, StartsRoutine, PreparationRoutine,
             ReportsRoutine, ChecksRoutine, AgentRoutine, StopsRoutine DEF Engine
<1>5. CASE Process \/ World \/ UNCHANGED vars
  BY <1>1, <1>3, <1>5, OthersRest, StopsRoutine DEF Process
<1> QED BY <1>4, <1>5 DEF ExecutionNext

\* The execution run keeps its ledger: phases are committed and recorded in order, each
\* committed at most once and recorded exactly once, and the run ends after the last,
\* whatever crashes, is resumed, or is committed by others in between.
THEOREM LedgerImplemented == Spec => ImplementsLedger
<1>1. Init => Ledger!LedgerInit
  <2> SUFFICES ASSUME Init PROVE Ledger!LedgerInit
    OBVIOUS
  <2>1. /\ wt.commits = <<[by |-> "base", unit |-> 0, tree |-> 0, trailer |-> FALSE]>>
        /\ HeadOf(wt) = 1
    BY DEF Init, HeadOf
  <2>2. Own(wt) = {}
    BY <2>1 DEF Own
  <2>3. Len(cp.receipts) = 0 /\ ended = FALSE
    BY EmptySeq DEF Init, InitialCheckpoint
  <2> QED BY <2>2, <2>3 DEF Ledger!LedgerInit
<1> QED BY <1>1, LedgerStep, Invariance, PTL DEF Spec, ImplementsLedger, Ledger!LedgerSpec
=============================================================================
