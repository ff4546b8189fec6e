---------------------------- MODULE PlanningProofs ----------------------------
(***************************************************************************)
(* Proofs about module Planning, for any lenses, rounds, questions and     *)
(* texts and any bounds on the environment: a run that is not at work      *)
(* takes a command, hand edits outlive an update, and what is approved is  *)
(* what was shown, with its answers.                                       *)
(***************************************************************************)
EXTENDS Planning, FiniteSetTheorems, SequenceTheorems, WellFoundedInduction, TLAPS

(***************************************************************************)
(* Types.                                                                  *)
(***************************************************************************)
Ids(S) == S \subseteq Nat /\ IsFiniteSet(S)
Work == {"ResolveWorkItem", "Plan", "PlanReview", "Revise"}
Flights == [stage: Work \cup {"none"}, steps: SUBSET Nat]
Updates == [kind: {"none", "prompt", "restore"}, base: Nat, expected: Contents, result: Nat]

IsFlight(f) == f \in Flights /\ IsFiniteSet(f.steps) /\ (f.stage = "none" => f.steps = {})
IsUpdate(u) == u \in Updates /\ (u.kind = "none" => u = NoUpdate)

IsCheckpoint(c) ==
  /\ DOMAIN c = {"stage", "round", "plan", "answers", "pending", "flight"}
  /\ c.stage \in Stages /\ c.round \in 0..MaxRounds /\ c.plan \in Nat
  /\ c.answers \subseteq Questions /\ IsUpdate(c.pending) /\ IsFlight(c.flight)

IsMem(m) ==
  /\ DOMAIN m = {"todo", "unchecked", "res", "save"}
  /\ m.unchecked \in BOOLEAN

Formed ==
  /\ IsCheckpoint(cp) /\ IsMem(mem)
  /\ worktree \in BOOLEAN /\ ended \in BOOLEAN /\ threw \in BOOLEAN
Contained ==
  /\ versions \in Seq(Versions) /\ mem.save \subseteq Versions
  /\ file \in Contents /\ texts \in 0..MaxTexts
Types == Formed /\ Contained

(***************************************************************************)
(* Where the run is.                                                       *)
(***************************************************************************)
\* The stage a run is at, or will be at once it is resumed.
At(c) == IF c.stage = "Escalated" THEN c.flight.stage ELSE c.stage
Early(c) == At(c) \in {"ResolveWorkItem", "Plan"}

Position(c) ==
  /\ c.stage = "Escalated" => c.flight.stage \in Work
  /\ c.stage \in {"Approval", "Approved"} => c.flight.stage = "none" /\ c.pending = NoUpdate
  /\ c.stage \in Work /\ c.flight.stage \in Work =>
       \/ c.flight.stage = c.stage
       \/ c.stage = "PlanReview" /\ c.flight.stage = "Revise"
  /\ Early(c) => c.round = 0 /\ c.plan = 0 /\ c.pending = NoUpdate
  /\ ~Early(c) => c.plan # 0
  /\ "Revise" \in {c.stage, c.flight.stage} => c.round < MaxRounds

\* What is running and what waits at a gate belong to the operation in flight, or
\* to the approval.
Owned(c, steps, gates) ==
  IF c.stage = "Approval"
  THEN \E s \in Nat : gates = {Gate(s, "approval")} /\ steps = {s}
  ELSE {g.step : g \in gates} \subseteq c.flight.steps /\ steps \subseteq c.flight.steps

Reviewing == {"lenses", "verifier", "decide", "approving", "asking"}
\* Each place of the engine, and what has been written and is running there.
Places ==
  /\ pc \in {"update", "applied"} =>
       cp.stage \in Work /\ cp.flight.stage = "none" /\ cp.pending.result # 0
  /\ pc = "resolve" => cp.stage = "ResolveWorkItem" /\ cp.flight.stage = "none"
  /\ pc \in {"begun", "resolving", "resolved"} =>
       cp.stage = "ResolveWorkItem" /\ cp.flight.stage = cp.stage /\ open = {}
  /\ pc = "draft" => cp.stage \in {"Plan", "Revise"} /\ cp.flight.stage = "none"
  /\ pc \in {"drafting", "writing", "drafted"} =>
       /\ cp.stage \in {"Plan", "Revise"} /\ cp.flight.stage = cp.stage /\ open = {}
       /\ \E x \in Nat : cp.flight.steps = {x}
  /\ pc \in {"begun", "drafting", "drafted"} => running = {}
  /\ pc = "review" => cp.stage = "PlanReview" /\ cp.flight.stage = "none"
  /\ pc \in Reviewing =>
       /\ cp.stage = "PlanReview" /\ cp.flight.stage = "PlanReview"
       /\ mem.todo \subseteq cp.flight.steps
       /\ ~mem.unchecked => open = {}
  /\ pc = "verifier" /\ ~mem.unchecked => running \subseteq Verifier /\ mem.todo \subseteq Verifier
  /\ pc = "decide" /\ ~mem.unchecked => running = {}
  /\ pc \in {"approving", "asking"} => open = {} /\ running = {}
  /\ pc = "pause" => cp.stage \in Work /\ cp.flight.stage \in Work
  /\ pc = "paused" => cp.stage = "Escalated"
  /\ pc = "answering" => cp.stage \in {"Approval", "Escalated"} /\ cp.plan # 0
  /\ pc \in {"approving plan", "removing"} => cp.stage = "Approval"
  /\ pc = "removing" => ~worktree
  /\ pc = "idle" /\ ~ended /\ ~threw => cp.stage \in {"Approval", "Escalated"}
  /\ pc \in Engine \cup Commands \cup {"idle", "down"}

Ending ==
  /\ ended <=> cp.stage = "Approved"
  /\ ended => ~worktree /\ pc \in {"idle", "down"}

Control == Position(cp) /\ Owned(cp, running, open) /\ Places /\ Ending

(***************************************************************************)
(* What the plan says.                                                     *)
(***************************************************************************)
\* Texts are numbered as they are written.
Numbered ==
  /\ file.text <= texts
  /\ \A i \in 1..Len(versions) : versions[i].md.text <= texts
  /\ \A v \in mem.save : v.md.text <= texts

Named(c) ==
  /\ c.plan <= Len(versions) /\ c.pending.result <= Len(versions)
  /\ c.plan # 0 => c.answers = versions[c.plan].answers
  /\ c.pending # NoUpdate => Saved(c.pending.expected)

\* plan.md holds the text t, or one that nothing else holds.
Shows(t) == file.text = t \/ ~Saved(file)
Complete(v) == v.asks \subseteq v.answers /\ v.md.sec = {v.answers}

Written ==
  /\ pc = "asking" \/ cp.stage = "Approval" => Shows(Current.md.text)
  /\ pc \in {"answering", "approving plan", "removing"} =>
       /\ \E v \in Versions : mem.save = {v}
       /\ \A v \in mem.save : Shows(v.md.text)
  /\ pc \in {"approving plan", "removing"} =>
       \A v \in mem.save : Complete(v) /\ v.answers = cp.answers
  /\ ended => Complete(Current)

Books == Numbered /\ Named(cp) /\ Written

IInv == Types /\ Control /\ Books

(***************************************************************************)
(* Lemmas on the data.                                                     *)
(***************************************************************************)
LEMMA NothingTyped ==
  /\ Ids({}) /\ IsMem(NoMem) /\ NoFile \in Contents
  /\ IsFlight(NoFlight) /\ NoFlight.stage = "none" /\ NoFlight.steps = {}
  /\ IsUpdate(NoUpdate) /\ NoUpdate.kind = "none" /\ NoUpdate.result = 0
<1>1. Ids({})
  BY FS_EmptySet DEF Ids
<1>2. IsMem(NoMem)
  BY DEF IsMem, NoMem
<1>3. NoFile \in Contents
  BY PlanningAssumption DEF NoFile, Content, Contents
<1>4. IsFlight(NoFlight) /\ NoFlight.stage = "none" /\ NoFlight.steps = {}
  BY <1>1 DEF IsFlight, Flights, NoFlight, Ids
<1>5. IsUpdate(NoUpdate) /\ NoUpdate.kind = "none" /\ NoUpdate.result = 0
  BY <1>3 DEF IsUpdate, Updates, NoUpdate
<1> QED BY <1>1, <1>2, <1>3, <1>4, <1>5

LEMMA FlightTyped ==
  ASSUME NEW stage \in Work, NEW S, Ids(S)
  PROVE  /\ IsFlight(Flight(stage, S))
         /\ Flight(stage, S).stage = stage /\ Flight(stage, S).steps = S
<1>1. stage # "none"
  BY DEF Work
<1> QED BY <1>1 DEF IsFlight, Flights, Flight, Ids

LEMMA FlightIs ==
  ASSUME NEW f, IsFlight(f)
  PROVE  /\ f.stage \in Work \cup {"none"} /\ Ids(f.steps)
         /\ f = NoFlight <=> f.stage = "none"
         /\ f.stage \in Work <=> f.stage # "none"
BY DEF IsFlight, Flights, NoFlight, Ids, Work

LEMMA UpdateIs ==
  ASSUME NEW u, IsUpdate(u)
  PROVE  /\ u.result \in Nat /\ u.expected \in Contents
         /\ u = NoUpdate <=> u.kind = "none"
         /\ u.result # 0 => u # NoUpdate
BY NothingTyped DEF IsUpdate, Updates

LEMMA IdsClosed ==
  ASSUME NEW S, NEW T, Ids(S), Ids(T)
  PROVE  Ids(S \cup T) /\ Ids(S \ T)
BY FS_Union, FS_Subset DEF Ids

-----------------------------------------------------------------------------
(* New ids: there are some.                                                *)

LEMMA UsedIs ==
  ASSUME Formed, Control, cp.stage # "Approval"
  PROVE  /\ UsedIds = cp.flight.steps /\ Ids(UsedIds)
         /\ GatedSteps \subseteq cp.flight.steps /\ running \subseteq cp.flight.steps
<1>1. GatedSteps \subseteq cp.flight.steps /\ running \subseteq cp.flight.steps
  BY DEF Control, Owned, GatedSteps
<1>2. Ids(cp.flight.steps)
  BY FlightIs DEF Formed, IsCheckpoint
<1> QED BY <1>1, <1>2 DEF UsedIds

LEMMA NewIdsTyped ==
  ASSUME Formed, Control, cp.stage # "Approval", NEW n \in Nat
  PROVE  Ids(NewIds(n))
<1> DEFINE all == 1..(Cardinality(UsedIds) + n)
<1>1. Cardinality(UsedIds) \in Nat
  BY UsedIs, FS_CardinalityType DEF Ids
<1>2. all \subseteq Nat /\ IsFiniteSet(all)
  BY SMTT(30), <1>1, FS_Interval
<1>3. NewIds(n) \subseteq all
  BY DEF NewIds
<1> QED BY <1>2, <1>3, FS_Subset DEF Ids

LEMMA NewIdTyped ==
  ASSUME Formed, Control, cp.stage # "Approval"
  PROVE  NewId \in Nat /\ Ids({NewId}) /\ Ids(cp.flight.steps \cup {NewId})
<1> DEFINE c == Cardinality(UsedIds)
           free == (1..(c + 1)) \ UsedIds
<1>1. c \in Nat /\ IsFiniteSet(UsedIds)
  BY UsedIs, FS_CardinalityType DEF Ids
<1>2. free # {}
  <2>1. IsFiniteSet(1..(c + 1)) /\ Cardinality(1..(c + 1)) = c + 1
    BY <1>1, FS_Interval
  <2>2. SUFFICES ASSUME 1..(c + 1) \subseteq UsedIds PROVE FALSE
    OBVIOUS
  <2>3. c + 1 <= c
    BY <2>1, <2>2, <1>1, FS_Subset
  <2> QED BY <2>3, <1>1
<1>3. free \subseteq Nat
  BY <1>1
<1>4. PICK least \in free : \A y \in free : ~(y < least)
  <2>1. PICK x \in free : \A y \in free : <<y, x>> \notin OpToRel(<, Nat)
    BY ZenonT(60), <1>2, <1>3, NatLessThanWellFounded, WFMin
  <2> QED BY <2>1, <1>3 DEF OpToRel
<1>5. {y \in free : y < least} = {}
  BY <1>4
<1>6. least \in NewIds(1)
  BY <1>5, <1>4, FS_EmptySet DEF NewIds
<1>7. NewIds(1) \subseteq Nat
  BY NewIdsTyped DEF Ids
<1>8. \A x \in NewIds(1) : ~(x < least)
  <2>1. NewIds(1) \subseteq free
    BY DEF NewIds
  <2> QED BY <2>1, <1>4
<1>9. NewId \in NewIds(1)
  <2>1. \E x \in NewIds(1) : \A y \in NewIds(1) : x =< y
    BY <1>6, <1>7, <1>8, <1>3, <1>4
  <2> QED BY <2>1 DEF NewId, Min
<1>10. NewId \in Nat /\ Ids({NewId})
  BY <1>7, <1>9, FS_Singleton DEF Ids
<1> QED BY <1>10, UsedIs, IdsClosed

-----------------------------------------------------------------------------
(* The recorded versions grow at their end.                                *)

LEMMA OneVersion ==
  ASSUME NEW v \in Versions
  PROVE  <<v>> \in Seq(Versions) /\ Len(<<v>>) = 1 /\ <<v>>[1] = v
OBVIOUS

LEMMA Extended ==
  ASSUME versions \in Seq(Versions), NEW saved \in Seq(Versions), versions' = versions \o saved
  PROVE  /\ versions' \in Seq(Versions) /\ Len(versions) \in Nat /\ Len(saved) \in Nat
         /\ Len(versions') = Len(versions) + Len(saved)
         /\ \A i \in 1..Len(versions) : versions'[i] = versions[i]
         /\ \A i \in 1..Len(saved) : versions'[Len(versions) + i] = saved[i]
<1>1. Len(versions) \in Nat /\ Len(saved) \in Nat
  BY LenProperties
<1> QED BY <1>1, ConcatProperties

LEMMA VersionIs ==
  ASSUME versions \in Seq(Versions), NEW i \in 1..Len(versions)
  PROVE  /\ versions[i] \in Versions /\ versions[i].md \in Contents
         /\ versions[i].answers \subseteq Questions /\ versions[i].asks \subseteq Questions
         /\ Saved(versions[i].md)
<1>1. versions[i] \in Versions
  BY ElementOfSeq
<1>2. Saved(versions[i].md)
  BY DEF Saved
<1> QED BY <1>1, <1>2 DEF Versions

\* What a version records once stays recorded.
LEMMA SavedStays ==
  ASSUME versions \in Seq(Versions), NEW saved \in Seq(Versions), versions' = versions \o saved,
         NEW c, Saved(c)
  PROVE  \E i \in 1..Len(versions') : versions'[i].md.text = c.text
<1>1. PICK i \in 1..Len(versions) : versions[i].md.text = c.text
  BY DEF Saved
<1>2. i \in 1..Len(versions') /\ versions'[i] = versions[i]
  BY Extended
<1> QED BY <1>1, <1>2

LEMMA RenderedTyped ==
  ASSUME NEW c \in Contents, NEW answers \in SUBSET Questions
  PROVE  /\ Rendered(c, answers) \in Contents /\ Rendered(c, answers).text = c.text
         /\ Rendered(c, answers).sec = {answers}
BY DEF Rendered, Contents

LEMMA VersionTyped ==
  ASSUME NEW by \in {"agent", "human", "answer", "restore"}, NEW md \in Contents,
         NEW answers \in SUBSET Questions, NEW asks \in SUBSET Questions
  PROVE  LET v == Version(by, md, answers, asks)
         IN  /\ v \in Versions /\ v.md = md /\ v.answers = answers /\ v.asks = asks
             /\ v.by = by
BY DEF Version, Versions

-----------------------------------------------------------------------------
(* Where the run is: lemmas on how a handler ends.                         *)

Stepped(gates) == {g.step : g \in gates}

LEMMA GatesClosed ==
  ASSUME NEW G, NEW s, NEW kind
  PROVE  /\ Stepped(G \cup {Gate(s, kind)}) = Stepped(G) \cup {s}
         /\ Stepped({}) = {}
<1> DEFINE g == Gate(s, kind)
<1>1. g.step = s
  BY DEF Gate
<1> HIDE DEF g
<1>2. {x.step : x \in G \cup {g}} = {x.step : x \in G} \cup {s}
  BY <1>1
<1> QED BY <1>2 DEF Stepped, g

LEMMA OwnedBy ==
  ASSUME NEW c, NEW steps, NEW gates, c.stage # "Approval",
         Stepped(gates) \subseteq c.flight.steps, steps \subseteq c.flight.steps
  PROVE  Owned(c, steps, gates)
BY DEF Owned, Stepped

LEMMA NothingOwned ==
  ASSUME NEW c, c.stage # "Approval"
  PROVE  Owned(c, {}, {})
BY DEF Owned

\* What is known of a run that is not at its approval gate.
LEMMA AtWork ==
  ASSUME Formed, Control, cp.stage # "Approval"
  PROVE  /\ Stepped(open) \subseteq cp.flight.steps /\ running \subseteq cp.flight.steps
         /\ GatedSteps = Stepped(open)
BY DEF Control, Owned, Stepped, GatedSteps

LEMMA FormedIs ==
  ASSUME Formed
  PROVE  /\ DOMAIN cp = {"stage", "round", "plan", "answers", "pending", "flight"}
         /\ cp.stage \in Stages /\ cp.round \in 0..MaxRounds /\ cp.round \in Nat /\ cp.plan \in Nat
         /\ cp.answers \subseteq Questions /\ IsUpdate(cp.pending) /\ IsFlight(cp.flight)
         /\ MaxRounds \in Nat /\ MaxRounds > 1
BY PlanningAssumption DEF Formed, IsCheckpoint

LEMMA LoopIs ==
  ASSUME NEW d, IsCheckpoint(d), d.stage \in Work
  PROVE  /\ Loop(d) \in {"update", "resolve", "draft", "review"}
         /\ Loop(d) = "update" => d.pending.result # 0
         /\ Loop(d) = "resolve" => d.stage = "ResolveWorkItem"
         /\ Loop(d) = "draft" => d.stage \in {"Plan", "Revise"}
         /\ Loop(d) = "review" => d.stage = "PlanReview"
<1>1. Loop(d) = AtStage(d) \/ (Loop(d) = "update" /\ d.pending.result # 0)
  BY DEF Loop
<1>2. /\ d.stage = "ResolveWorkItem" => AtStage(d) = "resolve"
      /\ d.stage \in {"Plan", "Revise"} => AtStage(d) = "draft"
      /\ d.stage = "PlanReview" => AtStage(d) = "review"
  BY DEF AtStage
<1> QED BY <1>1, <1>2 DEF Work

\* The engine goes back to the head of its loop.
LEMMA HeadReached ==
  ASSUME Formed, Control, NEW d, IsCheckpoint(d), Position(d), d.stage \in Work,
         d.flight.stage = "none", cp' = d, running' = {}, open' = {}, pc' = Loop(d), mem' = NoMem,
         ended' = FALSE, worktree' \in BOOLEAN, threw' \in BOOLEAN
  PROVE  Formed' /\ Control'
<1>1. Formed'
  BY NothingTyped DEF Formed
<1>2. Position(cp)' /\ Owned(cp, running, open)'
  <2>1. d.stage # "Approval"
    BY DEF Work
  <2> QED BY <2>1, NothingOwned
<1>3. Places'
  BY LoopIs DEF Places, Engine, Reviewing
<1>4. Ending'
  BY DEF Ending, Work
<1> QED BY <1>1, <1>2, <1>3, <1>4 DEF Control

\* The engine goes to the gate of an operation that could not go on.
LEMMA PauseReached ==
  ASSUME Formed, Control, NEW d, IsCheckpoint(d), Position(d), d.stage \in Work,
         d.flight.stage \in Work, cp' = d, Stepped(open') \subseteq d.flight.steps,
         running' \subseteq d.flight.steps, pc' = "pause", IsMem(mem)',
         ended' = FALSE, worktree' \in BOOLEAN, threw' \in BOOLEAN
  PROVE  Formed' /\ Control'
<1>1. Formed'
  BY DEF Formed
<1>2. Position(cp)' /\ Owned(cp, running, open)'
  <2>1. d.stage # "Approval"
    BY DEF Work
  <2> QED BY <2>1, OwnedBy
<1>3. Places'
  BY DEF Places, Engine, Reviewing
<1>4. Ending'
  BY DEF Ending, Work
<1> QED BY <1>1, <1>2, <1>3, <1>4 DEF Control

\* A run at work has not ended.
LEMMA NotOver ==
  ASSUME Formed, Control, pc \notin {"idle", "down"}
  PROVE  ended = FALSE /\ cp.stage # "Approved"
BY DEF Control, Ending, Formed

\* A handler that fails where its checkpoint stands.
LEMMA PausedHere ==
  ASSUME Formed, Control, cp.stage \in Work, cp.flight.stage \in Work, cp' = cp,
         Stepped(open') \subseteq cp.flight.steps, running' \subseteq cp.flight.steps,
         pc' = "pause", IsMem(mem)', ended' = FALSE, worktree' \in BOOLEAN, threw' \in BOOLEAN
  PROVE  Formed' /\ Control'
<1>1. IsCheckpoint(cp) /\ Position(cp)
  BY DEF Formed, Control
<1> QED BY <1>1, PauseReached

-----------------------------------------------------------------------------
(* Where the run is: the gate, a pending update, the work item.            *)

LEMMA PauseControl ==
  ASSUME Formed, Control, PauseGates \/ PauseWrites
  PROVE  Formed' /\ Control'
<1>0. Formed /\ pc \in {"pause", "paused"} /\ UNCHANGED <<worktree, threw, ended>>
  BY DEF PauseGates, PauseWrites, Write, Goto, Rest, disk, log
<1>1. CASE PauseGates
  <2> DEFINE s == NewId
             d == [cp EXCEPT !.stage = "Escalated", !.flight = Pausing(s)]
  <2>1. /\ cp' = d /\ running' = running /\ open' = open \cup {Gate(s, "escalation")}
        /\ pc = "pause" /\ pc' = "paused" /\ mem' = NoMem
    BY <1>1 DEF PauseGates, Write
  <2>2. cp.stage \in Work /\ cp.flight.stage \in Work /\ cp.stage # "Approval"
    BY <2>1 DEF Control, Places, Work
  <2>3. s \in Nat /\ Ids(cp.flight.steps \cup {s})
    BY <2>2, NewIdTyped
  <2>4. /\ IsFlight(Pausing(s)) /\ Pausing(s).stage = cp.flight.stage
        /\ Pausing(s).steps = cp.flight.steps \cup {s}
    BY <2>2, <2>3, FlightTyped DEF Pausing
  <2> HIDE DEF s
  <2>5. /\ d.stage = "Escalated" /\ d.flight = Pausing(s) /\ d.round = cp.round
        /\ d.plan = cp.plan /\ d.answers = cp.answers /\ d.pending = cp.pending
        /\ DOMAIN d = DOMAIN cp
    BY FormedIs
  <2> HIDE DEF d
  <2>6. IsCheckpoint(d)
    BY <2>4, <2>5, FormedIs DEF IsCheckpoint, Stages
  <2>7. Position(d)
    BY <2>2, <2>4, <2>5 DEF Control, Position, At, Early, Work
  <2>8. Owned(cp, running, open)'
    BY <2>1, <2>2, <2>4, <2>5, AtWork, GatesClosed, OwnedBy
  <2>9. Places' /\ Ending'
    BY <1>0, <2>1, <2>2, <2>5, NotOver DEF Places, Ending, Engine, Reviewing
  <2> QED BY <1>0, <2>1, <2>6, <2>7, <2>8, <2>9, NothingTyped DEF Control, Formed
<1>2. CASE PauseWrites
  <2>1. /\ UNCHANGED <<cp, running, open>> /\ pc = "paused" /\ pc' = "idle" /\ mem' = NoMem
    BY <1>2 DEF PauseWrites, Goto, log
  <2>2. cp.stage = "Escalated"
    BY <2>1 DEF Control, Places
  <2>3. Places' /\ Ending'
    BY <1>0, <2>1, <2>2, NotOver DEF Places, Ending, Engine, Reviewing
  <2> QED BY <1>0, <2>1, <2>3, NothingTyped DEF Control, Formed
<1> QED BY <1>1, <1>2

\* The marker of an operation: its stage and its steps.
LEMMA MarkIs ==
  ASSUME Formed, Control, NEW stage \in Work, NEW ids, Ids(ids), NEW where, NEW m,
         Mark(stage, ids, where, m),
         ("Revise" = stage => cp.round < MaxRounds), Early(cp) <=> stage \in {"ResolveWorkItem", "Plan"},
         cp.stage \in Work
  PROVE  /\ IsCheckpoint(cp') /\ Position(cp') /\ cp'.stage = stage
         /\ cp'.flight.stage = stage /\ cp'.flight.steps = ids
         /\ pc' = where /\ mem' = m /\ UNCHANGED <<running, open, ended>>
<1> DEFINE f == Flight(stage, ids)
           d == [cp EXCEPT !.stage = stage, !.flight = f]
<1>1. /\ cp' = d /\ UNCHANGED <<running, open, ended>> /\ pc' = where /\ mem' = m
  BY DEF Mark, Write
<1>2. IsFlight(f) /\ f.stage = stage /\ f.steps = ids
  BY FlightTyped
<1> HIDE DEF f
<1>3. /\ d.stage = stage /\ d.flight = f /\ d.round = cp.round /\ d.plan = cp.plan
      /\ d.answers = cp.answers /\ d.pending = cp.pending /\ DOMAIN d = DOMAIN cp
  BY FormedIs
<1> HIDE DEF d
<1>4. IsCheckpoint(d)
  BY <1>2, <1>3, FormedIs DEF IsCheckpoint, Stages, Work
<1>5. Position(d)
  BY <1>2, <1>3 DEF Control, Position, At, Early, Work
<1> QED BY <1>1, <1>2, <1>3, <1>4, <1>5

\* The versions a checkpoint names.
LEMMA NamedIs ==
  ASSUME IInv, NEW i \in {cp.plan, cp.pending.result}, i # 0
  PROVE  /\ i \in 1..Len(versions) /\ versions[i] \in Versions /\ versions[i].md \in Contents
         /\ versions[i].answers \subseteq Questions /\ versions[i].asks \subseteq Questions
         /\ Saved(versions[i].md)
<1>1. versions \in Seq(Versions) /\ cp.plan \in Nat /\ cp.pending.result \in Nat
  BY FormedIs, UpdateIs DEF IInv, Types, Contained
<1>2. i \in 1..Len(versions)
  BY <1>1, LenProperties DEF IInv, Books, Named
<1> QED BY <1>1, <1>2, VersionIs

LEMMA UpdateControl ==
  ASSUME IInv, UpdateWrites \/ UpdateApplied
  PROVE  Formed' /\ Control'
<1> USE DEF IInv, Types
<1>0. /\ pc \in {"update", "applied"} /\ UNCHANGED <<worktree, threw>>
      /\ cp.stage \in Work
      /\ cp.stage # "Approval" /\ cp.stage # "Escalated"
      /\ cp.flight.stage = "none" /\ cp.pending.result # 0 /\ cp.pending # NoUpdate
  <2>1. pc \in {"update", "applied"} /\ UNCHANGED <<worktree, threw>>
    BY DEF UpdateWrites, UpdateApplied, Rest, disk
  <2>2. cp.stage \in Work /\ cp.flight.stage = "none" /\ cp.pending.result # 0
    BY <2>1 DEF Control, Places
  <2> QED BY <2>1, <2>2, UpdateIs, FormedIs DEF Work
<1>a. ~Early(cp)
  BY <1>0 DEF Control, Position
<1>b. cp.flight.steps = {} /\ running = {} /\ open = {}
  <2>1. cp.flight.steps = {}
    BY <1>0, FormedIs DEF IsFlight
  <2> QED BY <2>1, <1>0, AtWork DEF Stepped
<1>1. CASE UpdateWrites
  <2>1. CASE Goto("applied", NoMem)
    <3>1. /\ UNCHANGED <<cp, running, open, ended>> /\ pc' = "applied" /\ mem' = NoMem
      BY <2>1 DEF Goto, log
    <3>2. Places' /\ Ending'
      BY <1>0, <3>1, NotOver DEF Places, Ending, Engine, Reviewing
    <3> QED BY <1>0, <3>1, <3>2, NothingTyped DEF Control, Formed
  <2>2. CASE Mark("PlanReview", {NewId}, "pause", NoMem)
    <3>1. /\ IsCheckpoint(cp') /\ Position(cp') /\ cp'.stage = "PlanReview"
          /\ cp'.flight.stage = "PlanReview" /\ cp'.flight.steps = {NewId}
          /\ pc' = "pause" /\ mem' = NoMem /\ UNCHANGED <<running, open, ended>>
      BY <1>0, <1>a, <2>2, NewIdTyped, MarkIs DEF Work
    <3>2. Owned(cp, running, open)'
      BY <1>b, <3>1, NothingOwned
    <3>3. Places' /\ Ending'
      BY <1>0, <3>1, NotOver DEF Places, Ending, Engine, Reviewing, Work
    <3> QED BY <1>0, <3>1, <3>2, <3>3, NothingTyped DEF Control, Formed
  <2> QED BY <1>1, <2>1, <2>2 DEF UpdateWrites
<1>2. CASE UpdateApplied
  <2> DEFINE v == versions[cp.pending.result]
             d == Applied(v)
  <2>1. v \in Versions /\ v.md \in Contents /\ v.answers \subseteq Questions
    BY <1>0, NamedIs
  <2>2. /\ cp' = d /\ UNCHANGED <<running, open, ended>> /\ pc' = Loop(d) /\ mem' = NoMem
    BY <1>2 DEF UpdateApplied, Write
  <2> HIDE DEF v
  <2>3. /\ d.stage = cp.stage /\ d.flight = cp.flight /\ d.round = cp.round
        /\ d.plan = cp.pending.result /\ d.answers = v.answers
        /\ d.pending = [cp.pending EXCEPT !.expected = v.md] /\ DOMAIN d = DOMAIN cp
    BY FormedIs DEF Applied
  <2> HIDE DEF d
  <2>4. IsUpdate(d.pending) /\ d.pending.result = cp.pending.result /\ d.pending # NoUpdate
    BY <1>0, <2>1, <2>3, FormedIs, NothingTyped DEF IsUpdate, Updates
  <2>5. IsCheckpoint(d)
    BY <2>1, <2>3, <2>4, FormedIs, UpdateIs DEF IsCheckpoint
  <2>6. Position(d)
    BY <1>0, <1>a, <2>3, <2>4 DEF Control, Position, At, Early, Work
  <2>7. d.stage \in Work /\ d.flight.stage = "none" /\ ended' = FALSE
    BY <1>0, <2>2, <2>3, NotOver
  <2> QED BY <1>0, <1>b, <2>2, <2>5, <2>6, <2>7, HeadReached DEF Formed
<1> QED BY <1>1, <1>2

-----------------------------------------------------------------------------
(* Where the run is: the work item and the drafts.                         *)

\* What Places says of an operation in flight before the review.
LEMMA Drafting ==
  ASSUME Formed, Control, pc \in {"resolve", "begun", "resolving", "resolved", "draft", "drafting",
                                  "writing", "drafted"}
  PROVE  /\ cp.stage \in {"ResolveWorkItem", "Plan", "Revise"} /\ cp.stage \in Work
         /\ cp.stage # "Approval" /\ cp.stage # "Escalated" /\ ended = FALSE /\ open = {}
         /\ running \subseteq cp.flight.steps
         /\ pc \in {"resolve", "draft"} => cp.flight.stage = "none" /\ cp.flight.steps = {}
         /\ pc \notin {"resolve", "draft"} => cp.flight.stage = cp.stage
         /\ pc \in {"resolve", "begun", "resolving", "resolved"} => cp.stage = "ResolveWorkItem"
         /\ pc \in {"draft", "drafting", "writing", "drafted"} => cp.stage \in {"Plan", "Revise"}
         /\ pc \in {"drafting", "writing", "drafted"} => \E x \in Nat : cp.flight.steps = {x}
         /\ pc \in {"begun", "drafting", "drafted"} => running = {}
         /\ cp.stage = "Revise" => cp.round < MaxRounds /\ cp.plan # 0
         /\ cp.stage # "Revise" => cp.round = 0 /\ cp.plan = 0 /\ cp.pending = NoUpdate
<1>1. /\ cp.stage \in {"ResolveWorkItem", "Plan", "Revise"}
      /\ pc \in {"resolve", "draft"} => cp.flight.stage = "none"
      /\ pc \notin {"resolve", "draft"} => cp.flight.stage = cp.stage /\ open = {}
      /\ pc \in {"resolve", "begun", "resolving", "resolved"} => cp.stage = "ResolveWorkItem"
      /\ pc \in {"draft", "drafting", "writing", "drafted"} => cp.stage \in {"Plan", "Revise"}
      /\ pc \in {"drafting", "writing", "drafted"} => \E x \in Nat : cp.flight.steps = {x}
      /\ pc \in {"begun", "drafting", "drafted"} => running = {}
  BY DEF Control, Places
<1>2. cp.stage \in Work /\ cp.stage # "Approval" /\ cp.stage # "Escalated" /\ ended = FALSE
  BY <1>1, NotOver DEF Work
<1>3. pc \in {"resolve", "draft"} => cp.flight.steps = {}
  BY <1>1, FormedIs DEF IsFlight
<1>4. open = {} /\ running \subseteq cp.flight.steps
  BY <1>1, <1>2, <1>3, AtWork DEF Stepped
<1>5. /\ cp.stage = "Revise" => cp.round < MaxRounds /\ cp.plan # 0
      /\ cp.stage # "Revise" => cp.round = 0 /\ cp.plan = 0 /\ cp.pending = NoUpdate
  BY <1>1, <1>2 DEF Control, Position, Early, At
<1> QED BY <1>1, <1>2, <1>3, <1>4, <1>5

LEMMA MarkedControl ==
  ASSUME Formed, Control, ResolveMarked \/ DraftMarked
  PROVE  Formed' /\ Control'
<1>1. /\ pc \in {"resolve", "draft"} /\ UNCHANGED <<worktree, threw>>
      /\ pc = "resolve" => Mark("ResolveWorkItem", {NewId}, "begun", NoMem)
      /\ pc = "draft" => Mark(cp.stage, {NewId}, "drafting", NoMem)
  BY DEF ResolveMarked, DraftMarked, Rest, disk
<1>2. cp.stage \in Work /\ cp.stage # "Approval" /\ open = {} /\ running = {} /\ ended = FALSE
  BY <1>1, Drafting
<1>3. NewId \in Nat /\ Ids({NewId})
  BY <1>2, NewIdTyped
<1>4. cp.stage = "Revise" => cp.round < MaxRounds
  BY <1>1, Drafting
<1>5. Early(cp) <=> cp.stage \in {"ResolveWorkItem", "Plan"}
  BY <1>2 DEF Early, At, Work
<1>6. Mark(cp.stage, {NewId}, pc', NoMem) /\ pc' = IF pc = "resolve" THEN "begun" ELSE "drafting"
  BY <1>1, Drafting DEF Mark, Write
<1>7. /\ IsCheckpoint(cp') /\ Position(cp') /\ cp'.stage = cp.stage
      /\ cp'.flight.stage = cp.stage /\ cp'.flight.steps = {NewId}
      /\ mem' = NoMem /\ UNCHANGED <<running, open, ended>>
  BY <1>2, <1>3, <1>4, <1>5, <1>6, MarkIs
<1>8. Owned(cp, running, open)'
  BY <1>2, <1>7, NothingOwned
<1>9. Places' /\ Ending'
  BY <1>1, <1>2, <1>3, <1>6, <1>7, Drafting DEF Places, Ending, Engine, Reviewing, Work
<1> QED BY <1>1, <1>7, <1>8, <1>9, NothingTyped DEF Control, Formed

\* The step of the operation starts.
LEMMA StartedControl ==
  ASSUME Formed, Control, ResolveStarts \/ DraftStarts
  PROVE  Formed' /\ Control'
<1>1. /\ pc \in {"begun", "drafting"} /\ UNCHANGED <<worktree, threw, cp, open, ended>> /\ mem' = NoMem
      /\ \/ /\ pc' = IF pc = "begun" THEN "resolving" ELSE "writing"
            /\ running' = running \cup cp.flight.steps
         \/ pc = "drafting" /\ pc' = "pause" /\ running' = running
  BY DEF ResolveStarts, DraftStarts, Rest, disk, Write, Goto, log
<1>2. Owned(cp, running, open)'
  BY <1>1, Drafting, OwnedBy, GatesClosed
<1>3. Places' /\ Ending'
  BY <1>1, Drafting DEF Places, Ending, Engine, Reviewing, Work
<1> QED BY <1>1, <1>2, <1>3, NothingTyped DEF Control, Formed

LEMMA ResolvedControl ==
  ASSUME Formed, Control, WorktreeCreated \/ Resolved
  PROVE  Formed' /\ Control'
<1>0. /\ pc \in {"resolving", "resolved"} /\ UNCHANGED threw /\ worktree' \in BOOLEAN
  BY DEF WorktreeCreated, Resolved, Rest, disk, Formed
<1>1. CASE Goto("resolved", NoMem)
  <2>1. UNCHANGED <<cp, running, open, ended>> /\ pc' = "resolved" /\ mem' = NoMem
    BY <1>1 DEF Goto, log
  <2>2. Places' /\ Ending'
    BY <1>0, <2>1, Drafting DEF Places, Ending, Engine, Reviewing
  <2> QED BY <1>0, <2>1, <2>2, NothingTyped DEF Control, Formed
<1>2. CASE ResolveFails
  <2>1. /\ UNCHANGED <<cp, open, ended>> /\ running' = running \ cp.flight.steps
        /\ pc' = "pause" /\ mem' = NoMem
    BY <1>2 DEF ResolveFails, Write
  <2>2. /\ Stepped(open') \subseteq cp.flight.steps /\ running' \subseteq cp.flight.steps
        /\ cp.flight.stage \in Work /\ cp.stage \in Work
    BY <1>0, <2>1, Drafting, GatesClosed
  <2> QED BY <1>0, <2>1, <2>2, Drafting, PausedHere, NothingTyped DEF Formed
<1>3. ASSUME pc = "resolved",
             LET next == [cp EXCEPT !.stage = "Plan", !.flight = NoFlight]
             IN  Write(next, <<>>, running \ cp.flight.steps, open, Loop(next), NoMem)
      PROVE  Formed' /\ Control'
  <2> DEFINE d == [cp EXCEPT !.stage = "Plan", !.flight = NoFlight]
  <2>1. /\ cp' = d /\ UNCHANGED <<open, ended>> /\ running' = running \ cp.flight.steps
        /\ pc' = Loop(d) /\ mem' = NoMem
    BY <1>3 DEF Write
  <2>2. /\ d.stage = "Plan" /\ d.flight = NoFlight /\ d.round = cp.round /\ d.plan = cp.plan
        /\ d.answers = cp.answers /\ d.pending = cp.pending /\ DOMAIN d = DOMAIN cp
    BY FormedIs
  <2> HIDE DEF d
  <2>3. IsCheckpoint(d)
    BY <2>2, FormedIs, NothingTyped DEF IsCheckpoint, Stages
  <2>4. Position(d)
    BY <1>0, <2>2, Drafting, NothingTyped DEF Position, At, Early, Work
  <2>5. running' = {} /\ open' = {} /\ ended' = FALSE
    BY <1>0, <2>1, Drafting
  <2>6. d.stage \in Work /\ d.flight.stage = "none"
    BY <2>2, NothingTyped DEF Work
  <2> QED BY <1>0, <2>1, <2>3, <2>4, <2>5, <2>6, HeadReached DEF Formed
<1> QED BY <1>1, <1>2, <1>3 DEF WorktreeCreated, Resolved

LEMMA DraftEndsControl ==
  ASSUME Formed, Control, DraftEnds
  PROVE  Formed' /\ Control'
<1>0. /\ pc = "writing" /\ UNCHANGED <<threw, worktree>>
  BY DEF DraftEnds, Rest, disk
<1>1. CASE Write(cp, <<>>, running \ cp.flight.steps, open, "drafted", NoMem)
  <2>1. /\ UNCHANGED <<cp, open, ended>> /\ running' = running \ cp.flight.steps
        /\ pc' = "drafted" /\ mem' = NoMem
    BY <1>1 DEF Write
  <2>2. running' = {} /\ Owned(cp, running, open)'
    BY <1>0, <2>1, Drafting, NothingOwned
  <2>3. Places' /\ Ending'
    BY <1>0, <2>1, <2>2, Drafting DEF Places, Ending, Engine, Reviewing
  <2> QED BY <1>0, <2>1, <2>2, <2>3, NothingTyped DEF Control, Formed
<1>2. CASE /\ StepFails(Min(cp.flight.steps))
           /\ pc' = "pause" /\ UNCHANGED <<cp, versions, ended, mem>>
  <2>1. PICK x \in Nat : cp.flight.steps = {x}
    BY <1>0, Drafting
  <2>2. Min(cp.flight.steps) = x
    <3>1. \A y \in {x} : x =< y
      BY <2>1
    <3> QED BY <2>1, <3>1 DEF Min
  <2>3. /\ open' \in {open, open \cup {Gate(x, "escalation")}}
        /\ running' \in {running, running \ {x}}
    BY <1>2, <2>2 DEF StepFails
  <2>4. Stepped(open') \subseteq cp.flight.steps /\ running' \subseteq cp.flight.steps
    <3>1. open = {} /\ running \subseteq cp.flight.steps
      BY <1>0, Drafting
    <3>2. Stepped(open) = {} /\ Stepped(open \cup {Gate(x, "escalation")}) = {x}
      BY <3>1, GatesClosed
    <3>3. Stepped(open') \subseteq {x}
      BY <2>3, <3>2
    <3> QED BY <2>1, <2>3, <3>1, <3>3
  <2>5. cp.flight.stage \in Work /\ cp.stage \in Work
    BY <1>0, Drafting
  <2> QED BY <1>0, <1>2, <2>4, <2>5, Drafting, PausedHere DEF Formed
<1> QED BY <1>1, <1>2 DEF DraftEnds

LEMMA NextTextIs ==
  ASSUME texts \in 0..MaxTexts
  PROVE  NextText \in 0..MaxTexts /\ texts <= NextText
<1>1. texts \in Nat /\ MaxTexts \in Nat /\ texts <= MaxTexts
  BY PlanningAssumption
<1>2. \E x \in {texts + 1, MaxTexts} : \A y \in {texts + 1, MaxTexts} : x =< y
  BY <1>1
<1>3. /\ NextText \in {texts + 1, MaxTexts} /\ NextText =< texts + 1 /\ NextText =< MaxTexts
  BY <1>2 DEF NextText, Min
<1> QED BY <1>1, <1>3

\* What Drafted writes: the version and the checkpoint.
DraftVersion(asks) ==
  LET md == Content(NextText, {})
  IN  Version("agent", IF Updating THEN Rendered(md, cp.answers) ELSE md, cp.answers, asks)
DraftCheckpoint(unreconciled) ==
  LET n == Len(versions) + 1
  IN  [cp EXCEPT !.stage = "PlanReview",
                 !.plan = IF Updating THEN @ ELSE n,
                 !.pending.result = IF Updating THEN n ELSE 0,
                 !.round = DraftRound(unreconciled),
                 !.flight = IF unreconciled THEN Flight("Revise", @.steps)
                            ELSE NoFlight]

LEMMA DraftVersionIs ==
  ASSUME IInv, NEW asks \in SUBSET Questions
  PROVE  LET v == DraftVersion(asks)
         IN  /\ v \in Versions /\ v.md.text = NextText /\ v.answers = cp.answers
             /\ <<v>> \in Seq(Versions) /\ Len(<<v>>) = 1 /\ <<v>>[1] = v
<1> DEFINE md == Content(NextText, {})
           mmd == IF Updating THEN Rendered(md, cp.answers) ELSE md
<1>1. md \in Contents /\ md.text = NextText
  BY NextTextIs DEF Content, Contents, IInv, Types, Contained
<1>2. cp.answers \in SUBSET Questions
  BY FormedIs DEF IInv, Types
<1>3. mmd \in Contents /\ mmd.text = NextText
  BY <1>1, <1>2, RenderedTyped
<1> QED BY <1>2, <1>3, VersionTyped, OneVersion DEF DraftVersion

LEMMA DraftCheckpointIs ==
  ASSUME Formed, Control, pc = "drafted", versions \in Seq(Versions),
         NEW un \in BOOLEAN, un => cp.stage = "Revise"
  PROVE  LET d == DraftCheckpoint(un)
             n == Len(versions) + 1
         IN  /\ IsCheckpoint(d) /\ Position(d) /\ d.stage = "PlanReview" /\ d.answers = cp.answers
             /\ d.flight.steps = IF un THEN cp.flight.steps ELSE {}
             /\ d.flight.stage = IF un THEN "Revise" ELSE "none"
             /\ d.plan = IF Updating THEN cp.plan ELSE n
             /\ d.pending.result = IF Updating THEN n ELSE 0
             /\ d.pending.expected = cp.pending.expected
             /\ d.pending = NoUpdate <=> ~Updating
             /\ n \in Nat \ {0}
<1> DEFINE d == DraftCheckpoint(un)
           n == Len(versions) + 1
           f == IF un THEN Flight("Revise", cp.flight.steps) ELSE NoFlight
           u == [cp.pending EXCEPT !.result = IF Updating THEN n ELSE 0]
           p == IF Updating THEN cp.plan ELSE n
           r == DraftRound(un)
<1>1. n \in Nat \ {0}
  BY LenProperties
<1>2. /\ DOMAIN d = DOMAIN cp /\ d.stage = "PlanReview" /\ d.answers = cp.answers
      /\ d.flight = f /\ d.plan = p /\ d.round = r /\ d.pending = u
  BY FormedIs DEF DraftCheckpoint
<1>3. /\ IsFlight(f) /\ f.stage = IF un THEN "Revise" ELSE "none"
      /\ f.steps = IF un THEN cp.flight.steps ELSE {}
  BY ZenonT(60), FormedIs, FlightIs, FlightTyped, NothingTyped DEF Work
<1>4. /\ IsUpdate(u) /\ u.result = IF Updating THEN n ELSE 0
      /\ u.expected = cp.pending.expected /\ (u = NoUpdate <=> ~Updating)
  <2>1. cp.pending \in Updates /\ (cp.pending.kind = "none" <=> ~Updating)
    BY FormedIs, UpdateIs DEF IsUpdate, Updating
  <2>2. /\ u \in Updates /\ u.kind = cp.pending.kind /\ u.expected = cp.pending.expected
        /\ u.result = IF Updating THEN n ELSE 0
    BY <1>1, <2>1 DEF Updates
  <2>3. ~Updating => u = NoUpdate
    BY <2>1 DEF Updating, NoUpdate
  <2> QED BY <2>1, <2>2, <2>3, NothingTyped DEF IsUpdate
<1>5. /\ r \in Nat /\ r <= MaxRounds /\ (un => r < MaxRounds)
  BY FormedIs, Drafting DEF DraftRound
<1>6. p \in Nat /\ p # 0
  BY <1>1, FormedIs, Drafting DEF Updating
<1> HIDE DEF d, n, f, u, p, r
<1>7. IsCheckpoint(d)
  BY <1>2, <1>3, <1>4, <1>5, <1>6, FormedIs DEF IsCheckpoint, Stages
<1>8. Position(d)
  BY <1>2, <1>3, <1>5, <1>6 DEF Position, At, Early, Work
<1> QED BY <1>1, <1>2, <1>3, <1>4, <1>6, <1>7, <1>8 DEF d, n, p

LEMMA DraftedIs ==
  ASSUME Drafted
  PROVE  /\ pc = "drafted" /\ texts' = NextText /\ UNCHANGED <<file, worktree, threw>>
         /\ \E un \in BOOLEAN, asks \in SUBSET Questions :
              /\ un => cp.stage = "Revise"
              /\ Write(DraftCheckpoint(un), <<DraftVersion(asks)>>, running, open,
                       IF un THEN "pause" ELSE Loop(DraftCheckpoint(un)), NoMem)
<1>1. /\ pc = "drafted" /\ texts' = NextText /\ UNCHANGED <<file, worktree, threw>>
  BY DEF Drafted, disk
<1>2. \E un \in IF cp.stage = "Revise" THEN BOOLEAN ELSE {FALSE}, asks \in SUBSET Questions :
        Write(DraftCheckpoint(un), <<DraftVersion(asks)>>, running, open,
              IF un THEN "pause" ELSE Loop(DraftCheckpoint(un)), NoMem)
  BY Zenon DEF Drafted, DraftVersion, DraftCheckpoint
<1>3. PICK un \in IF cp.stage = "Revise" THEN BOOLEAN ELSE {FALSE}, asks \in SUBSET Questions :
        Write(DraftCheckpoint(un), <<DraftVersion(asks)>>, running, open,
              IF un THEN "pause" ELSE Loop(DraftCheckpoint(un)), NoMem)
  BY <1>2
<1>4. un \in BOOLEAN /\ (un => cp.stage = "Revise")
  OBVIOUS
<1> QED BY <1>1, <1>3, <1>4

LEMMA DraftedControl ==
  ASSUME IInv, Drafted
  PROVE  Formed' /\ Control'
<1> USE DEF IInv, Types, Contained
<1>1. /\ pc = "drafted" /\ UNCHANGED <<worktree, threw>>
  BY DraftedIs
<1>2. PICK un \in BOOLEAN, asks \in SUBSET Questions :
        /\ un => cp.stage = "Revise"
        /\ Write(DraftCheckpoint(un), <<DraftVersion(asks)>>, running, open,
                 IF un THEN "pause" ELSE Loop(DraftCheckpoint(un)), NoMem)
  BY DraftedIs
<1> DEFINE d == DraftCheckpoint(un)
<1>3. /\ IsCheckpoint(d) /\ Position(d) /\ d.stage = "PlanReview"
      /\ d.flight.steps = IF un THEN cp.flight.steps ELSE {}
      /\ d.flight.stage = IF un THEN "Revise" ELSE "none"
  BY <1>1, <1>2, DraftCheckpointIs
<1>4. /\ cp' = d /\ UNCHANGED <<running, open, ended>> /\ mem' = NoMem
      /\ pc' = IF un THEN "pause" ELSE Loop(d)
  BY <1>2 DEF Write
<1> HIDE DEF d
<1>5. running' = {} /\ open' = {} /\ Stepped(open') = {} /\ ended' = FALSE
  BY <1>1, <1>4, Drafting, GatesClosed
<1>6. d.stage \in Work /\ (un => d.flight.stage \in Work)
  BY <1>3 DEF Work
<1> QED BY <1>1, <1>3, <1>4, <1>5, <1>6, PauseReached, HeadReached, NothingTyped DEF Formed

-----------------------------------------------------------------------------
(* Where the run is: the review.                                           *)

LEMMA ReviewIs ==
  ASSUME Formed, Control, pc \in Reviewing
  PROVE  /\ cp.stage = "PlanReview" /\ cp.flight.stage = "PlanReview" /\ cp.plan # 0
         /\ mem.todo \subseteq cp.flight.steps /\ running \subseteq cp.flight.steps
         /\ Stepped(open) \subseteq cp.flight.steps
         /\ ~mem.unchecked => open = {}
         /\ pc = "verifier" /\ ~mem.unchecked =>
              running \subseteq Verifier /\ mem.todo \subseteq Verifier
         /\ pc = "decide" /\ ~mem.unchecked => running = {}
         /\ pc \in {"approving", "asking"} => open = {} /\ running = {}
         /\ ended = FALSE /\ cp.stage \in Work
<1>1. cp.stage = "PlanReview" /\ cp.flight.stage = "PlanReview"
  BY DEF Control, Places
<1>2. cp.plan # 0
  BY <1>1 DEF Control, Position, Early, At
<1>3. pc \notin {"idle", "down"}
  BY DEF Reviewing
<1>4. ended = FALSE
  BY <1>3, NotOver
<1>5. Stepped(open) \subseteq cp.flight.steps /\ running \subseteq cp.flight.steps
  BY <1>1, AtWork
<1> QED BY <1>1, <1>2, <1>4, <1>5 DEF Control, Places, Work

\* A step of the review that leaves its checkpoint where it is.
LEMMA ReviewKept ==
  ASSUME Formed, Control, pc \in Reviewing, pc' \in Reviewing,
         UNCHANGED <<cp, ended, worktree, threw>>, IsMem(mem)',
         mem'.todo \subseteq cp.flight.steps, running' \subseteq cp.flight.steps,
         Stepped(open') \subseteq cp.flight.steps,
         ~mem'.unchecked => open' = {},
         pc' = "verifier" /\ ~mem'.unchecked => running' \subseteq Verifier /\ mem'.todo \subseteq Verifier,
         pc' = "decide" /\ ~mem'.unchecked => running' = {},
         pc' \in {"approving", "asking"} => open' = {} /\ running' = {}
  PROVE  Formed' /\ Control'
<1>1. Owned(cp, running, open)'
  BY ReviewIs, OwnedBy
<1>2. Verifier' = Verifier
  BY DEF Verifier
<1>3. Places' /\ Ending'
  BY <1>2, ReviewIs DEF Places, Ending, Engine, Reviewing
<1> QED BY <1>1, <1>3 DEF Formed, Control

LEMMA ReviewMarkedControl ==
  ASSUME Formed, Control, ReviewMarked
  PROVE  Formed' /\ Control'
<1> DEFINE ids == NewIds(Lenses + 1)
           m == [NoMem EXCEPT !.todo = ids]
<1>1. /\ pc = "review" /\ UNCHANGED <<worktree, threw>> /\ Mark("PlanReview", ids, "lenses", m)
  BY DEF ReviewMarked, Rest, disk
<1>2. cp.stage = "PlanReview" /\ cp.flight.stage = "none" /\ ended = FALSE
  BY <1>1, NotOver DEF Control, Places
<1>3. cp.flight.steps = {} /\ running = {} /\ open = {}
  <2>1. cp.flight.steps = {}
    BY <1>2, FormedIs DEF IsFlight
  <2> QED BY <2>1, <1>2, AtWork DEF Stepped
<1>4. Ids(ids)
  BY <1>2, NewIdsTyped, PlanningAssumption
<1>5. m.todo = ids /\ m.unchecked = FALSE /\ IsMem(m)
  BY DEF NoMem, IsMem
<1> HIDE DEF ids, m
<1>6. Early(cp) <=> cp.stage \in {"ResolveWorkItem", "Plan"}
  BY <1>2 DEF Early, At
<1>7. /\ IsCheckpoint(cp') /\ Position(cp') /\ cp'.stage = "PlanReview"
      /\ cp'.flight.stage = "PlanReview" /\ cp'.flight.steps = ids
      /\ pc' = "lenses" /\ mem' = m /\ UNCHANGED <<running, open, ended>>
  BY <1>1, <1>2, <1>4, <1>6, MarkIs DEF Work
<1>8. Owned(cp, running, open)'
  BY <1>3, <1>7, NothingOwned
<1>9. Places' /\ Ending'
  BY <1>2, <1>3, <1>5, <1>7 DEF Places, Ending, Engine, Reviewing, Work
<1> QED BY <1>1, <1>5, <1>7, <1>8, <1>9 DEF Control, Formed

LEMMA ReviewStepControl ==
  ASSUME Formed, Control, NEW s \in cp.flight.steps,
         ReviewStepStarts(s) \/ ReviewStepUnborn(s)
  PROVE  Formed' /\ Control'
<1>0. /\ pc \in {"lenses", "verifier"} /\ pc \in Reviewing /\ s \in Turn /\ s \in mem.todo
      /\ UNCHANGED <<worktree, threw>>
  BY DEF ReviewStepStarts, ReviewStepUnborn, Rest, disk, Reviewing
<1>1. CASE ReviewStepStarts(s)
  <2> DEFINE m == [mem EXCEPT !.todo = @ \ {s}]
  <2>1. /\ UNCHANGED <<cp, open, ended>> /\ running' = running \cup {s} /\ pc' = pc /\ mem' = m
    BY <1>1 DEF ReviewStepStarts, Write
  <2>2. m.todo = mem.todo \ {s} /\ m.unchecked = mem.unchecked /\ IsMem(m)
    BY DEF Formed, IsMem
  <2> HIDE DEF m
  <2>3. pc = "verifier" => s \in Verifier
    BY <1>0 DEF Turn
  <2>4. pc # "decide" /\ pc \notin {"approving", "asking"}
    BY <1>0
  <2> QED BY <1>0, <2>1, <2>2, <2>3, <2>4, ReviewIs, ReviewKept
<1>2. CASE ReviewStepUnborn(s) /\ pc = "verifier"
  <2>1. UNCHANGED <<cp, running, open, ended>> /\ pc' = "pause" /\ mem' = NoMem
    BY <1>2 DEF ReviewStepUnborn, Goto, log
  <2>2. cp.stage \in Work /\ cp.flight.stage \in Work /\ ended = FALSE
    BY <1>0, ReviewIs
  <2> QED BY <1>0, <2>1, <2>2, ReviewIs, PausedHere, NothingTyped DEF Formed
<1>3. CASE ReviewStepUnborn(s) /\ pc = "lenses"
  <2> DEFINE m == [mem EXCEPT !.todo = @ \ {s}, !.unchecked = TRUE]
  <2>1. /\ UNCHANGED <<cp, running, open, ended>> /\ mem' = m
        /\ pc' = AfterTurn((mem.todo \ {s}) \cup running)
    BY <1>3 DEF ReviewStepUnborn, Goto, log
  <2>2. m.todo = mem.todo \ {s} /\ m.unchecked = TRUE /\ IsMem(m)
    BY DEF Formed, IsMem
  <2> HIDE DEF m
  <2>3. pc' \in {"lenses", "verifier"}
    BY <1>3, <2>1 DEF AfterTurn
  <2>4. pc' \in Reviewing /\ pc' # "decide" /\ pc' \notin {"approving", "asking"}
    BY <2>3 DEF Reviewing
  <2> QED BY <1>0, <2>1, <2>2, <2>4, ReviewIs, ReviewKept
<1> QED BY <1>0, <1>1, <1>2, <1>3

LEMMA ReviewEndsControl ==
  ASSUME Formed, Control, NEW s \in cp.flight.steps, ReviewStepEnds(s)
  PROVE  Formed' /\ Control'
<1> DEFINE left == mem.todo \cup (running \ {s})
<1>0. /\ pc \in {"lenses", "verifier"} /\ pc \in Reviewing /\ s \in Turn /\ s \in running
      /\ UNCHANGED <<worktree, threw, cp, ended>> /\ pc' = AfterTurn(left)
  BY DEF ReviewStepEnds, Rest, disk, Reviewing, Write
<1>1. /\ pc' \in {"lenses", "verifier", "decide"}
      /\ pc' = "lenses" => pc = "lenses"
      /\ pc' = "verifier" /\ pc = "lenses" => (cp.flight.steps \ Verifier) \cap left = {}
      /\ pc' = "decide" => pc = "verifier" /\ Verifier \cap left = {}
  BY <1>0 DEF AfterTurn, Turn
<1>2. pc' \in Reviewing /\ pc' \notin {"approving", "asking"}
  BY <1>1 DEF Reviewing
<1>3. ASSUME NEW res, Write(cp, <<>>, running \ {s}, open, AfterTurn(left), [mem EXCEPT !.res = res])
      PROVE  Formed' /\ Control'
  <2>1. /\ UNCHANGED open /\ running' = running \ {s} /\ mem' = [mem EXCEPT !.res = res]
    BY <1>3 DEF Write
  <2>2. mem'.todo = mem.todo /\ mem'.unchecked = mem.unchecked /\ IsMem(mem')
    BY <2>1 DEF Formed, IsMem
  <2>3. pc' = "verifier" /\ ~mem.unchecked => left \subseteq Verifier
    BY <1>0, <1>1, ReviewIs
  <2>4. pc' = "decide" /\ ~mem.unchecked => left = {}
    BY <1>0, <1>1, ReviewIs
  <2> QED BY <1>0, <1>2, <2>1, <2>2, <2>3, <2>4, ReviewIs, ReviewKept
<1>4. CASE StepFails(s) /\ mem' = [mem EXCEPT !.unchecked = TRUE]
  <2>1. mem'.todo = mem.todo /\ mem'.unchecked = TRUE /\ IsMem(mem')
    BY <1>4 DEF Formed, IsMem
  <2>2. /\ running' \subseteq running
        /\ open' \in {open, open \cup {Gate(s, "escalation")}}
    BY <1>4 DEF StepFails
  <2>3. Stepped(open') \subseteq cp.flight.steps /\ running' \subseteq cp.flight.steps
    BY <1>0, <2>2, ReviewIs, GatesClosed
  <2> QED BY <1>0, <1>2, <2>1, <2>3, ReviewIs, ReviewKept
<1> QED BY <1>3, <1>4 DEF ReviewStepEnds

LEMMA ReviewDecidedControl ==
  ASSUME Formed, Control, ReviewDecided
  PROVE  Formed' /\ Control'
<1>0. /\ pc = "decide" /\ pc \in Reviewing /\ UNCHANGED <<worktree, threw>>
  BY DEF ReviewDecided, Rest, disk, Reviewing
<1>1. CASE Decision = "Escalated"
  <2>1. UNCHANGED <<cp, running, open, ended>> /\ pc' = "pause" /\ mem' = NoMem
    BY <1>1 DEF ReviewDecided, Goto, log
  <2>2. cp.stage \in Work /\ cp.flight.stage \in Work /\ ended = FALSE
    BY <1>0, ReviewIs
  <2> QED BY <1>0, <2>1, <2>2, ReviewIs, PausedHere, NothingTyped DEF Formed
<1>2. ASSUME Decision # "Escalated"
      PROVE  ~mem.unchecked /\ (Decision = "Revise" => cp.round < MaxRounds)
  <2>1. ~mem.unchecked
    BY <1>2 DEF Decision, DecisionWithin
  <2>2. Decision = "Revise" => cp.round < MaxRounds
    BY <1>2, <2>1, FormedIs DEF Decision, DecisionWithin
  <2> QED BY <2>1, <2>2
<1>3. CASE Decision = "Revise"
  <2> DEFINE d == [cp EXCEPT !.stage = "Revise", !.flight = NoFlight]
  <2>1. /\ cp' = d /\ UNCHANGED <<running, open, ended>> /\ pc' = Loop(d) /\ mem' = NoMem
    BY <1>3 DEF ReviewDecided, Write
  <2>2. /\ d.stage = "Revise" /\ d.flight = NoFlight /\ d.round = cp.round /\ d.plan = cp.plan
        /\ d.answers = cp.answers /\ d.pending = cp.pending /\ DOMAIN d = DOMAIN cp
    BY FormedIs
  <2> HIDE DEF d
  <2>3. IsCheckpoint(d)
    BY <2>2, FormedIs, NothingTyped DEF IsCheckpoint, Stages
  <2>4. Position(d)
    BY <1>0, <1>2, <1>3, <2>2, ReviewIs, NothingTyped DEF Position, At, Early, Work
  <2>5. running' = {} /\ open' = {} /\ ended' = FALSE
    BY <1>0, <1>2, <1>3, <2>1, ReviewIs
  <2>6. d.stage \in Work /\ d.flight.stage = "none"
    BY <2>2, NothingTyped DEF Work
  <2> QED BY <1>0, <2>1, <2>3, <2>4, <2>5, <2>6, HeadReached DEF Formed
<1>4. CASE Decision \notin {"Escalated", "Revise"}
  <2>1. UNCHANGED <<cp, running, open, ended>> /\ pc' = "approving" /\ mem' = NoMem
    BY <1>4 DEF ReviewDecided, Goto, log
  <2>2. NoMem.todo = {} /\ NoMem.unchecked = FALSE /\ IsMem(NoMem)
    BY NothingTyped DEF NoMem
  <2>3. pc' \in Reviewing /\ pc' \notin {"verifier", "decide"} /\ open = {} /\ running = {}
    BY <1>0, <1>2, <1>4, <2>1, ReviewIs DEF Reviewing
  <2> QED BY <1>0, <2>1, <2>2, <2>3, ReviewIs, ReviewKept
<1> QED BY <1>1, <1>3, <1>4

LEMMA ApprovalWritesControl ==
  ASSUME Formed, Control, ApprovalWrites
  PROVE  Formed' /\ Control'
<1>0. /\ pc = "approving" /\ pc \in Reviewing /\ UNCHANGED <<worktree, threw>>
      /\ UNCHANGED <<cp, running, open, ended>> /\ pc' \in {"pause", "asking"} /\ mem' = NoMem
  BY DEF ApprovalWrites, Goto, log, Reviewing
<1>1. CASE pc' = "pause"
  <2>1. cp.stage \in Work /\ cp.flight.stage \in Work /\ ended = FALSE
    BY <1>0, ReviewIs
  <2> QED BY <1>0, <1>1, <2>1, ReviewIs, PausedHere, NothingTyped DEF Formed
<1>2. CASE pc' = "asking"
  <2>1. NoMem.todo = {} /\ NoMem.unchecked = FALSE /\ IsMem(NoMem)
    BY NothingTyped DEF NoMem
  <2>2. pc' \in Reviewing /\ pc' \notin {"verifier", "decide"} /\ open = {} /\ running = {}
    BY <1>0, <1>2, ReviewIs DEF Reviewing
  <2> QED BY <1>0, <2>1, <2>2, ReviewIs, ReviewKept
<1> QED BY <1>0, <1>1, <1>2

LEMMA ApprovalAskedControl ==
  ASSUME Formed, Control, ApprovalAsked
  PROVE  Formed' /\ Control'
<1> DEFINE s == NewId
           d == [cp EXCEPT !.stage = "Approval", !.flight = NoFlight, !.pending = NoUpdate]
<1>1. /\ pc = "asking" /\ pc \in Reviewing /\ UNCHANGED <<worktree, threw, ended>>
      /\ cp' = d /\ running' = running \cup {s} /\ open' = open \cup {Gate(s, "approval")}
      /\ pc' = "idle" /\ mem' = NoMem
  BY DEF ApprovalAsked, Write, Rest, disk, Reviewing
<1>2. /\ d.stage = "Approval" /\ d.flight = NoFlight /\ d.round = cp.round /\ d.plan = cp.plan
      /\ d.answers = cp.answers /\ d.pending = NoUpdate /\ DOMAIN d = DOMAIN cp
  BY FormedIs
<1>3. s \in Nat
  BY <1>1, ReviewIs, NewIdTyped
<1> HIDE DEF s, d
<1>4. IsCheckpoint(d)
  BY <1>2, FormedIs, NothingTyped DEF IsCheckpoint, Stages
<1>5. Position(d)
  BY <1>1, <1>2, ReviewIs, NothingTyped DEF Position, At, Early, Work
<1>6. Owned(cp, running, open)'
  <2>1. running' = {s} /\ open' = {Gate(s, "approval")}
    BY <1>1, ReviewIs
  <2> QED BY <1>1, <1>2, <1>3, <2>1 DEF Owned
<1>7. Places' /\ Ending'
  BY <1>1, <1>2, ReviewIs DEF Places, Ending, Engine, Reviewing
<1> QED BY <1>1, <1>4, <1>5, <1>6, <1>7, NothingTyped DEF Control, Formed

-----------------------------------------------------------------------------
(* Where the run is: the commands.                                         *)

LEMMA ApprovalIs ==
  ASSUME Formed, Control, cp.stage = "Approval"
  PROVE  /\ \E s \in Nat : open = {Gate(s, "approval")} /\ running = {s}
         /\ Answered = {} /\ running = GatedSteps /\ AtApproval
         /\ cp.flight.stage = "none" /\ cp.flight.steps = {} /\ cp.flight = NoFlight
         /\ cp.pending = NoUpdate /\ cp.plan # 0 /\ ended = FALSE
<1>1. PICK s \in Nat : open = {Gate(s, "approval")} /\ running = {s}
  BY DEF Control, Owned
<1>2. GatedSteps = {s}
  <2>1. open = {} \cup {Gate(s, "approval")}
    BY <1>1
  <2>2. Stepped(open) = {s}
    BY <2>1, GatesClosed
  <2> QED BY <2>2 DEF GatedSteps, Stepped
<1>3. AtApproval
  BY <1>1 DEF AtApproval, Gate
<1>4. cp.flight.stage = "none" /\ cp.pending = NoUpdate /\ cp.plan # 0
  BY DEF Control, Position, Early, At
<1>5. cp.flight.steps = {} /\ cp.flight = NoFlight
  BY <1>4, FormedIs, FlightIs DEF IsFlight
<1>6. ended = FALSE
  BY DEF Control, Ending, Formed
<1> QED BY <1>1, <1>2, <1>3, <1>4, <1>5, <1>6 DEF Answered

\* A command that writes plan.md, or a step of one that changes nothing of the run.
LEMMA CommandKept ==
  ASSUME Formed, Control, cp.stage \in {"Approval", "Escalated"}, ended = FALSE,
         UNCHANGED <<cp, running, open, ended, threw>>, IsMem(mem)', worktree' \in BOOLEAN,
         pc' \in {"answering", "approving plan", "removing", "idle"},
         pc' = "answering" => cp.plan # 0,
         pc' \in {"approving plan", "removing"} => cp.stage = "Approval",
         pc' = "removing" => worktree' = FALSE
  PROVE  Formed' /\ Control'
<1>1. Places' /\ Ending'
  BY DEF Places, Ending, Commands, Reviewing, Control
<1> QED BY <1>1 DEF Formed, Control

LEMMA AnsweringControl ==
  ASSUME Formed, Control, (\E q \in Questions : AnswerWrites(q)) \/ ApproveWrites \/ ApproveRemoves
  PROVE  Formed' /\ Control'
<1>1. CASE \E q \in Questions : AnswerWrites(q)
  <2>1. /\ UNCHANGED <<cp, running, open, ended, threw, worktree>> /\ pc' = "answering"
        /\ cp.stage \in {"Approval", "Escalated"} /\ cp.plan # 0
        /\ \E saved : mem' = [NoMem EXCEPT !.save = saved]
    BY <1>1 DEF AnswerWrites, Goto, log
  <2>2. IsMem(mem)'
    BY <2>1 DEF NoMem, IsMem
  <2>3. ended = FALSE
    BY <1>1 DEF AnswerWrites, Command, Formed
  <2> QED BY <2>1, <2>2, <2>3, CommandKept DEF Formed
<1>2. CASE ApproveWrites
  <2>1. /\ UNCHANGED <<cp, running, open, ended, threw, worktree>> /\ pc' = "approving plan"
        /\ cp.stage = "Approval"
        /\ \E saved : mem' = [NoMem EXCEPT !.save = saved]
    BY <1>2 DEF ApproveWrites, Approvable, AtApproval, Goto, log
  <2>2. IsMem(mem)'
    BY <2>1 DEF NoMem, IsMem
  <2> QED BY <2>1, <2>2, ApprovalIs, CommandKept DEF Formed
<1>3. CASE ApproveRemoves
  <2>1. /\ UNCHANGED <<cp, running, open, ended, threw, mem>> /\ pc' = "removing"
        /\ pc = "approving plan" /\ worktree' = FALSE
    BY <1>3 DEF ApproveRemoves, Goto, log
  <2>2. cp.stage = "Approval"
    BY <2>1 DEF Control, Places
  <2> QED BY <2>1, <2>2, ApprovalIs, CommandKept DEF Formed
<1> QED BY <1>1, <1>2, <1>3

LEMMA RecordedControl ==
  ASSUME IInv, AnswerRecorded \/ ApproveRecorded
  PROVE  Formed' /\ Control'
<1> USE DEF IInv, Types
<1>n. versions \in Seq(Versions) /\ Len(versions) + 1 \in Nat /\ Len(versions) + 1 # 0
  BY LenProperties DEF Contained
<1>1. CASE AnswerRecorded
  <2>1. PICK v \in mem.save :
          Write([cp EXCEPT !.plan = Len(versions) + 1, !.answers = v.answers], <<v>>,
                running, open, "idle", NoMem)
    BY <1>1 DEF AnswerRecorded
  <2> DEFINE d == [cp EXCEPT !.plan = Len(versions) + 1, !.answers = v.answers]
  <2>2. /\ cp' = d /\ UNCHANGED <<running, open, ended, worktree, threw>> /\ pc' = "idle"
        /\ mem' = NoMem /\ pc = "answering"
    BY <1>1, <2>1 DEF AnswerRecorded, Write, Rest, disk
  <2>3. /\ d.stage = cp.stage /\ d.flight = cp.flight /\ d.round = cp.round
        /\ d.plan = Len(versions) + 1 /\ d.answers = v.answers /\ d.pending = cp.pending
        /\ DOMAIN d = DOMAIN cp
    BY FormedIs
  <2> HIDE DEF d
  <2>4. v.answers \subseteq Questions
    BY DEF Contained, Versions
  <2>5. IsCheckpoint(d)
    BY <1>n, <2>3, <2>4, FormedIs DEF IsCheckpoint
  <2>6. cp.stage \in {"Approval", "Escalated"} /\ ended = FALSE
    BY <2>2, NotOver DEF Control, Places
  <2>7. ~Early(cp)
    BY <2>2 DEF Control, Places, Position
  <2>8. Position(d)
    BY <1>n, <2>3, <2>7 DEF Control, Position, At, Early
  <2>9. Owned(cp, running, open)'
    BY <2>2, <2>3 DEF Control, Owned
  <2>10. Places' /\ Ending'
    BY <2>2, <2>3, <2>6 DEF Places, Ending, Reviewing, Control
  <2> QED BY <2>2, <2>5, <2>8, <2>9, <2>10, NothingTyped DEF Control, Formed
<1>2. CASE ApproveRecorded
  <2> DEFINE d == [cp EXCEPT !.stage = "Approved", !.plan = Len(versions) + 1]
  <2>1. /\ cp' = d /\ running' = Answered /\ open' = {} /\ ended' = TRUE
        /\ UNCHANGED <<worktree, threw>> /\ pc' = "idle" /\ mem' = NoMem /\ pc = "removing"
    BY <1>2 DEF ApproveRecorded, Rest, disk
  <2>2. cp.stage = "Approval" /\ worktree = FALSE
    BY <2>1 DEF Control, Places, Formed
  <2>3. /\ d.stage = "Approved" /\ d.flight = cp.flight /\ d.round = cp.round
        /\ d.plan = Len(versions) + 1 /\ d.answers = cp.answers /\ d.pending = cp.pending
        /\ DOMAIN d = DOMAIN cp
    BY FormedIs
  <2> HIDE DEF d
  <2>4. IsCheckpoint(d)
    BY <1>n, <2>3, FormedIs DEF IsCheckpoint, Stages
  <2>5. Position(d)
    BY <1>n, <2>2, <2>3, ApprovalIs DEF Position, At, Early, Work
  <2>6. Owned(cp, running, open)'
    BY <2>1, <2>2, <2>3, ApprovalIs, NothingOwned
  <2>7. Places' /\ Ending'
    BY <2>1, <2>2, <2>3 DEF Places, Ending, Engine, Reviewing
  <2> QED BY <2>1, <2>2, <2>4, <2>5, <2>6, <2>7, NothingTyped DEF Control, Formed
<1> QED BY <1>1, <1>2

LEMMA RequestChangesControl ==
  ASSUME IInv, RequestChanges
  PROVE  Formed' /\ Control'
<1> USE DEF IInv, Types
<1> DEFINE n == Len(versions) + 1
           d == [cp EXCEPT !.stage = "PlanReview", !.plan = n, !.round = 1]
<1>1. /\ cp' = d /\ running' = Answered /\ open' = {} /\ ended' = ended
      /\ UNCHANGED <<worktree, threw>> /\ pc' = "review" /\ mem' = NoMem /\ cp.stage = "Approval"
  BY DEF RequestChanges, Write, disk, AtApproval
<1>2. n \in Nat /\ n # 0
  BY LenProperties DEF Contained
<1>3. /\ d.stage = "PlanReview" /\ d.flight = cp.flight /\ d.round = 1 /\ d.plan = n
      /\ d.answers = cp.answers /\ d.pending = cp.pending /\ DOMAIN d = DOMAIN cp
  BY FormedIs
<1> HIDE DEF d, n
<1>4. IsCheckpoint(d)
  BY <1>2, <1>3, FormedIs DEF IsCheckpoint, Stages
<1>5. Position(d)
  BY <1>1, <1>2, <1>3, ApprovalIs DEF Position, At, Early, Work
<1>6. Owned(cp, running, open)'
  BY <1>1, <1>3, ApprovalIs, NothingOwned
<1>7. Places' /\ Ending'
  BY <1>1, <1>3, ApprovalIs DEF Places, Ending, Engine, Reviewing
<1> QED BY <1>1, <1>4, <1>5, <1>6, <1>7, NothingTyped DEF Control, Formed

-----------------------------------------------------------------------------
(* An update is accepted.                                                  *)

\* What UpdateAccepted writes.
EditedVersions ==
  IF file = Current.md THEN <<>>
  ELSE <<Version("human", file, cp.answers, Current.asks)>>
RestoredVersions(v) ==
  IF v = 0 THEN <<>>
  ELSE <<Version("restore", versions[v].md, versions[v].answers, versions[v].asks)>>
AcceptedBase == IF EditedVersions = <<>> THEN cp.plan ELSE Len(versions) + 1
AcceptedUpdate(v) ==
  [kind |-> IF v = 0 THEN "prompt" ELSE "restore", base |-> AcceptedBase, expected |-> file,
   result |-> IF v = 0 THEN 0
              ELSE Len(versions) + Len(EditedVersions \o RestoredVersions(v))]
AcceptedCheckpoint(v) ==
  [cp EXCEPT !.stage = IF v = 0 THEN "Revise" ELSE "PlanReview",
             !.plan = AcceptedBase, !.round = 1, !.flight = NoFlight,
             !.pending = AcceptedUpdate(v)]

LEMMA UpdateAcceptedIs ==
  ASSUME NEW v, UpdateAccepted(v)
  PROVE  /\ Command /\ AtApproval /\ UNCHANGED <<file, worktree, threw, texts>>
         /\ Write(AcceptedCheckpoint(v), EditedVersions \o RestoredVersions(v), Answered, {},
                  Loop(AcceptedCheckpoint(v)), NoMem)
<1>1. Command /\ AtApproval /\ UNCHANGED <<file, worktree, threw, texts>>
  BY DEF UpdateAccepted, disk
<1>2. Write(AcceptedCheckpoint(v), EditedVersions \o RestoredVersions(v), Answered, {},
            Loop(AcceptedCheckpoint(v)), NoMem)
  BY Zenon DEF UpdateAccepted, EditedVersions, RestoredVersions, AcceptedBase, AcceptedUpdate,
               AcceptedCheckpoint
<1> QED BY <1>1, <1>2

\* The versions an update records: at most the edited plan.md, then the restored one.
LEMMA AcceptedVersionsAre ==
  ASSUME IInv, cp.stage = "Approval", NEW v \in 0..Len(versions)
  PROVE  /\ EditedVersions \in Seq(Versions) /\ RestoredVersions(v) \in Seq(Versions)
         /\ EditedVersions \o RestoredVersions(v) \in Seq(Versions)
         /\ \/ EditedVersions = <<>> /\ file = Current.md
            \/ /\ Len(EditedVersions) = 1 /\ EditedVersions # <<>>
               /\ EditedVersions[1].md = file /\ EditedVersions[1].answers = cp.answers
         /\ v # 0 => /\ Len(RestoredVersions(v)) = 1
                     /\ RestoredVersions(v)[1].md = versions[v].md
                     /\ RestoredVersions(v)[1].answers = versions[v].answers
<1> USE DEF IInv, Types
<1>1. /\ Current.asks \subseteq Questions /\ cp.answers \subseteq Questions /\ file \in Contents
      /\ versions \in Seq(Versions)
  BY ApprovalIs, NamedIs, FormedIs DEF Current, Contained
<1>2. /\ EditedVersions \in Seq(Versions)
      /\ \/ EditedVersions = <<>> /\ file = Current.md
         \/ /\ Len(EditedVersions) = 1 /\ EditedVersions # <<>>
            /\ EditedVersions[1].md = file /\ EditedVersions[1].answers = cp.answers
  <2> DEFINE e == Version("human", file, cp.answers, Current.asks)
  <2>1. e \in Versions /\ e.md = file /\ e.answers = cp.answers
    BY <1>1, VersionTyped
  <2> HIDE DEF e
  <2>2. <<e>> \in Seq(Versions) /\ Len(<<e>>) = 1 /\ <<e>>[1] = e /\ <<e>> # <<>>
    BY <2>1
  <2>3. EditedVersions = IF file = Current.md THEN <<>> ELSE <<e>>
    BY DEF EditedVersions, e
  <2> QED BY <2>1, <2>2, <2>3
<1>3. /\ RestoredVersions(v) \in Seq(Versions)
      /\ v # 0 => /\ Len(RestoredVersions(v)) = 1
                  /\ RestoredVersions(v)[1].md = versions[v].md
                  /\ RestoredVersions(v)[1].answers = versions[v].answers
  <2>1. CASE v = 0
    BY <2>1 DEF RestoredVersions
  <2>2. CASE v # 0
    <3> DEFINE r == Version("restore", versions[v].md, versions[v].answers, versions[v].asks)
    <3>1. v \in 1..Len(versions)
      BY <1>1, <2>2, LenProperties
    <3>2. r \in Versions /\ r.md = versions[v].md /\ r.answers = versions[v].answers
      BY <1>1, <3>1, VersionIs, VersionTyped
    <3>3. RestoredVersions(v) = <<r>>
      BY <2>2 DEF RestoredVersions
    <3> HIDE DEF r
    <3>4. <<r>> \in Seq(Versions) /\ Len(<<r>>) = 1 /\ <<r>>[1] = r
      BY <3>2
    <3> QED BY <3>2, <3>3, <3>4
  <2> QED BY <2>1, <2>2
<1> QED BY <1>2, <1>3, ConcatProperties

LEMMA AcceptedIs ==
  ASSUME IInv, cp.stage = "Approval", NEW v \in 0..Len(versions)
  PROVE  LET d == AcceptedCheckpoint(v)
             u == AcceptedUpdate(v)
         IN  /\ IsCheckpoint(d) /\ Position(d)
             /\ d.stage = IF v = 0 THEN "Revise" ELSE "PlanReview"
             /\ d.flight.stage = "none" /\ d.plan = AcceptedBase /\ d.answers = cp.answers
             /\ d.pending = u /\ u # NoUpdate /\ u.expected = file
             /\ u.result = IF v = 0 THEN 0
                           ELSE Len(versions) + Len(EditedVersions \o RestoredVersions(v))
<1> USE DEF IInv, Types
<1> DEFINE d == AcceptedCheckpoint(v)
           u == AcceptedUpdate(v)
           base == AcceptedBase
           r == IF v = 0 THEN 0 ELSE Len(versions) + Len(EditedVersions \o RestoredVersions(v))
<1>1. Len(versions) \in Nat /\ Len(EditedVersions \o RestoredVersions(v)) \in Nat
  BY AcceptedVersionsAre, LenProperties DEF Contained
<1>2. base \in Nat /\ base # 0
  BY <1>1, ApprovalIs, FormedIs DEF AcceptedBase
<1>3. r \in Nat
  BY <1>1
<1>4. /\ u.kind = IF v = 0 THEN "prompt" ELSE "restore"
      /\ u.base = base /\ u.expected = file /\ u.result = r
      /\ u = [kind |-> u.kind, base |-> u.base, expected |-> u.expected, result |-> u.result]
  BY DEF AcceptedUpdate
<1>5. /\ d.stage = IF v = 0 THEN "Revise" ELSE "PlanReview"
      /\ d.flight = NoFlight /\ d.round = 1 /\ d.plan = base /\ d.answers = cp.answers
      /\ d.pending = u /\ DOMAIN d = DOMAIN cp
  BY FormedIs DEF AcceptedCheckpoint
<1> HIDE DEF d, u, base, r
<1>6. IsUpdate(u) /\ u # NoUpdate
  <2>1. u \in Updates
    BY <1>2, <1>3, <1>4 DEF Updates, Contained
  <2> QED BY <1>4, <2>1, NothingTyped DEF IsUpdate
<1>7. IsCheckpoint(d)
  BY <1>2, <1>5, <1>6, FormedIs, NothingTyped DEF IsCheckpoint, Stages
<1>8. Position(d)
  BY <1>2, <1>5, FormedIs, NothingTyped DEF Position, At, Early, Work
<1> QED BY <1>4, <1>5, <1>6, <1>7, <1>8, NothingTyped DEF d, u, base, r

LEMMA UpdateAcceptedControl ==
  ASSUME IInv, NEW v \in 0..Len(versions), UpdateAccepted(v)
  PROVE  Formed' /\ Control'
<1> USE DEF IInv, Types
<1> DEFINE d == AcceptedCheckpoint(v)
<1>1. /\ cp' = d /\ running' = Answered /\ open' = {} /\ ended' = ended
      /\ UNCHANGED <<worktree, threw>> /\ pc' = Loop(d) /\ mem' = NoMem /\ cp.stage = "Approval"
  BY UpdateAcceptedIs DEF Write, AtApproval
<1>2. /\ IsCheckpoint(d) /\ Position(d) /\ d.stage = (IF v = 0 THEN "Revise" ELSE "PlanReview")
      /\ d.flight.stage = "none"
  BY <1>1, AcceptedIs
<1> HIDE DEF d
<1>3. running' = {} /\ ended' = FALSE /\ d.stage \in Work
  BY <1>1, <1>2, ApprovalIs DEF Work
<1> QED BY <1>1, <1>2, <1>3, HeadReached DEF Formed

-----------------------------------------------------------------------------
(* An escalated run is resumed.                                            *)

EditedCheckpoint(n) ==
  [cp EXCEPT !.stage = "PlanReview", !.plan = n, !.round = 1, !.flight = NoFlight]
EditedVersion ==
  Edited(cp.answers, Current.asks, IF file = NoFile THEN Current.md ELSE file)
UpdateVersion == Edited(Basis.answers, Basis.asks, file)
ContinuedCheckpoint == [cp EXCEPT !.stage = cp.flight.stage, !.flight = NoFlight]
EditedReview == ~Updating /\ cp.plan # 0 /\ cp.flight.stage \in {"PlanReview", "Revise"}
ResumedWith(c, saved) ==
  Write(c, saved, running \ cp.flight.steps, {g \in open : g.step \notin cp.flight.steps}, Loop(c), NoMem)

LEMMA ResumeIs ==
  ASSUME Resume
  PROVE  /\ Command /\ Resumable /\ UNCHANGED <<file, worktree, threw, texts>>
         /\ LET n == Len(versions) + 1
            IN  \/ EditedUnderUpdate /\ ResumedWith(ResumeUpdate(n), <<UpdateVersion>>)
                \/ EditedReview /\ ResumedWith(EditedCheckpoint(n), <<EditedVersion>>)
                \/ ~EditedUnderUpdate /\ ~EditedReview /\ ResumedWith(ContinuedCheckpoint, <<>>)
<1>1. Command /\ Resumable /\ UNCHANGED <<file, worktree, threw, texts>>
  BY DEF Resume, disk
<1> DEFINE n == Len(versions) + 1
<1>2. CASE EditedUnderUpdate
  <2> DEFINE c == ResumeUpdate(n)
             v == UpdateVersion
             steps == running \ cp.flight.steps
             gates == {g \in open : g.step \notin cp.flight.steps}
  <2>0. Updating
    BY <1>2 DEF EditedUnderUpdate
  <2>1. Write(c, <<v>>, steps, gates, Loop(c), NoMem)
    BY <1>2, <2>0 DEF Resume, UpdateVersion
  <2>2. ResumedWith(c, <<v>>)
    BY <2>1 DEF ResumedWith
  <2> QED BY <1>1, <1>2, <2>2
<1>3. CASE ~EditedUnderUpdate /\ EditedReview
  BY <1>1, <1>3 DEF Resume, ResumedWith, EditedVersion, EditedCheckpoint, EditedReview
<1>4. CASE ~EditedUnderUpdate /\ ~EditedReview
  BY <1>1, <1>4 DEF Resume, ResumedWith, ContinuedCheckpoint, EditedReview
<1> QED BY <1>1, <1>2, <1>3, <1>4

\* An escalated run that has a plan, or an update.
LEMMA EscalatedIs ==
  ASSUME Formed, Control, cp.stage = "Escalated"
  PROVE  /\ cp.flight.stage \in Work /\ Stepped(open) \subseteq cp.flight.steps
         /\ running \subseteq cp.flight.steps /\ ended = FALSE
         /\ cp.flight.stage \in {"ResolveWorkItem", "Plan"} =>
              cp.round = 0 /\ cp.plan = 0 /\ cp.pending = NoUpdate
         /\ cp.flight.stage \notin {"ResolveWorkItem", "Plan"} => cp.plan # 0
         /\ cp.flight.stage = "Revise" => cp.round < MaxRounds
BY AtWork DEF Control, Position, At, Early, Ending, Formed

LEMMA BasisIs ==
  ASSUME IInv, Updating
  PROVE  cp.plan # 0 /\ Basis.answers \subseteq Questions /\ Basis.asks \subseteq Questions
<1> USE DEF IInv, Types
<1>1. cp.plan # 0
  BY DEF Control, Position, Updating
<1>2. cp.answers \subseteq Questions /\ Current.asks \subseteq Questions
  BY <1>1, FormedIs, NamedIs DEF Current
<1>3. cp.pending.result # 0 =>
        /\ versions[cp.pending.result].asks \subseteq Questions
        /\ versions[cp.pending.result].answers \subseteq Questions
  BY NamedIs
<1> QED BY <1>1, <1>2, <1>3 DEF Basis

LEMMA UpdateVersionIs ==
  ASSUME IInv, Updating
  PROVE  LET v == UpdateVersion
         IN  /\ v \in Versions /\ v.md.text = file.text /\ v.answers = Basis.answers
             /\ <<v>> \in Seq(Versions) /\ Len(<<v>>) = 1 /\ <<v>>[1] = v
<1>1. file \in Contents
  BY DEF IInv, Types, Contained
<1> QED BY <1>1, BasisIs, RenderedTyped, VersionTyped, OneVersion DEF UpdateVersion, Edited

LEMMA EditedVersionIs ==
  ASSUME IInv, cp.plan # 0
  PROVE  LET v == EditedVersion
         IN  /\ v \in Versions /\ v.answers = cp.answers
             /\ v.md.text \in {file.text, Current.md.text}
             /\ <<v>> \in Seq(Versions) /\ Len(<<v>>) = 1 /\ <<v>>[1] = v
<1>1. /\ file \in Contents /\ Current.md \in Contents /\ Current.asks \subseteq Questions
      /\ cp.answers \subseteq Questions
  BY NamedIs, FormedIs DEF IInv, Types, Contained, Current
<1> QED BY <1>1, RenderedTyped, VersionTyped, OneVersion DEF EditedVersion, Edited

LEMMA ResumedUpdateIs ==
  ASSUME IInv, cp.stage = "Escalated", Updating
  PROVE  LET n == Len(versions) + 1
             d == ResumeUpdate(n)
         IN  /\ IsCheckpoint(d) /\ Position(d) /\ d.stage = "PlanReview" /\ d.flight.stage = "none"
             /\ d.plan = n /\ d.answers = Basis.answers /\ d.pending # NoUpdate
             /\ d.pending.expected = file /\ d.pending.result = n
<1> USE DEF IInv, Types
<1> DEFINE n == Len(versions) + 1
           d == ResumeUpdate(n)
           u == [cp.pending EXCEPT !.result = n, !.expected = file]
<1>1. n \in Nat /\ n # 0
  BY LenProperties DEF Contained
<1>2. /\ d.stage = "PlanReview" /\ d.plan = n /\ d.answers = Basis.answers /\ d.flight = NoFlight
      /\ d.pending = u /\ d.round = cp.round /\ DOMAIN d = DOMAIN cp
  BY FormedIs DEF ResumeUpdate
<1>3. /\ IsUpdate(u) /\ u.result = n /\ u.expected = file /\ u # NoUpdate
  <2>1. cp.pending \in Updates /\ cp.pending.kind # "none" /\ file \in Contents
    BY FormedIs, UpdateIs DEF IsUpdate, Updating, Contained
  <2>2. u \in Updates /\ u.kind = cp.pending.kind /\ u.result = n /\ u.expected = file
    BY <1>1, <2>1 DEF Updates
  <2> QED BY <2>1, <2>2, NothingTyped DEF IsUpdate
<1> HIDE DEF d, u, n
<1>4. IsCheckpoint(d)
  BY <1>1, <1>2, <1>3, BasisIs, FormedIs, NothingTyped DEF IsCheckpoint, Stages
<1>5. Position(d)
  BY <1>1, <1>2, NothingTyped DEF Position, At, Early, Work
<1> QED BY <1>2, <1>3, <1>4, <1>5, NothingTyped DEF d, n

LEMMA EditedCheckpointIs ==
  ASSUME IInv
  PROVE  LET n == Len(versions) + 1
             d == EditedCheckpoint(n)
         IN  /\ IsCheckpoint(d) /\ Position(d) /\ d.stage = "PlanReview" /\ d.flight.stage = "none"
             /\ d.plan = n /\ d.answers = cp.answers /\ d.pending = cp.pending
<1> USE DEF IInv, Types
<1> DEFINE n == Len(versions) + 1
           d == EditedCheckpoint(n)
<1>1. n \in Nat /\ n # 0
  BY LenProperties DEF Contained
<1>2. /\ d.stage = "PlanReview" /\ d.plan = n /\ d.answers = cp.answers /\ d.flight = NoFlight
      /\ d.pending = cp.pending /\ d.round = 1 /\ DOMAIN d = DOMAIN cp
  BY FormedIs DEF EditedCheckpoint
<1> HIDE DEF d, n
<1>4. IsCheckpoint(d)
  BY <1>1, <1>2, FormedIs, NothingTyped DEF IsCheckpoint, Stages
<1>5. Position(d)
  BY <1>1, <1>2, NothingTyped DEF Position, At, Early, Work
<1> QED BY <1>2, <1>4, <1>5, NothingTyped DEF d, n

LEMMA ContinuedIs ==
  ASSUME Formed, Control, cp.stage = "Escalated"
  PROVE  LET d == ContinuedCheckpoint
         IN  /\ IsCheckpoint(d) /\ Position(d) /\ d.stage = cp.flight.stage /\ d.flight.stage = "none"
             /\ d.plan = cp.plan /\ d.answers = cp.answers /\ d.pending = cp.pending
<1> DEFINE d == ContinuedCheckpoint
<1>1. /\ d.stage = cp.flight.stage /\ d.plan = cp.plan /\ d.answers = cp.answers
      /\ d.flight = NoFlight /\ d.pending = cp.pending /\ d.round = cp.round /\ DOMAIN d = DOMAIN cp
  BY FormedIs DEF ContinuedCheckpoint
<1> HIDE DEF d
<1>2. IsCheckpoint(d)
  BY <1>1, EscalatedIs, FormedIs, NothingTyped DEF IsCheckpoint, Stages, Work
<1>3. Position(d)
  BY <1>1, EscalatedIs, NothingTyped DEF Position, At, Early, Work
<1> QED BY <1>1, <1>2, <1>3, NothingTyped DEF d

LEMMA ResumedControl ==
  ASSUME Formed, Control, cp.stage = "Escalated", NEW d, IsCheckpoint(d), Position(d),
         d.stage \in Work, d.flight.stage = "none", UNCHANGED <<worktree, threw>>,
         NEW saved, ResumedWith(d, saved)
  PROVE  Formed' /\ Control'
<1>1. /\ cp' = d /\ running' = running \ cp.flight.steps /\ ended' = ended
      /\ open' = {g \in open : g.step \notin cp.flight.steps} /\ pc' = Loop(d) /\ mem' = NoMem
  BY DEF ResumedWith, Write
<1>2. running' = {} /\ open' = {} /\ ended' = FALSE
  BY <1>1, EscalatedIs DEF Stepped
<1> QED BY <1>1, <1>2, HeadReached DEF Formed

LEMMA ResumeControl ==
  ASSUME IInv, Resume
  PROVE  Formed' /\ Control'
<1> USE DEF IInv, Types
<1> DEFINE n == Len(versions) + 1
<1>1. cp.stage = "Escalated" /\ UNCHANGED <<worktree, threw>>
  BY ResumeIs DEF Resumable
<1>2. CASE EditedUnderUpdate /\ ResumedWith(ResumeUpdate(n), <<UpdateVersion>>)
  BY <1>1, <1>2, ResumedUpdateIs, ResumedControl DEF EditedUnderUpdate, Work
<1>3. CASE ResumedWith(EditedCheckpoint(n), <<EditedVersion>>)
  BY <1>1, <1>3, EditedCheckpointIs, ResumedControl DEF Work
<1>4. CASE ResumedWith(ContinuedCheckpoint, <<>>)
  BY <1>1, <1>4, ContinuedIs, EscalatedIs, ResumedControl
<1> QED BY <1>2, <1>3, <1>4, ResumeIs

-----------------------------------------------------------------------------
(* Where the run is: a restart, and what comes from outside.               *)

\* The gates a restart finds or raises.
GatesFound == open \cup {Gate(s, "interrupted") : s \in running \ GatedSteps}

LEMMA FoundIs ==
  ASSUME Formed, Control
  PROVE  /\ cp.stage # "Approval" => Stepped(GatesFound) \subseteq cp.flight.steps
         /\ cp.stage = "Approval" => GatesFound = open /\ GatesFound # {}
<1>1. ASSUME cp.stage = "Approval"
      PROVE  GatesFound = open /\ GatesFound # {}
  <2>1. PICK s \in Nat : open = {Gate(s, "approval")}
    BY <1>1, ApprovalIs
  <2>2. running \ GatedSteps = {}
    BY <1>1, ApprovalIs
  <2> QED BY <2>1, <2>2 DEF GatesFound
<1>2. ASSUME cp.stage # "Approval"
      PROVE  Stepped(GatesFound) \subseteq cp.flight.steps
  <2>1. Stepped(open) \subseteq cp.flight.steps /\ running \subseteq cp.flight.steps
    BY <1>2, AtWork
  <2>2. \A s : Gate(s, "interrupted").step = s
    BY DEF Gate
  <2>3. ASSUME NEW g \in GatesFound
        PROVE  g.step \in cp.flight.steps
    <3>1. CASE g \in open
      BY <2>1, <3>1 DEF Stepped
    <3>2. CASE \E s \in running : g = Gate(s, "interrupted")
      BY <2>1, <2>2, <3>2
    <3> QED BY <3>1, <3>2 DEF GatesFound
  <2> QED BY <2>3 DEF Stepped
<1> QED BY <1>1, <1>2

LEMMA RestartControl ==
  ASSUME Formed, Control, Restart
  PROVE  Formed' /\ Control'
<1> DEFINE s == NewId
           stage == IF cp.flight = NoFlight THEN cp.stage ELSE cp.flight.stage
           f == Flight(stage, cp.flight.steps \cup {s})
           d == [cp EXCEPT !.stage = "Escalated", !.flight = f]
<1>0. /\ UNCHANGED <<worktree, running, ended>> /\ pc = "down" /\ pc' = "idle" /\ mem' = NoMem
      /\ threw' = FALSE
      /\ IF Stranded(GatesFound)
         THEN cp' = d /\ open' = GatesFound \cup {Gate(s, "escalation")}
         ELSE cp' = cp /\ open' = IF ended THEN open ELSE GatesFound
  BY DEF Restart, Write, GatesFound, disk
<1>1. CASE Stranded(GatesFound)
  <2>1. ~ended /\ cp.stage # "Approved"
    BY <1>1 DEF Stranded, Control, Ending
  <2>2. cp.stage # "Approval"
    BY <1>1, FoundIs, ApprovalIs DEF Stranded
  <2>3. cp.stage # "Escalated"
    BY <1>1, EscalatedIs, FormedIs, FlightIs DEF Stranded
  <2>4. cp.stage \in Work
    BY <2>1, <2>2, <2>3, FormedIs DEF Stages, Work
  <2>5. /\ stage \in Work
        /\ stage \in {cp.stage, cp.flight.stage}
        /\ stage = cp.stage \/ (cp.stage = "PlanReview" /\ stage = "Revise")
    <3>1. CASE cp.flight = NoFlight
      BY <2>4, <3>1
    <3>2. CASE cp.flight # NoFlight
      <4>1. cp.flight.stage \in Work
        BY <3>2, FormedIs, FlightIs
      <4> QED BY <2>4, <3>2, <4>1 DEF Control, Position
    <3> QED BY <3>1, <3>2
  <2>6. s \in Nat /\ Ids(cp.flight.steps \cup {s})
    BY <2>2, NewIdTyped
  <2>7. IsFlight(f) /\ f.stage = stage /\ f.steps = cp.flight.steps \cup {s}
    BY <2>5, <2>6, FlightTyped
  <2> HIDE DEF s, stage, f
  <2>8. /\ d.stage = "Escalated" /\ d.flight = f /\ d.round = cp.round /\ d.plan = cp.plan
        /\ d.answers = cp.answers /\ d.pending = cp.pending /\ DOMAIN d = DOMAIN cp
    BY FormedIs
  <2> HIDE DEF d
  <2>9. IsCheckpoint(d)
    BY <2>7, <2>8, FormedIs DEF IsCheckpoint, Stages
  <2>10. Position(d)
    BY <2>4, <2>5, <2>7, <2>8 DEF Control, Position, At, Early, Work
  <2>11. Owned(cp, running, open)'
    <3>1. Stepped(open') \subseteq f.steps /\ running' \subseteq f.steps
      BY <1>0, <1>1, <2>2, <2>7, FoundIs, AtWork, GatesClosed
    <3> QED BY <1>0, <1>1, <2>8, <3>1, OwnedBy
  <2>12. Places' /\ Ending'
    BY <1>0, <1>1, <2>1, <2>8 DEF Places, Ending, Reviewing
  <2> QED BY <1>0, <1>1, <2>9, <2>10, <2>11, <2>12, NothingTyped DEF Control, Formed
<1>2. CASE ~Stranded(GatesFound)
  <2>1. ended \/ cp.stage \in {"Approval", "Escalated"}
    <3> SUFFICES ASSUME ~ended, cp.stage \notin {"Approval", "Escalated"}
                 PROVE  FALSE
      OBVIOUS
    <3>1. cp.flight = NoFlight /\ GatesFound # {}
      BY <1>2 DEF Stranded
    <3>2. Stepped(GatesFound) \subseteq {}
      BY <3>1, FoundIs, NothingTyped
    <3> QED BY <3>1, <3>2 DEF Stepped
  <2>2. Owned(cp, running, open)'
    <3>1. CASE ended
      BY <1>0, <1>2, <3>1 DEF Control, Owned
    <3>2. CASE ~ended /\ cp.stage = "Approval"
      BY <1>0, <1>2, <3>2, FoundIs DEF Control, Owned
    <3>3. CASE ~ended /\ cp.stage = "Escalated"
      BY <1>0, <1>2, <3>3, FoundIs, AtWork, OwnedBy
    <3> QED BY <2>1, <3>1, <3>2, <3>3
  <2>3. Places' /\ Ending'
    BY <1>0, <1>2, <2>1 DEF Places, Ending, Reviewing, Control
  <2> QED BY <1>0, <1>2, <2>2, <2>3, NothingTyped DEF Control, Formed
<1> QED BY <1>1, <1>2

LEMMA CrashControl ==
  ASSUME Formed, Control, Crash
  PROVE  Formed' /\ Control'
<1>1. UNCHANGED <<cp, running, open, ended, worktree, threw>> /\ pc' = "down" /\ mem' = NoMem
  BY DEF Crash, log, disk
<1>2. Places' /\ Ending'
  BY <1>1 DEF Places, Ending, Reviewing, Control
<1> QED BY <1>1, <1>2, NothingTyped DEF Control, Formed

LEMMA EditControl ==
  ASSUME Formed, Control, Edit
  PROVE  Formed' /\ Control'
<1>1. UNCHANGED <<cp, running, open, ended, worktree, threw, pc, mem>>
  BY DEF Edit, log
<1>2. Verifier' = Verifier
  BY <1>1 DEF Verifier
<1>3. Places'
  <2>1. Places
    BY DEF Control
  <2> QED BY ZenonT(60), <1>1, <1>2, <2>1 DEF Places, Reviewing, Engine, Commands, Work
<1>4. (Position(cp) /\ Owned(cp, running, open) /\ Ending)'
  BY <1>1 DEF Control, Ending
<1> QED BY <1>1, <1>3, <1>4 DEF Control, Formed

LEMMA FaultControl ==
  ASSUME Formed, Control, Fault
  PROVE  Formed' /\ Control'
<1>0. UNCHANGED <<cp, open, ended, worktree>> /\ mem' = NoMem
  BY DEF Fault, Write, Goto, log, disk
<1>1. CASE /\ Caught
           /\ running' = (IF Resolving THEN running \ cp.flight.steps ELSE running)
           /\ pc' = "pause" /\ UNCHANGED threw
  <2>1. pc \in {"resolving", "resolved", "drafting", "decide", "verifier"}
    BY <1>1 DEF Caught, Resolving
  <2>2. /\ cp.stage \in Work /\ cp.flight.stage \in Work /\ ended = FALSE
        /\ Stepped(open) \subseteq cp.flight.steps /\ running \subseteq cp.flight.steps
    <3>1. CASE pc \in {"resolving", "resolved", "drafting"}
      BY <3>1, Drafting, GatesClosed
    <3>2. CASE pc \in {"decide", "verifier"}
      BY <3>2, ReviewIs DEF Reviewing
    <3> QED BY <2>1, <3>1, <3>2
  <2> QED BY <1>0, <1>1, <2>2, PausedHere, NothingTyped DEF Formed
<1>2. CASE /\ Uncaught /\ UNCHANGED running /\ pc' = "idle" /\ threw' = (threw \/ pc \in Engine)
  <2>1. pc \in Engine \cup Commands
    BY <1>2 DEF Uncaught, Engine
  <2>2. ~threw' => cp.stage \in {"Approval", "Escalated"}
    <3>1. CASE pc \in Engine
      BY <1>2, <3>1
    <3>2. CASE pc \in Commands
      BY <3>2 DEF Control, Places, Commands
    <3> QED BY <2>1, <3>1, <3>2
  <2>3. ended = FALSE
    BY <2>1, NotOver DEF Engine, Commands
  <2>4. threw' \in BOOLEAN
    BY <1>2 DEF Formed
  <2>5. Places' /\ Ending'
    BY <1>0, <1>2, <2>2, <2>3 DEF Places, Ending, Reviewing, Control
  <2> QED BY <1>0, <1>2, <2>4, <2>5, NothingTyped DEF Control, Formed
<1>3. CASE Caught /\ UNCHANGED threw
           /\ Write(cp, <<>>, IF Resolving THEN running \ cp.flight.steps ELSE running, open,
                    "pause", NoMem)
  BY <1>1, <1>3 DEF Write
<1>4. CASE Uncaught /\ Goto("idle", NoMem) /\ threw' = (threw \/ pc \in Engine)
  BY <1>2, <1>4 DEF Goto, log
<1> QED BY <1>3, <1>4 DEF Fault

-----------------------------------------------------------------------------
(* What the plan says: lemmas on what a step leaves alone.                 *)

Answering == {"answering", "approving plan", "removing"}
Approving == {"approving plan", "removing"}

LEMMA BooksAre ==
  ASSUME IInv
  PROVE  /\ versions \in Seq(Versions) /\ Len(versions) \in Nat /\ mem.save \subseteq Versions
         /\ file \in Contents /\ file.text \in Nat /\ texts \in Nat /\ MaxTexts \in Nat
         /\ texts <= MaxTexts /\ file.text <= texts
         /\ \A i \in 1..Len(versions) :
              versions[i].md.text \in Nat /\ versions[i].md.text <= texts
         /\ \A v \in mem.save : v.md.text \in Nat /\ v.md.text <= texts
         /\ cp.plan \in Nat /\ cp.plan <= Len(versions)
         /\ cp.pending.result \in Nat /\ cp.pending.result <= Len(versions)
         /\ cp.plan # 0 => cp.answers = Current.answers
         /\ cp.pending # NoUpdate => Saved(cp.pending.expected)
<1>1. /\ versions \in Seq(Versions) /\ mem.save \subseteq Versions /\ file \in Contents
      /\ texts \in 0..MaxTexts /\ Numbered /\ Named(cp)
  BY DEF IInv, Types, Contained, Books
<1>2. \A c \in Contents : c.text \in Nat
  BY PlanningAssumption DEF Contents
<1>3. \A v \in Versions : v.md \in Contents
  BY DEF Versions
<1>4. \A i \in 1..Len(versions) : versions[i] \in Versions
  BY <1>1, ElementOfSeq
<1>5. cp.plan \in Nat /\ cp.pending.result \in Nat
  BY FormedIs, UpdateIs DEF IInv, Types
<1>6. Len(versions) \in Nat
  BY <1>1, LenProperties
<1> QED BY <1>1, <1>2, <1>3, <1>4, <1>5, <1>6, PlanningAssumption DEF Numbered, Named, Current

\* A step that records no version and leaves plan.md alone.
LEMMA BooksKept ==
  ASSUME IInv, UNCHANGED <<versions, file, texts>>, cp'.plan = cp.plan, cp'.answers = cp.answers,
         cp'.pending \in {cp.pending, NoUpdate}, mem'.save \in {{}, mem.save},
         cp'.stage = "Approval" \/ pc' = "asking" => cp.stage = "Approval" \/ pc = "asking",
         pc' \in Answering => pc \in Answering /\ mem'.save = mem.save,
         pc' \in Approving => pc \in Approving,
         ended' => ended
  PROVE  Contained' /\ Books'
<1>1. Contained'
  BY BooksAre DEF IInv, Types, Contained
<1>2. Numbered'
  BY BooksAre DEF Numbered
<1>3. Current' = Current /\ (\A c : Saved(c)' <=> Saved(c))
  BY DEF Current, Saved
<1>4. (Named(cp))'
  <2>1. cp'.plan <= Len(versions) /\ cp'.pending.result <= Len(versions)
    BY BooksAre, NothingTyped
  <2>2. cp'.plan # 0 => cp'.answers = versions[cp'.plan].answers
    BY BooksAre DEF Current
  <2>3. cp'.pending # NoUpdate => Saved(cp.pending.expected) /\ cp'.pending = cp.pending
    BY BooksAre
  <2> QED BY <2>1, <2>2, <2>3 DEF Named, Saved
<1>5. Written'
  <2>1. Written
    BY DEF IInv, Books
  <2>2. \A t : Shows(t)' <=> Shows(t)
    BY DEF Shows, Saved
  <2>3. pc' = "asking" \/ cp'.stage = "Approval" => Shows(Current.md.text)'
    BY <1>3, <2>1, <2>2 DEF Written
  <2>4. pc' \in {"answering", "approving plan", "removing"} =>
          /\ \E v \in Versions : mem'.save = {v}
          /\ \A v \in mem'.save : Shows(v.md.text)'
    BY <2>1, <2>2 DEF Written, Answering
  <2>5. pc' \in {"approving plan", "removing"} =>
          \A v \in mem'.save : Complete(v) /\ v.answers = cp'.answers
    BY <2>1 DEF Written, Answering, Approving
  <2>6. ended' => Complete(Current')
    BY <1>3, <2>1 DEF Written
  <2> QED BY <2>3, <2>4, <2>5, <2>6 DEF Written, Complete
<1> QED BY <1>1, <1>2, <1>4, <1>5 DEF Books

\* A step that records versions at the end of the log.
LEMMA BooksGrow ==
  ASSUME IInv, NEW saved \in Seq(Versions), versions' = versions \o saved,
         texts' \in 0..MaxTexts, texts <= texts',
         \A i \in 1..Len(saved) : saved[i].md.text <= texts',
         UNCHANGED file, mem'.save = {},
         cp'.plan <= Len(versions) + Len(saved), cp'.pending.result <= Len(versions) + Len(saved),
         cp'.plan # 0 => cp'.answers = versions'[cp'.plan].answers,
         cp'.pending # NoUpdate =>
           \E i \in 1..Len(versions') : versions'[i].md.text = cp'.pending.expected.text
  PROVE  Contained' /\ Numbered' /\ (Named(cp))'
<1>1. /\ versions' \in Seq(Versions) /\ Len(versions) \in Nat /\ Len(saved) \in Nat
      /\ Len(versions') = Len(versions) + Len(saved)
      /\ \A i \in 1..Len(versions) : versions'[i] = versions[i]
      /\ \A i \in 1..Len(saved) : versions'[Len(versions) + i] = saved[i]
  BY BooksAre, Extended
<1>2. Contained'
  BY <1>1, BooksAre DEF Contained
<1>3. ASSUME NEW i \in 1..Len(versions')
      PROVE  versions'[i].md.text <= texts'
  <2>1. CASE i \in 1..Len(versions)
    BY <1>1, <2>1, BooksAre, PlanningAssumption
  <2>2. CASE i \notin 1..Len(versions)
    <3>1. i - Len(versions) \in 1..Len(saved) /\ Len(versions) + (i - Len(versions)) = i
      BY <1>1, <2>2
    <3> QED BY <1>1, <3>1
  <2> QED BY <2>1, <2>2
<1>4. Numbered'
  BY SMTT(30), <1>3, BooksAre, PlanningAssumption DEF Numbered
<1>5. (Named(cp))'
  BY <1>1 DEF Named, Saved
<1> QED BY <1>2, <1>4, <1>5

\* Nothing is shown for approval, or being answered, afterwards.
LEMMA NothingWritten ==
  ASSUME cp'.stage # "Approval", pc' # "asking", pc' \notin Answering, ended' = FALSE
  PROVE  Written'
BY DEF Written, Answering

\* A step that writes plan.md and nothing else of the plan.
LEMMA BooksOfFile ==
  ASSUME IInv, UNCHANGED <<cp, versions, ended>>, file' \in Contents,
         texts' \in 0..MaxTexts, texts <= texts', file'.text <= texts', mem'.save \subseteq Versions,
         \A v \in mem'.save : v.md.text <= texts'
  PROVE  Contained' /\ Numbered' /\ (Named(cp))' /\ Current' = Current
         /\ (ended' => Complete(Current'))
<1>1. Contained' /\ Numbered'
  BY BooksAre, PlanningAssumption DEF Contained, Numbered
<1>2. (Named(cp))' /\ Current' = Current
  BY DEF IInv, Books, Named, Saved, Current
<1>3. ended' => Complete(Current')
  BY <1>2 DEF IInv, Books, Written
<1> QED BY <1>1, <1>2, <1>3

LEMMA NothingRecorded ==
  ASSUME IInv
  PROVE  versions \o <<>> = versions
BY BooksAre, ConcatEmptySeq

\* A new stage, and the operation that is in flight there.
LEMMA BooksOfStage ==
  ASSUME IInv, NEW stage, stage # "Approval", NEW f, NEW steps, NEW gates, NEW where, NEW m,
         Write([cp EXCEPT !.stage = stage, !.flight = f], <<>>, steps, gates, where, m),
         where \notin Answering, where # "asking", m.save = {}, UNCHANGED <<file, texts>>
  PROVE  Contained' /\ Books'
<1> DEFINE d == [cp EXCEPT !.stage = stage, !.flight = f]
<1>1. /\ cp' = d /\ versions' = versions \o <<>> /\ pc' = where /\ mem' = m /\ ended' = ended
  BY DEF Write
<1>2. d.stage = stage /\ d.plan = cp.plan /\ d.answers = cp.answers /\ d.pending = cp.pending
  BY FormedIs DEF IInv, Types
<1> HIDE DEF d
<1>3. versions' = versions
  BY <1>1, NothingRecorded
<1> QED BY <1>1, <1>2, <1>3, BooksKept DEF Answering, Approving

\* The engine or a command goes on with the checkpoint as it is.
LEMMA BooksOfPlace ==
  ASSUME IInv, UNCHANGED <<cp, versions, ended, file, texts>>, mem'.save \in {{}, mem.save},
         pc' \notin Answering, pc' # "asking"
  PROVE  Contained' /\ Books'
BY BooksKept DEF Answering, Approving

LEMMA MarksBooks ==
  ASSUME IInv, NEW stage \in Work, NEW ids, NEW where, NEW m, Mark(stage, ids, where, m),
         where \notin Answering, where # "asking", m.save = {}, UNCHANGED <<file, texts>>
  PROVE  Contained' /\ Books'
<1>1. stage # "Approval"
  BY DEF Work
<1> QED BY <1>1, BooksOfStage DEF Mark

LEMMA StaysBooks ==
  ASSUME IInv, NEW steps, NEW gates, NEW where, NEW m, Write(cp, <<>>, steps, gates, where, m),
         where \notin Answering, where # "asking", m.save \in {{}, mem.save},
         UNCHANGED <<file, texts>>
  PROVE  Contained' /\ Books'
<1>1. UNCHANGED <<cp, ended>> /\ versions' = versions /\ pc' = where /\ mem' = m
  BY NothingRecorded DEF Write
<1> QED BY <1>1, BooksOfPlace

-----------------------------------------------------------------------------
(* What the plan says: the steps that neither record nor write it.         *)

LEMMA GateBooks ==
  ASSUME IInv, PauseGates \/ ResolveMarked \/ DraftMarked \/ ReviewMarked
  PROVE  Contained' /\ Books'
<1>1. UNCHANGED <<file, texts>>
  BY DEF PauseGates, ResolveMarked, DraftMarked, ReviewMarked, Rest, disk
<1>2. NoMem.save = {} /\ (\A ids : [NoMem EXCEPT !.todo = ids].save = {})
  BY DEF NoMem
<1>3. CASE PauseGates
  <2> DEFINE f == Pausing(NewId)
             gates == open \cup {Gate(NewId, "escalation")}
  <2>1. Write([cp EXCEPT !.stage = "Escalated", !.flight = f], <<>>, running, gates, "paused", NoMem)
    BY <1>3 DEF PauseGates
  <2> HIDE DEF f, gates
  <2>2. "paused" \notin Answering
    BY DEF Answering
  <2> QED BY <1>1, <1>2, <2>1, <2>2, BooksOfStage
<1>4. CASE ResolveMarked
  BY <1>1, <1>2, <1>4, MarksBooks DEF ResolveMarked, Answering, Work
<1>5. CASE DraftMarked
  <2>1. cp.stage \in Work
    BY <1>5, Drafting DEF DraftMarked, IInv, Types
  <2>2. Mark(cp.stage, {NewId}, "drafting", NoMem)
    BY <1>5 DEF DraftMarked
  <2>3. "drafting" \notin Answering
    BY DEF Answering
  <2> QED BY <1>1, <1>2, <2>1, <2>2, <2>3, MarksBooks
<1>6. CASE ReviewMarked
  <2> DEFINE ids == NewIds(Lenses + 1)
             m == [NoMem EXCEPT !.todo = ids]
  <2>1. Mark("PlanReview", ids, "lenses", m)
    BY <1>6 DEF ReviewMarked
  <2>2. m.save = {}
    BY <1>2
  <2> HIDE DEF ids, m
  <2>3. "PlanReview" \in Work /\ "lenses" \notin Answering
    BY DEF Work, Answering
  <2> QED BY <1>1, <2>1, <2>2, <2>3, MarksBooks
<1> QED BY <1>3, <1>4, <1>5, <1>6

LEMMA AgentBooks ==
  ASSUME IInv,
         ResolveStarts \/ WorktreeCreated \/ Resolved \/ DraftStarts \/ DraftEnds
  PROVE  Contained' /\ Books'
<1>1. UNCHANGED <<file, texts>>
  BY DEF ResolveStarts, WorktreeCreated, Resolved, DraftStarts, DraftEnds, Rest, disk
<1>2. NoMem.save = {}
  BY DEF NoMem
<1>3. ASSUME NEW where \in {"resolving", "writing", "drafted", "pause"}, NEW steps, NEW gates,
             Write(cp, <<>>, steps, gates, where, NoMem)
      PROVE  Contained' /\ Books'
  BY <1>1, <1>2, <1>3, StaysBooks DEF Answering
<1>4. ASSUME NEW where \in {"resolved", "pause"}, Goto(where, NoMem)
      PROVE  Contained' /\ Books'
  <2>1. UNCHANGED <<cp, versions, ended>> /\ pc' = where /\ mem' = NoMem
    BY <1>4 DEF Goto, log
  <2> QED BY <1>1, <1>2, <2>1, BooksOfPlace DEF Answering
<1>5. CASE ResolveStarts
  BY <1>5, <1>3 DEF ResolveStarts
<1>6. CASE WorktreeCreated
  BY <1>6, <1>3, <1>4 DEF WorktreeCreated, ResolveFails
<1>7. CASE Resolved
  <2> DEFINE d == [cp EXCEPT !.stage = "Plan", !.flight = NoFlight]
  <2>1. CASE ResolveFails
    BY <2>1, <1>3 DEF ResolveFails
  <2>2. CASE Write(d, <<>>, running \ cp.flight.steps, open, Loop(d), NoMem)
    <3>1. Loop(d) \in {"update", "draft"}
      <4>1. d.stage = "Plan"
        BY FormedIs DEF IInv, Types
      <4> QED BY <4>1 DEF Loop, AtStage
    <3> QED BY <1>1, <1>2, <2>2, <3>1, BooksOfStage DEF Answering
  <2> QED BY <1>7, <2>1, <2>2 DEF Resolved
<1>8. CASE DraftStarts
  BY <1>8, <1>3, <1>4 DEF DraftStarts
<1>9. CASE DraftEnds
  <2>1. CASE Write(cp, <<>>, running \ cp.flight.steps, open, "drafted", NoMem)
    BY <2>1, <1>3
  <2>2. CASE pc' = "pause" /\ UNCHANGED <<cp, versions, ended, mem>>
    BY <1>1, <2>2, BooksOfPlace DEF Answering
  <2> QED BY <1>9, <2>1, <2>2 DEF DraftEnds
<1> QED BY <1>5, <1>6, <1>7, <1>8, <1>9

LEMMA ReviewBooks ==
  ASSUME IInv, NEW s \in cp.flight.steps,
         ReviewStepStarts(s) \/ ReviewStepUnborn(s) \/ ReviewStepEnds(s)
  PROVE  Contained' /\ Books'
<1>1. UNCHANGED <<file, texts>>
  BY DEF ReviewStepStarts, ReviewStepUnborn, ReviewStepEnds, Rest, disk
<1>2. NoMem.save = {} /\ DOMAIN mem = {"todo", "unchecked", "res", "save"}
  BY DEF NoMem, IInv, Types, Formed, IsMem
<1>3. \A steps : AfterTurn(steps) \in {pc, "verifier", "decide"}
  BY DEF AfterTurn
<1>4. pc \in {"lenses", "verifier"}
  BY DEF ReviewStepStarts, ReviewStepUnborn, ReviewStepEnds
<1>5. CASE ReviewStepStarts(s)
  <2>1. [mem EXCEPT !.todo = @ \ {s}].save = mem.save
    BY <1>2
  <2> QED BY <1>1, <1>4, <1>5, <2>1, StaysBooks DEF ReviewStepStarts, Answering
<1>6. CASE ReviewStepUnborn(s)
  <2>1. UNCHANGED <<cp, versions, ended>>
    BY <1>6 DEF ReviewStepUnborn, Goto, log
  <2>2. pc' \in {pc, "verifier", "decide", "pause"} /\ mem'.save \in {{}, mem.save}
    BY <1>2, <1>3, <1>6 DEF ReviewStepUnborn, Goto
  <2> QED BY <1>1, <1>4, <2>1, <2>2, BooksOfPlace DEF Answering
<1>7. CASE ReviewStepEnds(s)
  <2>1. UNCHANGED <<cp, versions, ended>>
    BY <1>7, NothingRecorded DEF ReviewStepEnds, Write
  <2>2. pc' \in {pc, "verifier", "decide"} /\ mem'.save = mem.save
    BY <1>2, <1>3, <1>7 DEF ReviewStepEnds, Write
  <2> QED BY <1>1, <1>4, <2>1, <2>2, BooksOfPlace DEF Answering
<1> QED BY <1>5, <1>6, <1>7

LEMMA DecidedBooks ==
  ASSUME IInv, ReviewDecided \/ ApprovalAsked \/ ApproveRemoves
  PROVE  Contained' /\ Books'
<1>1. UNCHANGED <<file, texts>> /\ NoMem.save = {}
  BY DEF ReviewDecided, ApprovalAsked, ApproveRemoves, Rest, disk, NoMem
<1>2. CASE ReviewDecided
  <2> DEFINE d == [cp EXCEPT !.stage = "Revise", !.flight = NoFlight]
  <2>1. \/ Goto("pause", NoMem) \/ Goto("approving", NoMem)
        \/ Write(d, <<>>, running, open, Loop(d), NoMem)
    <3>1. CASE Decision = "Escalated"
      BY <1>2, <3>1 DEF ReviewDecided
    <3>2. CASE Decision = "Revise"
      BY <1>2, <3>2 DEF ReviewDecided
    <3>3. CASE Decision \notin {"Escalated", "Revise"}
      BY <1>2, <3>3 DEF ReviewDecided
    <3> QED BY <3>1, <3>2, <3>3
  <2>2. CASE Goto("pause", NoMem) \/ Goto("approving", NoMem)
    <3>1. UNCHANGED <<cp, versions, ended>> /\ pc' \in {"pause", "approving"} /\ mem' = NoMem
      BY <2>2 DEF Goto, log
    <3> QED BY <1>1, <3>1, BooksOfPlace DEF Answering
  <2>3. CASE Write(d, <<>>, running, open, Loop(d), NoMem)
    <3>1. Loop(d) \in {"update", "draft"}
      <4>1. d.stage = "Revise"
        BY FormedIs DEF IInv, Types
      <4> QED BY <4>1 DEF Loop, AtStage
    <3> QED BY <1>1, <2>3, <3>1, BooksOfStage DEF Answering
  <2> QED BY <2>1, <2>2, <2>3
<1>3. CASE ApprovalAsked
  <2> DEFINE d == [cp EXCEPT !.stage = "Approval", !.flight = NoFlight, !.pending = NoUpdate]
  <2>1. /\ cp' = d /\ versions' = versions /\ ended' = ended /\ pc' = "idle" /\ mem' = NoMem
        /\ pc = "asking"
    BY <1>3, NothingRecorded DEF ApprovalAsked, Write
  <2>2. d.plan = cp.plan /\ d.answers = cp.answers /\ d.pending = NoUpdate
    BY FormedIs DEF IInv, Types
  <2> HIDE DEF d
  <2> QED BY <1>1, <2>1, <2>2, BooksKept DEF Answering, Approving
<1>4. CASE ApproveRemoves
  <2>1. UNCHANGED <<cp, versions, ended, mem>> /\ pc = "approving plan" /\ pc' = "removing"
    BY <1>4 DEF ApproveRemoves, Goto, log
  <2> QED BY <1>1, <2>1, BooksKept DEF Answering, Approving
<1> QED BY <1>2, <1>3, <1>4

LEMMA StopsBooks ==
  ASSUME IInv, Restart \/ Crash \/ Fault
  PROVE  Contained' /\ Books'
<1>1. UNCHANGED <<file, texts>> /\ NoMem.save = {}
  BY DEF Restart, Crash, Fault, disk, NoMem
<1>2. CASE Restart
  <2>1. \/ \E f, gates : Write([cp EXCEPT !.stage = "Escalated", !.flight = f], <<>>, running, gates,
                               "idle", NoMem)
        \/ \E gates : Write(cp, <<>>, running, gates, "idle", NoMem)
    BY <1>2, Zenon DEF Restart
  <2>2. "idle" \notin Answering
    BY DEF Answering
  <2>3. CASE \E f, gates : Write([cp EXCEPT !.stage = "Escalated", !.flight = f], <<>>, running,
                                 gates, "idle", NoMem)
    <3>1. PICK f, gates : Write([cp EXCEPT !.stage = "Escalated", !.flight = f], <<>>, running,
                                gates, "idle", NoMem)
      BY <2>3
    <3> QED BY <1>1, <2>2, <3>1, BooksOfStage
  <2>4. CASE \E gates : Write(cp, <<>>, running, gates, "idle", NoMem)
    <3>1. PICK gates : Write(cp, <<>>, running, gates, "idle", NoMem)
      BY <2>4
    <3> QED BY <1>1, <2>2, <3>1, StaysBooks
  <2> QED BY <2>1, <2>3, <2>4
<1>3. CASE Crash
  <2>1. UNCHANGED <<cp, versions, ended>> /\ pc' = "down" /\ mem' = NoMem
    BY <1>3 DEF Crash, log
  <2> QED BY <1>1, <2>1, BooksOfPlace DEF Answering
<1>4. CASE Fault
  <2>1. \/ \E steps : Write(cp, <<>>, steps, open, "pause", NoMem)
        \/ Goto("idle", NoMem)
    BY <1>4 DEF Fault
  <2>2. CASE Goto("idle", NoMem)
    <3>1. UNCHANGED <<cp, versions, ended>> /\ pc' = "idle" /\ mem' = NoMem
      BY <2>2 DEF Goto, log
    <3> QED BY <1>1, <3>1, BooksOfPlace DEF Answering
  <2> QED BY <1>1, <2>1, <2>2, StaysBooks DEF Answering
<1> QED BY <1>2, <1>3, <1>4

-----------------------------------------------------------------------------
(* What the plan says: plan.md is written.                                 *)

\* A step that writes plan.md while the plan is not up for approval.
LEMMA BooksBeforeApproval ==
  ASSUME IInv, UNCHANGED <<cp, versions, ended, texts>>, cp.stage # "Approval",
         file' = file \/ (\E i \in 1..Len(versions) : file' = versions[i].md),
         mem'.save = {}, pc' \notin Answering, pc \notin {"idle", "down"},
         pc' = "asking" => file'.text = Current.md.text
  PROVE  Contained' /\ Books'
<1>1. file' \in Contents /\ file'.text <= texts
  BY BooksAre, VersionIs
<1>2. Contained' /\ Numbered' /\ (Named(cp))' /\ Current' = Current
  BY <1>1, BooksAre, BooksOfFile DEF IInv, Types, Contained
<1>3. Written'
  BY <1>2, NotOver DEF Written, Answering, Shows, IInv, Types
<1> QED BY <1>2, <1>3 DEF Books

LEMMA WritesBooks ==
  ASSUME IInv, PauseWrites \/ UpdateWrites \/ ApprovalWrites
  PROVE  Contained' /\ Books'
<1>1. NoMem.save = {} /\ UNCHANGED texts
  BY DEF NoMem, PauseWrites, UpdateWrites, ApprovalWrites
<1>2. \A i \in {cp.plan, cp.pending.result} : i # 0 => i \in 1..Len(versions)
  BY NamedIs
<1>3. CASE PauseWrites
  <2>1. /\ UNCHANGED <<cp, versions, ended>> /\ pc = "paused" /\ pc' = "idle" /\ mem' = NoMem
        /\ file' = file \/ (cp.plan # 0 /\ file' = Current.md)
    BY <1>3 DEF PauseWrites, WritePlan, Goto, log
  <2>2. cp.stage # "Approval"
    BY <2>1 DEF IInv, Control, Places
  <2> QED BY <1>1, <1>2, <2>1, <2>2, BooksBeforeApproval DEF Answering, Current
<1>4. CASE UpdateWrites
  <2>1. cp.stage \in Work /\ cp.stage # "Approval" /\ cp.pending.result # 0 /\ pc = "update"
    BY <1>4 DEF UpdateWrites, IInv, Control, Places, Work
  <2>2. CASE WritePlan(versions[cp.pending.result].md) /\ Goto("applied", NoMem)
    <3>1. UNCHANGED <<cp, versions, ended>> /\ pc' = "applied" /\ mem' = NoMem
      BY <2>2 DEF Goto, log
    <3> QED BY <1>1, <1>2, <2>1, <2>2, <3>1, BooksBeforeApproval DEF Answering, WritePlan
  <2>3. CASE Mark("PlanReview", {NewId}, "pause", NoMem) /\ UNCHANGED file
    <3>1. "PlanReview" \in Work /\ "pause" \notin Answering
      BY DEF Work, Answering
    <3> QED BY <1>1, <2>3, <3>1, MarksBooks
  <2> QED BY <1>4, <2>2, <2>3 DEF UpdateWrites
<1>5. CASE ApprovalWrites
  <2>1. pc = "approving"
    BY <1>5 DEF ApprovalWrites
  <2>2. cp.stage # "Approval" /\ cp.plan # 0
    BY <2>1, ReviewIs DEF IInv, Types, Reviewing
  <2>3. /\ UNCHANGED <<cp, versions, ended>> /\ mem' = NoMem
        /\ \/ pc' = "pause" /\ file' = file
           \/ pc' = "asking" /\ file' = Current.md
    BY <1>5 DEF ApprovalWrites, WritePlan, Goto, log, Shown
  <2> QED BY <1>1, <1>2, <2>1, <2>2, <2>3, BooksBeforeApproval DEF Answering, Current
<1> QED BY <1>3, <1>4, <1>5

\* A command renders answers into plan.md: the text stays.
LEMMA ManagedBooks ==
  ASSUME IInv, NEW by \in {"human", "answer"}, NEW answers \in SUBSET Questions,
         NEW where \in Answering, cp.plan # 0, ended = FALSE,
         file' = Rendered(file, answers),
         mem'.save = {Version(by, Rendered(file, answers), answers, Current.asks)},
         pc' = where, UNCHANGED <<cp, versions, ended, texts>>,
         where \in Approving => answers = cp.answers /\ Current.asks \subseteq answers
  PROVE  Contained' /\ Books'
<1>1. file' \in Contents /\ file'.text = file.text /\ file'.sec = {answers}
  BY RenderedTyped DEF IInv, Types, Contained
<1>2. Current.asks \subseteq Questions
  BY NamedIs DEF Current
<1>3. PICK v \in Versions : /\ v.md = file' /\ v.answers = answers /\ v.asks = Current.asks
                            /\ mem'.save = {v}
  BY <1>1, <1>2, VersionTyped
<1>5. Contained' /\ Numbered' /\ (Named(cp))' /\ Current' = Current
  <2>1. file'.text <= texts' /\ texts' \in 0..MaxTexts /\ texts <= texts'
    BY <1>1, BooksAre
  <2> QED BY <1>1, <1>3, <2>1, BooksOfFile
<1>6. \A t : Shows(t) => Shows(t)'
  BY <1>1 DEF Shows, Saved
<1>7. cp.stage = "Approval" => Shows(Current.md.text)
  BY DEF IInv, Books, Written
<1>8. Shows(v.md.text)'
  BY <1>3 DEF Shows
<1>9. where \in Approving => Complete(v)
  BY <1>1, <1>3 DEF Complete
<1>10. Written'
  BY <1>3, <1>5, <1>6, <1>7, <1>8, <1>9 DEF Written, Answering, Approving, Complete
<1> QED BY <1>5, <1>10 DEF Books

LEMMA AnsweringBooks ==
  ASSUME IInv, (\E q \in Questions : AnswerWrites(q)) \/ ApproveWrites
  PROVE  Contained' /\ Books'
<1>1. cp.answers \subseteq Questions
  BY FormedIs DEF IInv, Types
<1>2. \A saved : [NoMem EXCEPT !.save = saved].save = saved
  BY DEF NoMem
<1>3. CASE \E q \in Questions : AnswerWrites(q)
  <2>1. PICK q \in Questions : AnswerWrites(q)
    BY <1>3
  <2> DEFINE answers == cp.answers \cup {q}
             md == Rendered(file, answers)
             v == Version("answer", md, answers, Current.asks)
  <2>2. file' = md /\ Goto("answering", [NoMem EXCEPT !.save = {v}])
    BY <2>1 DEF AnswerWrites, WritePlan
  <2>3. /\ UNCHANGED <<cp, versions, ended, texts>> /\ pc' = "answering" /\ mem'.save = {v}
        /\ cp.plan # 0 /\ ended = FALSE
    BY <1>2, <2>1, <2>2 DEF Goto, log, AnswerWrites, Command, IInv, Types, Formed
  <2>4. answers \in SUBSET Questions
    BY <1>1
  <2> HIDE DEF answers
  <2> QED BY <2>2, <2>3, <2>4, ManagedBooks DEF Answering, Approving
<1>4. CASE ApproveWrites
  <2> DEFINE md == Rendered(file, cp.answers)
             v == Version("human", md, cp.answers, Current.asks)
  <2>1. file' = v.md /\ Goto("approving plan", [NoMem EXCEPT !.save = {v}])
    BY <1>4 DEF ApproveWrites, Edited, WritePlan
  <2>2. /\ UNCHANGED <<cp, versions, ended, texts>> /\ pc' = "approving plan" /\ mem'.save = {v}
        /\ cp.stage = "Approval" /\ Current.asks \subseteq cp.answers
    BY <1>2, <1>4, <2>1 DEF Goto, log, ApproveWrites, Approvable, AtApproval
  <2>3. cp.plan # 0 /\ ended = FALSE
    BY <2>2, ApprovalIs DEF IInv, Types
  <2>4. v.md = md
    BY DEF Version
  <2> QED BY <1>1, <2>1, <2>2, <2>3, <2>4, ManagedBooks DEF Answering, Approving
<1> QED BY <1>3, <1>4

\* Someone's text is one that no version holds.
LEMMA EditBooks ==
  ASSUME IInv, Edit
  PROVE  Contained' /\ Books'
<1>1. /\ file' = [file EXCEPT !.text = texts + 1] /\ texts' = texts + 1 /\ texts < MaxTexts
      /\ UNCHANGED <<cp, versions, ended, pc, mem>>
  BY DEF Edit, log
<1>2. file' \in Contents /\ file'.text = texts'
  BY <1>1, BooksAre DEF Contents
<1>3. ~Saved(file)'
  BY <1>1, <1>2, BooksAre DEF Saved
<1>4. Contained' /\ Numbered' /\ (Named(cp))' /\ Current' = Current
  <2>1. texts' \in 0..MaxTexts /\ texts <= texts' /\ file'.text <= texts'
    BY <1>1, <1>2, BooksAre
  <2>2. \A v \in mem'.save : v.md.text <= texts'
    BY <1>1, BooksAre
  <2> QED BY <1>1, <1>2, <2>1, <2>2, BooksAre, BooksOfFile
<1>5. Written'
  BY <1>1, <1>3, <1>4 DEF Written, Shows, Complete, IInv, Books
<1> QED BY <1>4, <1>5 DEF Books

-----------------------------------------------------------------------------
(* What the plan says: versions are recorded.                              *)

\* One version is recorded, at once or as the new plan.
LEMMA OneMore ==
  ASSUME IInv, NEW v \in Versions, versions' = versions \o <<v>>
  PROVE  /\ Len(versions') = Len(versions) + 1
         /\ versions'[Len(versions) + 1] = v
         /\ \A i \in 1..Len(versions) : versions'[i] = versions[i]
         /\ cp.plan # 0 => cp.answers = versions'[cp.plan].answers
         /\ cp.pending # NoUpdate =>
              \E i \in 1..Len(versions') : versions'[i].md.text = cp.pending.expected.text
<1>1. <<v>> \in Seq(Versions) /\ Len(<<v>>) = 1 /\ <<v>>[1] = v
  BY OneVersion
<1>2. /\ Len(versions') = Len(versions) + 1
      /\ versions'[Len(versions) + 1] = v
      /\ \A i \in 1..Len(versions) : versions'[i] = versions[i]
  BY <1>1, BooksAre, Extended
<1>3. cp.plan # 0 => cp.answers = versions'[cp.plan].answers
  BY <1>2, BooksAre DEF Current
<1>4. cp.pending # NoUpdate =>
        \E i \in 1..Len(versions') : versions'[i].md.text = cp.pending.expected.text
  BY <1>1, BooksAre, SavedStays
<1> QED BY <1>2, <1>3, <1>4

LEMMA DraftedBooks ==
  ASSUME IInv, Drafted
  PROVE  Contained' /\ Books'
<1>1. pc = "drafted" /\ texts' = NextText /\ UNCHANGED file
  BY DraftedIs
<1>2. PICK un \in BOOLEAN, asks \in SUBSET Questions :
        /\ un => cp.stage = "Revise"
        /\ Write(DraftCheckpoint(un), <<DraftVersion(asks)>>, running, open,
                 IF un THEN "pause" ELSE Loop(DraftCheckpoint(un)), NoMem)
  BY DraftedIs
<1> DEFINE d == DraftCheckpoint(un)
           v == DraftVersion(asks)
           n == Len(versions) + 1
<1>3. /\ IsCheckpoint(d) /\ d.stage = "PlanReview" /\ d.answers = cp.answers
      /\ d.plan = IF Updating THEN cp.plan ELSE n
      /\ d.pending.result = IF Updating THEN n ELSE 0
      /\ d.pending.expected = cp.pending.expected
      /\ d.pending = NoUpdate <=> ~Updating
  BY <1>1, <1>2, DraftCheckpointIs DEF IInv, Types, Contained
<1>4. /\ v \in Versions /\ v.md.text = NextText /\ v.answers = cp.answers
      /\ <<v>> \in Seq(Versions) /\ Len(<<v>>) = 1 /\ <<v>>[1] = v
  BY DraftVersionIs
<1>5. /\ cp' = d /\ versions' = versions \o <<v>> /\ ended' = ended /\ mem'.save = {}
      /\ pc' = IF un THEN "pause" ELSE Loop(d)
  BY <1>2 DEF Write, NoMem
<1>6. pc' \in {"pause", "update", "resolve", "draft", "review"} /\ d.stage # "Approval"
  BY <1>3, <1>5, LoopIs DEF Work
<1>7. NextText \in 0..MaxTexts /\ texts <= NextText
  BY NextTextIs DEF IInv, Types, Contained
<1> HIDE DEF d, v
<1>8. /\ d.plan <= n /\ d.pending.result <= n
      /\ d.plan # 0 => d.answers = versions'[d.plan].answers
      /\ d.pending # NoUpdate =>
           \E i \in 1..Len(versions') : versions'[i].md.text = d.pending.expected.text
  BY SMTT(30), <1>3, <1>4, <1>5, OneMore, BooksAre DEF Updating
<1>9. \A i \in 1..Len(<<v>>) : <<v>>[i].md.text <= texts'
  BY <1>1, <1>4, <1>7, PlanningAssumption
<1>10. Contained' /\ Numbered' /\ (Named(cp))'
  BY <1>1, <1>4, <1>5, <1>7, <1>8, <1>9, BooksGrow
<1>11. Written'
  <2>1. ended' = FALSE
    BY <1>1, <1>5, NotOver DEF IInv, Types
  <2> QED BY <1>3, <1>5, <1>6, <2>1, NothingWritten DEF Answering
<1> QED BY <1>10, <1>11 DEF Books

\* A person's version becomes the plan, and is reviewed.
LEMMA BooksReviewed ==
  ASSUME IInv, NEW v \in Versions, v.md.text <= texts, versions' = versions \o <<v>>,
         UNCHANGED <<file, texts>>, mem'.save = {}, ended' = FALSE,
         cp'.stage = "PlanReview", cp'.plan = Len(versions) + 1, cp'.answers = v.answers,
         \/ cp'.pending = cp.pending
         \/ cp'.pending.result = Len(versions) + 1 /\ cp'.pending.expected.text = v.md.text,
         pc' \in {"update", "resolve", "draft", "review"}
  PROVE  Contained' /\ Books'
<1>1. <<v>> \in Seq(Versions) /\ Len(<<v>>) = 1 /\ <<v>>[1] = v
  BY OneVersion
<1>2. /\ cp'.pending.result <= Len(versions) + 1 /\ Len(versions) + 1 \in 1..Len(versions')
      /\ cp'.answers = versions'[cp'.plan].answers
      /\ cp'.pending # NoUpdate =>
           \E i \in 1..Len(versions') : versions'[i].md.text = cp'.pending.expected.text
  <2> DEFINE n == Len(versions) + 1
  <2>1. n \in Nat /\ n \in 1..Len(versions') /\ versions'[n] = v
    BY OneMore, BooksAre
  <2>2. CASE cp'.pending = cp.pending
    <3>1. cp.pending.result <= n
      BY BooksAre
    <3> QED BY <2>1, <2>2, <3>1, OneMore
  <2>3. CASE cp'.pending.result = n /\ cp'.pending.expected.text = v.md.text
    BY <2>1, <2>3
  <2> QED BY <2>2, <2>3
<1>3. \A i \in 1..Len(<<v>>) : <<v>>[i].md.text <= texts'
  BY <1>1
<1>a. cp'.plan <= Len(versions) + Len(<<v>>) /\ cp'.pending.result <= Len(versions) + Len(<<v>>)
  BY <1>1, <1>2, BooksAre
<1>4. texts' \in 0..MaxTexts /\ texts <= texts'
  BY BooksAre
<1>5. Contained' /\ Numbered' /\ (Named(cp))'
  BY <1>1, <1>2, <1>3, <1>4, <1>a, BooksGrow
<1>6. Written'
  BY NothingWritten DEF Answering
<1> QED BY <1>5, <1>6 DEF Books

LEMMA RequestChangesBooks ==
  ASSUME IInv, RequestChanges
  PROVE  Contained' /\ Books'
<1> DEFINE n == Len(versions) + 1
           d == [cp EXCEPT !.stage = "PlanReview", !.plan = n, !.round = 1]
           v == Edited(cp.answers, Current.asks, file)
<1>1. cp.stage = "Approval" /\ UNCHANGED <<file, texts>>
  BY DEF RequestChanges, AtApproval, disk
<1>2. cp.plan # 0 /\ ended = FALSE
  BY <1>1, ApprovalIs DEF IInv, Types
<1>3. /\ cp' = d /\ versions' = versions \o <<v>> /\ ended' = ended /\ pc' = "review"
      /\ mem'.save = {}
  BY DEF RequestChanges, Write, NoMem
<1>4. d.stage = "PlanReview" /\ d.plan = n /\ d.answers = cp.answers /\ d.pending = cp.pending
  BY FormedIs DEF IInv, Types
<1>5. v \in Versions /\ v.md.text = file.text /\ v.answers = cp.answers
  BY <1>2, NamedIs, FormedIs, BooksAre, RenderedTyped, VersionTyped
  DEF Edited, Current, IInv, Types
<1> HIDE DEF d, v
<1> QED BY <1>1, <1>2, <1>3, <1>4, <1>5, BooksAre, BooksReviewed

LEMMA ResumeBooks ==
  ASSUME IInv, Resume
  PROVE  Contained' /\ Books'
<1> DEFINE n == Len(versions) + 1
<1>1. cp.stage = "Escalated" /\ UNCHANGED <<file, texts>>
  BY ResumeIs DEF Resumable
<1>2. ended = FALSE /\ NoMem.save = {}
  BY <1>1, EscalatedIs DEF IInv, Types, NoMem
<1>3. ASSUME NEW d, IsCheckpoint(d), d.stage \in Work, NEW saved, ResumedWith(d, saved)
      PROVE  /\ cp' = d /\ versions' = versions \o saved /\ ended' = ended /\ mem'.save = {}
             /\ pc' = Loop(d) /\ pc' \in {"update", "resolve", "draft", "review"}
  BY <1>2, <1>3, LoopIs DEF ResumedWith, Write
<1>4. CASE EditedUnderUpdate /\ ResumedWith(ResumeUpdate(n), <<UpdateVersion>>)
  <2> DEFINE d == ResumeUpdate(n)
             v == UpdateVersion
  <2>1. Updating
    BY <1>4 DEF EditedUnderUpdate
  <2>2. /\ IsCheckpoint(d) /\ d.stage = "PlanReview" /\ d.plan = n /\ d.answers = Basis.answers
        /\ d.pending.expected = file /\ d.pending.result = n /\ d.stage \in Work
    BY <1>1, <2>1, ResumedUpdateIs DEF Work
  <2>3. v \in Versions /\ v.md.text = file.text /\ v.answers = Basis.answers
    BY <2>1, UpdateVersionIs
  <2> HIDE DEF d, v
  <2>4. ResumedWith(d, <<v>>)
    BY <1>4 DEF d, v
  <2>5. /\ cp' = d /\ versions' = versions \o <<v>> /\ ended' = FALSE /\ mem'.save = {}
        /\ pc' \in {"update", "resolve", "draft", "review"}
    BY <1>2, <1>3, <2>2, <2>4
  <2>6. v.md.text <= texts
    BY <2>3, BooksAre
  <2> QED BY <1>1, <2>2, <2>3, <2>5, <2>6, BooksReviewed
<1>5. CASE EditedReview /\ ResumedWith(EditedCheckpoint(n), <<EditedVersion>>)
  <2> DEFINE d == EditedCheckpoint(n)
             v == EditedVersion
  <2>1. cp.plan # 0
    BY <1>5 DEF EditedReview
  <2>2. /\ IsCheckpoint(d) /\ d.stage = "PlanReview" /\ d.plan = n /\ d.answers = cp.answers
        /\ d.pending = cp.pending /\ d.stage \in Work
    BY EditedCheckpointIs DEF Work
  <2>3. v \in Versions /\ v.md.text \in {file.text, Current.md.text} /\ v.answers = cp.answers
    BY <2>1, EditedVersionIs
  <2>4. v.md.text <= texts
    BY <2>1, <2>3, BooksAre DEF Current
  <2> HIDE DEF d, v
  <2>5. ResumedWith(d, <<v>>)
    BY <1>5 DEF d, v
  <2> QED BY <1>1, <1>2, <1>3, <2>2, <2>3, <2>4, <2>5, BooksReviewed
<1>6. CASE ResumedWith(ContinuedCheckpoint, <<>>)
  <2> DEFINE d == ContinuedCheckpoint
  <2>1. /\ IsCheckpoint(d) /\ d.stage \in Work
        /\ d.plan = cp.plan /\ d.answers = cp.answers /\ d.pending = cp.pending
    BY <1>1, ContinuedIs, EscalatedIs DEF IInv, Types
  <2> HIDE DEF d
  <2>2. ResumedWith(d, <<>>)
    BY <1>6 DEF d
  <2>3. /\ cp' = d /\ versions' = versions /\ ended' = ended /\ mem'.save = {}
        /\ pc' \in {"update", "resolve", "draft", "review"}
    BY <1>3, <2>1, <2>2, NothingRecorded
  <2>4. cp'.stage # "Approval"
    BY <2>1, <2>3 DEF Work
  <2> QED BY <1>1, <2>1, <2>3, <2>4, BooksKept DEF Answering, Approving
<1> QED BY <1>4, <1>5, <1>6, ResumeIs

LEMMA AcceptedBooks ==
  ASSUME IInv, NEW v \in 0..Len(versions), UpdateAccepted(v)
  PROVE  Contained' /\ Books'
<1> DEFINE d == AcceptedCheckpoint(v)
           edited == EditedVersions
           restored == RestoredVersions(v)
           saved == edited \o restored
<1>1. cp.stage = "Approval" /\ UNCHANGED <<file, texts>>
  BY UpdateAcceptedIs DEF AtApproval
<1>2. /\ cp' = d /\ versions' = versions \o saved /\ ended' = ended /\ mem'.save = {}
      /\ pc' = Loop(d)
  BY UpdateAcceptedIs DEF Write, NoMem
<1>3. /\ IsCheckpoint(d) /\ d.stage \in {"PlanReview", "Revise"}
      /\ d.plan = IF edited = <<>> THEN cp.plan ELSE Len(versions) + 1
      /\ d.answers = cp.answers /\ d.pending.expected = file
      /\ d.pending.result \in {0, Len(versions) + Len(saved)}
  BY <1>1, AcceptedIs DEF AcceptedBase
<1>4. /\ edited \in Seq(Versions) /\ restored \in Seq(Versions) /\ saved \in Seq(Versions)
      /\ \/ edited = <<>> /\ file = Current.md
         \/ /\ Len(edited) = 1 /\ edited # <<>>
            /\ edited[1].md = file /\ edited[1].answers = cp.answers
      /\ restored = <<>> \/ (Len(restored) = 1 /\ v # 0 /\ restored[1].md = versions[v].md)
  BY <1>1, AcceptedVersionsAre DEF RestoredVersions
<1>5. cp.plan # 0 /\ ended = FALSE /\ cp.plan \in 1..Len(versions)
  BY <1>1, ApprovalIs, NamedIs DEF IInv, Types
<1>6. pc' \in {"update", "resolve", "draft", "review"} /\ d.stage # "Approval"
  BY <1>2, <1>3, LoopIs DEF Work
<1> HIDE DEF d, edited, restored
<1>7. /\ Len(edited) \in Nat /\ Len(restored) \in Nat /\ Len(saved) = Len(edited) + Len(restored)
      /\ \A i \in 1..Len(edited) : saved[i] = edited[i]
      /\ \A i \in 1..Len(restored) : saved[Len(edited) + i] = restored[i]
  BY <1>4, ConcatProperties, LenProperties
<1>8. ASSUME NEW i \in 1..Len(saved)
      PROVE  saved[i].md.text <= texts
  <2>1. CASE i \in 1..Len(edited)
    <3>1. edited # <<>>
      BY <1>7, <2>1
    <3>2. Len(edited) = 1 /\ edited[1].md = file
      BY <1>4, <3>1
    <3>3. i = 1 /\ saved[i] = edited[1]
      BY <1>7, <2>1, <3>2
    <3> QED BY <3>2, <3>3, BooksAre
  <2>2. CASE i \notin 1..Len(edited)
    <3>1. Len(restored) = 1 /\ v # 0 /\ restored[1].md = versions[v].md /\ i = Len(edited) + 1
      BY <1>4, <1>7, <2>2
    <3>2. saved[i] = restored[1] /\ v \in 1..Len(versions)
      BY <1>7, <3>1, BooksAre
    <3> QED BY <3>1, <3>2, BooksAre
  <2> QED BY <2>1, <2>2
<1>9. /\ Len(versions) \in Nat /\ Len(versions') = Len(versions) + Len(saved)
      /\ \A i \in 1..Len(versions) : versions'[i] = versions[i]
      /\ \A i \in 1..Len(saved) : versions'[Len(versions) + i] = saved[i]
  BY <1>2, <1>4, BooksAre, Extended
\* The new plan is the working copy, under the answers there were.
<1>10. /\ d.plan \in 1..Len(versions') /\ versions'[d.plan].md = file
       /\ versions'[d.plan].answers = cp.answers
  <2>1. CASE edited = <<>>
    BY <1>3, <1>4, <1>5, <1>7, <1>9, <2>1, BooksAre DEF Current
  <2>2. CASE edited # <<>>
    <3>1. 1 \in 1..Len(saved) /\ saved[1] = edited[1]
      BY <1>4, <1>7, <2>2
    <3>2. d.plan = Len(versions) + 1 /\ versions'[Len(versions) + 1] = edited[1]
      BY <1>3, <1>9, <2>2, <3>1
    <3> QED BY <1>4, <1>7, <1>9, <2>2, <3>1, <3>2
  <2> QED BY <2>1, <2>2
<1>11. d.plan <= Len(versions) + Len(saved) /\ d.pending.result <= Len(versions) + Len(saved)
  BY <1>3, <1>7, <1>9, <1>10
<1>12. texts' \in 0..MaxTexts /\ texts <= texts'
  BY <1>1, BooksAre
<1>13. Contained' /\ Numbered' /\ (Named(cp))'
  BY <1>1, <1>2, <1>3, <1>4, <1>8, <1>10, <1>11, <1>12, BooksGrow
<1>14. Written'
  BY <1>2, <1>5, <1>6, NothingWritten DEF Answering
<1> QED BY <1>13, <1>14 DEF Books

\* The update's result becomes the plan, with its answers.
LEMMA AppliedBooks ==
  ASSUME IInv, UpdateApplied
  PROVE  Contained' /\ Books'
<1> DEFINE r == cp.pending.result
           v == versions[r]
           d == Applied(v)
<1>1. /\ pc = "applied" /\ cp' = d /\ versions' = versions /\ ended' = ended /\ mem'.save = {}
      /\ pc' = Loop(d) /\ UNCHANGED <<file, texts>>
  BY NothingRecorded DEF UpdateApplied, Write, NoMem, Rest, disk
<1>2. cp.stage \in Work /\ r # 0 /\ cp.pending # NoUpdate
  BY <1>1, FormedIs, UpdateIs DEF IInv, Types, Control, Places
<1>3. r \in 1..Len(versions) /\ Saved(v.md)
  BY <1>2, NamedIs
<1>4. /\ d.plan = r /\ d.answers = v.answers /\ d.stage = cp.stage
      /\ d.pending = [cp.pending EXCEPT !.expected = v.md]
  BY FormedIs DEF Applied, IInv, Types
<1>5. d.pending.result = r /\ d.pending.expected = v.md
  BY <1>4, FormedIs DEF IInv, Types, IsUpdate, Updates
<1>6. pc' \in {"update", "resolve", "draft", "review", "idle"}
  BY <1>1 DEF Loop, AtStage
<1> HIDE DEF d
<1>7. (Named(cp))'
  BY <1>1, <1>3, <1>4, <1>5, BooksAre DEF Named, Saved
<1>8. Contained' /\ Numbered'
  BY <1>1, BooksAre DEF Contained, Numbered
<1>9. Written'
  BY <1>1, <1>2, <1>4, <1>6, NotOver, NothingWritten DEF Answering, Work, IInv, Types
<1> QED BY <1>7, <1>8, <1>9 DEF Books

\* What a command rendered is recorded.
LEMMA RecordedBooks ==
  ASSUME IInv, AnswerRecorded \/ ApproveRecorded
  PROVE  Contained' /\ Books'
<1>1. pc \in Answering /\ UNCHANGED <<file, texts>>
  BY DEF AnswerRecorded, ApproveRecorded, Rest, disk, Answering
<1>2. PICK v \in Versions : mem.save = {v}
  BY <1>1 DEF IInv, Books, Written, Answering
<1>3. /\ Shows(v.md.text) /\ v.md.text <= texts
      /\ pc \in Approving => Complete(v) /\ v.answers = cp.answers
  BY <1>1, <1>2, BooksAre DEF IInv, Books, Written, Answering, Approving
<1> DEFINE n == Len(versions) + 1
<1>4. /\ versions' = versions \o <<v>> /\ cp'.plan = n /\ cp'.answers = v.answers
      /\ cp'.pending = cp.pending /\ pc' = "idle" /\ mem'.save = {}
      /\ cp'.stage \in {cp.stage, "Approved"}
      /\ \/ ended' = FALSE
         \/ cp'.stage = "Approved" /\ Complete(v)
  <2> USE FormedIs DEF IInv, Types
  <2>1. NoMem.save = {}
    BY DEF NoMem
  <2>2. CASE AnswerRecorded
    <3> DEFINE d == [cp EXCEPT !.plan = n, !.answers = v.answers]
    <3>1. /\ cp' = d /\ versions' = versions \o <<v>> /\ ended' = ended /\ pc' = "idle"
          /\ mem' = NoMem /\ pc = "answering"
      BY <1>2, <2>2 DEF AnswerRecorded, Write
    <3>2. d.plan = n /\ d.answers = v.answers /\ d.pending = cp.pending /\ d.stage = cp.stage
      OBVIOUS
    <3> HIDE DEF d
    <3> QED BY <2>1, <3>1, <3>2, NotOver
  <2>3. CASE ApproveRecorded
    <3> DEFINE d == [cp EXCEPT !.stage = "Approved", !.plan = n]
    <3>1. /\ cp' = d /\ versions' = Append(versions, v) /\ pc' = "idle" /\ mem' = NoMem
          /\ pc \in Approving
      BY <1>2, <2>3 DEF ApproveRecorded, Approving
    <3>2. d.plan = n /\ d.answers = cp.answers /\ d.pending = cp.pending /\ d.stage = "Approved"
      OBVIOUS
    <3>3. Append(versions, v) = versions \o <<v>>
      BY <1>2, BooksAre, AppendIsConcat
    <3> HIDE DEF d
    <3> QED BY <1>3, <2>1, <3>1, <3>2, <3>3
  <2> QED BY <2>2, <2>3 DEF AnswerRecorded, ApproveRecorded
<1>5. /\ <<v>> \in Seq(Versions) /\ Len(<<v>>) = 1 /\ <<v>>[1] = v
      /\ Len(versions') = n /\ versions'[n] = v /\ n \in Nat
      /\ \A i \in 1..Len(versions) : versions'[i] = versions[i]
      /\ cp.pending # NoUpdate =>
           \E i \in 1..Len(versions') : versions'[i].md.text = cp.pending.expected.text
  BY SMTT(30), <1>4, OneVersion, OneMore, BooksAre
<1>6. Contained' /\ Numbered' /\ (Named(cp))'
  <2>1. cp'.plan <= Len(versions) + Len(<<v>>) /\ cp'.pending.result <= Len(versions) + Len(<<v>>)
    BY <1>4, <1>5, BooksAre
  <2>2. texts' \in 0..MaxTexts /\ texts <= texts'
    BY <1>1, BooksAre
  <2>3. \A i \in 1..Len(<<v>>) : <<v>>[i].md.text <= texts'
    BY <1>1, <1>3, <1>5
  <2>4. cp'.plan # 0 => cp'.answers = versions'[cp'.plan].answers
    BY <1>4, <1>5
  <2> QED BY <1>1, <1>4, <1>5, <2>1, <2>2, <2>3, <2>4, BooksGrow
<1>7. Current' = v
  BY <1>4, <1>5 DEF Current
<1>8. Shows(v.md.text)'
  <2>1. CASE file.text = v.md.text
    BY <1>1, <2>1 DEF Shows
  <2>2. CASE file.text # v.md.text
    <3>1. ~Saved(file)
      BY <1>3, <2>2 DEF Shows
    <3>2. \A i \in 1..Len(versions') : i \in 1..Len(versions) \/ i = n
      BY <1>5, BooksAre
    <3> QED BY <1>1, <1>5, <2>2, <3>1, <3>2 DEF Shows, Saved
  <2> QED BY <2>1, <2>2
<1>9. Written'
  BY <1>4, <1>7, <1>8 DEF Written
<1> QED BY <1>6, <1>9 DEF Books

-----------------------------------------------------------------------------
(* The invariant.                                                          *)

LEMMA Initially == Init => IInv
<1> SUFFICES ASSUME Init PROVE IInv
  OBVIOUS
<1>1. /\ cp.stage = "ResolveWorkItem" /\ cp.round = 0 /\ cp.plan = 0 /\ cp.answers = {}
      /\ cp.pending = NoUpdate /\ cp.flight = NoFlight
      /\ DOMAIN cp = {"stage", "round", "plan", "answers", "pending", "flight"}
      /\ versions = <<>> /\ running = {} /\ open = {} /\ ended = FALSE /\ worktree = FALSE
      /\ file = NoFile /\ pc = "resolve" /\ mem = NoMem /\ threw = FALSE /\ texts = 0
  BY DEF Init
<1>2. Formed
  <2>1. IsUpdate(cp.pending) /\ IsFlight(cp.flight) /\ IsMem(mem)
    BY <1>1, NothingTyped
  <2>2. cp.stage \in Stages /\ cp.round \in 0..MaxRounds /\ cp.plan \in Nat
    BY <1>1, PlanningAssumption DEF Stages
  <2>3. IsCheckpoint(cp)
    BY <1>1, <2>1, <2>2 DEF IsCheckpoint
  <2> QED BY <1>1, <2>1, <2>3 DEF Formed
<1>3. Contained
  <2>1. NoMem.save = {} /\ NoFile \in Contents
    BY NothingTyped, PlanningAssumption DEF NoMem, NoFile, Content, Contents
  <2> QED BY <1>1, <2>1, PlanningAssumption, EmptySeq DEF Contained
<1>4. Control
  <2>1. Position(cp)
    BY <1>1, NothingTyped DEF Position, At, Early, Work
  <2>2. Owned(cp, running, open)
    BY <1>1 DEF Owned
  <2>3. Places /\ Ending
    BY <1>1, NothingTyped DEF Places, Ending, Engine, Reviewing
  <2> QED BY <2>1, <2>2, <2>3 DEF Control
<1>5. Books
  <2>1. Len(versions) = 0 /\ NoFile.text = 0 /\ NoMem.save = {}
    BY <1>1, EmptySeq DEF NoFile, Content, NoMem
  <2>2. Numbered /\ Named(cp)
    BY <1>1, <2>1, NothingTyped DEF Numbered, Named
  <2>3. Written
    BY <1>1 DEF Written
  <2> QED BY <2>2, <2>3 DEF Books
<1> QED BY <1>2, <1>3, <1>4, <1>5 DEF IInv, Types

LEMMA EngineKeeps ==
  ASSUME IInv, EngineNext
  PROVE  IInv'
<1>0. Formed /\ Control
  BY DEF IInv, Types
<1> SUFFICES Formed' /\ Control' /\ Contained' /\ Books'
  BY DEF IInv, Types
<1>1. CASE PauseGates \/ PauseWrites
  BY <1>0, <1>1, PauseControl, GateBooks, WritesBooks
<1>2. CASE UpdateWrites \/ UpdateApplied
  BY <1>2, UpdateControl, WritesBooks, AppliedBooks
<1>3. CASE ResolveMarked \/ DraftMarked
  BY <1>0, <1>3, MarkedControl, GateBooks
<1>4. CASE ResolveStarts \/ DraftStarts
  BY <1>0, <1>4, StartedControl, AgentBooks
<1>5. CASE WorktreeCreated \/ Resolved
  BY <1>0, <1>5, ResolvedControl, AgentBooks
<1>6. CASE DraftEnds \/ Drafted
  BY <1>0, <1>6, DraftEndsControl, AgentBooks, DraftedControl, DraftedBooks
<1>7. CASE ReviewMarked \/ ReviewDecided
  BY <1>0, <1>7, ReviewMarkedControl, GateBooks, ReviewDecidedControl, DecidedBooks
<1>8. CASE \E s \in cp.flight.steps :
             ReviewStepStarts(s) \/ ReviewStepUnborn(s) \/ ReviewStepEnds(s)
  BY <1>0, <1>8, ReviewStepControl, ReviewEndsControl, ReviewBooks
<1>9. CASE ApprovalWrites \/ ApprovalAsked
  BY <1>0, <1>9, ApprovalWritesControl, WritesBooks, ApprovalAskedControl, DecidedBooks
<1>10. CASE ApproveRemoves
  BY <1>0, <1>10, AnsweringControl, DecidedBooks
<1>11. CASE AnswerRecorded \/ ApproveRecorded
  BY <1>11, RecordedControl, RecordedBooks
<1> QED BY <1>1, <1>2, <1>3, <1>4, <1>5, <1>6, <1>7, <1>8, <1>9, <1>10, <1>11 DEF EngineNext

LEMMA CommandKeeps ==
  ASSUME IInv, CommandNext
  PROVE  IInv'
<1>0. Formed /\ Control
  BY DEF IInv, Types
<1> SUFFICES Formed' /\ Control' /\ Contained' /\ Books'
  BY DEF IInv, Types
<1>1. CASE Resume
  BY <1>1, ResumeControl, ResumeBooks
<1>2. CASE RequestChanges
  BY <1>2, RequestChangesControl, RequestChangesBooks
<1>3. CASE \E v \in 0..Len(versions) : UpdateAccepted(v)
  BY <1>3, UpdateAcceptedControl, AcceptedBooks
<1>4. CASE (\E q \in Questions : AnswerWrites(q)) \/ ApproveWrites
  BY <1>0, <1>4, AnsweringControl, AnsweringBooks
<1> QED BY <1>1, <1>2, <1>3, <1>4 DEF CommandNext

LEMMA NothingHappens ==
  ASSUME IInv, UNCHANGED vars
  PROVE  IInv'
<1> USE DEF vars, log, disk
<1>1. Types'
  BY DEF IInv, Types, Formed, Contained
<1>2. Control'
  <2>1. Position(cp)' /\ Owned(cp, running, open)' /\ Ending'
    BY DEF IInv, Control, Position, At, Early, Owned, Ending
  <2>2. Verifier' = Verifier
    BY DEF Verifier
  <2>3. Places'
    BY ZenonT(60), <2>2 DEF IInv, Control, Places, Engine, Commands, Reviewing, Work
  <2> QED BY <2>1, <2>3 DEF Control
<1>3. Books'
  <2>1. Numbered' /\ (Named(cp))'
    BY DEF IInv, Books, Numbered, Named, Saved
  <2>2. Current' = Current /\ (\A t : Shows(t)' <=> Shows(t))
    BY DEF Current, Shows, Saved
  <2>3. Written'
    BY <2>2 DEF IInv, Books, Written, Complete
  <2> QED BY <2>1, <2>3 DEF Books
<1> QED BY <1>1, <1>2, <1>3 DEF IInv

LEMMA Stepwise == IInv /\ [PlanningNext]_vars => IInv'
<1> SUFFICES ASSUME IInv, [PlanningNext]_vars PROVE IInv'
  OBVIOUS
<1>0. Formed /\ Control
  BY DEF IInv, Types
<1>1. CASE EngineNext
  BY <1>1, EngineKeeps
<1>2. CASE CommandNext
  BY <1>2, CommandKeeps
<1>3. CASE Restart \/ Crash \/ Fault \/ Edit
  BY <1>0, <1>3, RestartControl, CrashControl, FaultControl, StopsBooks, EditControl, EditBooks
  DEF IInv, Types
<1>4. CASE UNCHANGED vars
  BY <1>4, NothingHappens
<1> QED BY <1>1, <1>2, <1>3, <1>4 DEF PlanningNext

LEMMA InvariantHolds == Spec => []IInv
BY Initially, Stepwise, PTL DEF Spec

-----------------------------------------------------------------------------
(* What follows.                                                           *)

\* The checkpoint, the versions it names and plan.md have their types at every step.
THEOREM TypeCorrect == Spec => []TypeOK
<1>1. IInv => TypeOK
  <2> SUFFICES ASSUME IInv PROVE TypeOK
    OBVIOUS
  <2>1. /\ cp.stage \in Stages /\ cp.round \in 0..MaxRounds /\ cp.answers \subseteq Questions
        /\ cp.pending.expected \in Contents
    BY FormedIs, UpdateIs DEF IInv, Types
  <2>2. cp.plan \in 0..Len(versions) /\ cp.pending.result \in 0..Len(versions)
    BY BooksAre
  <2> QED BY <2>1, <2>2 DEF TypeOK, IInv, Types, Formed, Contained, Control, Ending
<1> QED BY <1>1, InvariantHolds, PTL

\* A run that is not at work takes a resume or, at its approval gate, a decision,
\* whatever was interrupted (commands.ts, openFactory and pause).
THEOREM RunsTakeCommands == Spec => []EveryRunHasCommand
<1>1. IInv => EveryRunHasCommand
  <2> SUFFICES ASSUME IInv, pc = "idle", ~ended, ~threw
               PROVE  \/ Resumable /\ running \subseteq cp.flight.steps
                      \/ AtApproval /\ running = GatedSteps
    BY DEF EveryRunHasCommand
  <2>0. Formed /\ Control
    BY DEF IInv, Types
  <2>1. CASE cp.stage = "Approval"
    BY <2>0, <2>1, ApprovalIs
  <2>2. CASE cp.stage = "Escalated"
    <3>1. cp.flight # NoFlight
      BY <2>0, <2>2, EscalatedIs, FormedIs, FlightIs
    <3> QED BY <2>0, <2>2, <3>1, UsedIs DEF Resumable
  <2> QED BY <2>0, <2>1, <2>2 DEF Control, Places
<1> QED BY <1>1, InvariantHolds, PTL

\* What is approved is what was shown: at the approval gate plan.md, the plan and the
\* answers belong together, and what ends as approved is complete (commands.ts,
\* answer, approve, acceptPlanUpdate and finishReview).
THEOREM ApprovalConsistent == Spec => []ApprovalIsConsistent
<1>1. IInv => ApprovalIsConsistent
  <2> SUFFICES ASSUME IInv PROVE ApprovalIsConsistent
    OBVIOUS
  <2>0. Formed /\ Control
    BY DEF IInv, Types
  <2>1. ApprovalShowsPlan
    BY DEF IInv, Books, Written, Shows, ApprovalShowsPlan, AtApproval
  <2>2. AnswersFollowPlan
    BY <2>0, ApprovalIs, BooksAre DEF AnswersFollowPlan, AtApproval
  <2>3. ApprovedIsComplete
    <3> SUFFICES ASSUME ended
                 PROVE  /\ Current.asks \subseteq Current.answers
                        /\ Current.md.sec = {Current.answers}
                        /\ ~worktree /\ running = {} /\ open = {}
      BY DEF ApprovedIsComplete
    <3>1. cp.stage = "Approved" /\ ~worktree
      BY <2>0 DEF Control, Ending
    <3>2. cp.flight.steps = {}
      BY <2>0, <3>1, FormedIs DEF Control, Position, IsFlight
    <3>3. running = {} /\ open = {}
      BY <2>0, <3>1, <3>2, AtWork DEF Stepped
    <3> QED BY <3>1, <3>3 DEF IInv, Books, Written, Complete
  <2> QED BY <2>1, <2>2, <2>3 DEF ApprovalIsConsistent
<1> QED BY <1>1, InvariantHolds, PTL

-----------------------------------------------------------------------------
(* Hand edits.                                                             *)

\* Few actions write plan.md.
LEMMA FewWrite ==
  ASSUME [PlanningNext]_vars, file' # file
  PROVE  \/ PauseWrites \/ UpdateWrites \/ ApprovalWrites \/ ApproveWrites \/ Edit
         \/ \E q \in Questions : AnswerWrites(q)
<1>1. ~UNCHANGED vars
  BY DEF vars, disk
<1>2. EngineNext => PauseWrites \/ UpdateWrites \/ ApprovalWrites
  <2> USE DEF Rest, disk
  <2>1. ~PauseGates /\ ~UpdateApplied /\ ~ResolveMarked /\ ~ResolveStarts /\ ~WorktreeCreated
        /\ ~Resolved /\ ~DraftMarked /\ ~DraftStarts /\ ~DraftEnds /\ ~Drafted
    BY DEF PauseGates, UpdateApplied, ResolveMarked, ResolveStarts, WorktreeCreated, Resolved,
           DraftMarked, DraftStarts, DraftEnds, Drafted
  <2>2. /\ ~ReviewMarked /\ ~ReviewDecided /\ ~ApprovalAsked /\ ~AnswerRecorded
        /\ ~ApproveRemoves /\ ~ApproveRecorded
        /\ \A s : ~ReviewStepStarts(s) /\ ~ReviewStepUnborn(s) /\ ~ReviewStepEnds(s)
    BY DEF ReviewMarked, ReviewDecided, ApprovalAsked, AnswerRecorded, ApproveRemoves,
           ApproveRecorded, ReviewStepStarts, ReviewStepUnborn, ReviewStepEnds
  <2> QED BY <2>1, <2>2 DEF EngineNext
<1>3. CommandNext => ApproveWrites \/ \E q \in Questions : AnswerWrites(q)
  <2>1. ~Resume /\ ~RequestChanges /\ \A v : ~UpdateAccepted(v)
    BY DEF Resume, RequestChanges, UpdateAccepted, disk
  <2> QED BY <2>1 DEF CommandNext
<1>4. ~Restart /\ ~Crash /\ ~Fault
  BY DEF Restart, Crash, Fault, disk
<1> QED BY <1>1, <1>2, <1>3, <1>4 DEF PlanningNext

\* While an update is pending, nothing but another edit replaces a text that only
\* plan.md holds (usage.md; commands.ts, run and finishReview).
THEOREM EditsOutliveUpdates == Spec => UpdateKeepsEdits
<1> DEFINE Kept == Updating /\ file # NoFile /\ file'.text # file.text =>
                     Saved(file) \/ ~Saved(file)'
<1>1. ASSUME IInv, [PlanningNext]_vars PROVE Kept
  <2> SUFFICES ASSUME Updating, file'.text # file.text
               PROVE  Saved(file) \/ ~Saved(file)'
    OBVIOUS
  <2>1. Saved(cp.pending.expected)
    BY <1>1, BooksAre DEF Updating
  <2>2. ~PauseWrites
    BY DEF PauseWrites
  <2>3. CASE UpdateWrites
    <3> DEFINE md == versions[cp.pending.result].md
    <3>1. CASE file = cp.pending.expected
      BY <2>1, <3>1
    <3>2. CASE file # cp.pending.expected
      BY <2>3, <3>2 DEF UpdateWrites, Untouched, WritePlan
    <3> QED BY <3>1, <3>2
  <2>4. CASE ApprovalWrites
    <3>1. file = cp.pending.expected
      BY <2>4 DEF ApprovalWrites, Untouched
    <3> QED BY <2>1, <3>1
  <2>5. ~ApproveWrites
    <3>1. file \in Contents /\ cp.answers \subseteq Questions
      BY <1>1, BooksAre, FormedIs DEF IInv, Types
    <3>2. ApproveWrites => file' = Rendered(file, cp.answers)
      BY DEF ApproveWrites, Edited, Version, WritePlan
    <3> QED BY <3>1, <3>2, RenderedTyped
  <2>6. \A q \in Questions : ~AnswerWrites(q)
    <3>1. SUFFICES ASSUME NEW q \in Questions, AnswerWrites(q) PROVE FALSE
      OBVIOUS
    <3>2. file' = Rendered(file, cp.answers \cup {q})
      BY <3>1 DEF AnswerWrites, WritePlan
    <3>3. file \in Contents /\ cp.answers \cup {q} \in SUBSET Questions
      BY <1>1, BooksAre, FormedIs DEF IInv, Types
    <3> QED BY <3>2, <3>3, RenderedTyped
  <2>7. CASE Edit
    <3>1. file' = [file EXCEPT !.text = texts + 1] /\ versions' = versions
      BY <2>7 DEF Edit, log
    <3>2. file'.text = texts + 1
      BY <1>1, <3>1, BooksAre DEF Contents
    <3> QED BY <1>1, <3>1, <3>2, BooksAre DEF Saved
  <2>8. file' # file
    OBVIOUS
  <2> QED BY <1>1, <2>2, <2>3, <2>4, <2>5, <2>6, <2>7, <2>8, FewWrite
<1>2. IInv /\ [PlanningNext]_vars => [Kept]_vars
  BY <1>1
<1> QED BY <1>2, InvariantHolds, PTL DEF Spec, UpdateKeepsEdits
=============================================================================
