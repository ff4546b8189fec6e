-------------------------- MODULE PiHandlerProofs --------------------------
(***************************************************************************)
(* Proofs about module PiHandler, for any names, objects, values, files,   *)
(* manifests and processes: the journal explains the settings file,        *)
(* whatever failed and whoever edited, and no edit is overwritten.         *)
(***************************************************************************)
EXTENDS PiHandler, FiniteSetTheorems, TLAPS

(***************************************************************************)
(* The types of everything, as the proofs need them.                       *)
(***************************************************************************)
Vals == Values \cup {Absent}
Ownership == [Keys -> [last : Vals, orig : Vals]]
Files == [val : Declarations, boxes : SUBSET Boxes, torn : BOOLEAN]
Ops == [key : Keys, before : Vals, after : Vals, prune : SUBSET Boxes,
        owned : Ownership, boxes : SUBSET Boxes]
Journals == [owned : Ownership, boxes : SUBSET Boxes, op : Ops \cup {NoOp}, repair : BOOLEAN]
Mems == [op : Ops \cup {NoOp}, seen : Files, expected : Files,
         fresh : BOOLEAN, failed : BOOLEAN]
Children == [key : Keys \cup {"none"}, to : Vals, wrote : BOOLEAN]
Mines == [val : Declarations, boxes : SUBSET Boxes]

Types ==
  /\ file \in Files /\ Shaped(file)
  /\ journal \in Journals
  /\ lock \in BOOLEAN /\ want \in Manifests
  /\ hub \in [Hubs -> [pc : Working \cup {"idle", "checked"}, goal : Declarations]]
  /\ mem \in Mems
  /\ child \in Children
  /\ mine \in Mines /\ Shaped(mine)
  /\ touched \subseteq Keys

\* The lock keeps a second apply out, also while an installer outlives the first, and
\* what the installer writes is what the journal says.
Exclusive ==
  /\ \A g, h \in Holders : g = h
  /\ Holders # {} => lock
  /\ child # NoChild =>
       /\ lock /\ journal.op.key = child.key /\ child.to = journal.op.after
       /\ child.key \in Packages
       /\ \A h \in Holders : At(h, "wait")

\* The objects around the names that are owned.
Holding(owned) == {b \in Boxes : \E k \in Keys : Owned(owned, k) /\ b \in Above[k]}

\* An operation that is planned or begun: done, it leaves its name and the objects as
\* the ownership it leads to says.  (j the journal, f the file, p what the person made,
\* t what was touched)
Sound(op, j, f, p, t) ==
  /\ \A k \in Keys \ {op.key} : op.owned[k] = j.owned[k]
  /\ op.prune \subseteq j.boxes /\ (op.key \in Packages => op.prune = {})
  /\ op.before \in {Absent, j.owned[op.key].last, op.after}
  /\ op.boxes \subseteq Holding(op.owned)
  /\ Owned(op.owned, op.key) => op.owned[op.key].last = op.after
  /\ op.key \notin t =>
       p.val[op.key] = IF Owned(op.owned, op.key) THEN op.owned[op.key].orig ELSE op.after
  /\ t = {} =>
       /\ f.val[op.key] = op.before => Changed(f, op).boxes \subseteq p.boxes \cup op.boxes
       /\ f.val[op.key] = op.after => f.boxes \subseteq p.boxes \cup op.boxes

\* What the process at work has read, and the file it means to make.
Prepared(m, f) ==
  /\ m.seen.val[m.op.key] \in {m.op.before, m.op.after}
  /\ m.expected \in {m.seen, Changed(m.seen, m.op)}
  /\ m.expected # m.seen => m.seen.val[m.op.key] = m.op.before
  /\ m.fresh => f = m.seen

\* What holds at each place of the process at work, with its locals m.
Started == {"execute", "verify", "wait", "inspect", "record"}
Aiming == {"journal", "execute", "verify", "wait", "inspect"}
Place(pc, m, j, f, p, t) ==
  /\ pc \in {"plan", "journal"} => ~Pending(j)
  /\ pc \in Started => Pending(j) /\ m.op = j.op
  /\ pc = "journal" =>
       /\ m.op # NoOp /\ Sound(m.op, j, f, p, t)
       /\ m.op.key \notin t => f.val[m.op.key] = m.op.before
  /\ pc \in {"journal", "execute"} => Prepared(m, f)
  /\ pc \in Aiming => m.expected.val[m.op.key] = m.op.after
  /\ pc = "record" /\ m.op.key \notin t => f.val[m.op.key] = m.op.after
Places == \A h \in Holders : Place(hub[h].pc, mem, journal, file, mine, touched)

\* What Explained says, and the objects while something is owned.
Told(j, f, p, t) ==
  /\ \A k \in Keys \ t :
       IF j.op.key = k
         THEN f.val[k] \in {j.op.before, j.op.after}
         ELSE f.val[k] = IF Owned(j.owned, k) THEN j.owned[k].last ELSE p.val[k]
  /\ \A k \in Keys \ t : Owned(j.owned, k) => j.owned[k].orig = p.val[k]
  /\ t = {} /\ ~Pending(j) => f.boxes \subseteq p.boxes \cup j.boxes
  /\ j.boxes \subseteq Holding(j.owned)
  /\ Pending(j) => Sound(j.op, j, f, p, t)

IInv == Types /\ Exclusive /\ Places /\ Told(journal, file, mine, touched)

-----------------------------------------------------------------------------
(* The plan and its operations.                                            *)

LEMMA OpKeys == NoOp \notin Ops /\ \A op \in Ops : op # NoOp /\ op.key \in Keys /\ op.key # "none"
BY PiHandlerAssumption DEF Ops, NoOp

\* An operation changes the value of its name and no other, nothing else but objects.
LEMMA ChangedIs ==
  ASSUME NEW f \in Files, NEW op \in Ops
  PROVE  /\ Changed(f, op) \in Files /\ Changed(f, op).torn = f.torn
         /\ op.before = op.after => Changed(f, op) = f
         /\ op.before # op.after =>
              /\ Changed(f, op).val = [f.val EXCEPT ![op.key] = op.after]
              /\ Changed(f, op).boxes =
                   (f.boxes \cup Above[op.key]) \
                     Emptied([f.val EXCEPT ![op.key] = op.after],
                             f.boxes \cup Above[op.key], op.prune)
         /\ \A k \in Keys \ {op.key} : Changed(f, op).val[k] = f.val[k]
<1>1. CASE op.before = op.after
  BY <1>1 DEF Changed
<1>2. CASE op.before # op.after
  <2> DEFINE val == [f.val EXCEPT ![op.key] = op.after]
             boxes == f.boxes \cup Above[op.key]
             kept == boxes \ Emptied(val, boxes, op.prune)
  <2>1. f.val \in Declarations /\ f.boxes \subseteq Boxes /\ op.key \in Keys /\ op.after \in Vals
    BY DEF Files, Ops
  <2>2. val \in Declarations /\ kept \subseteq Boxes
    BY <2>1, PiHandlerAssumption DEF Declarations, Vals
  <2>3. Changed(f, op) = [f EXCEPT !.val = val, !.boxes = kept]
    BY <1>2 DEF Changed
  <2> HIDE DEF kept
  <2>4. /\ Changed(f, op) \in Files /\ Changed(f, op).torn = f.torn
        /\ Changed(f, op).val = val /\ Changed(f, op).boxes = kept
    BY <2>2, <2>3 DEF Files
  <2>5. \A k \in Keys \ {op.key} : val[k] = f.val[k]
    BY <2>1 DEF Declarations
  <2> QED BY <1>2, <2>4, <2>5 DEF kept
<1> QED BY <1>1, <1>2

\* What is left when it changes anything.
LEMMA ChangedTo ==
  ASSUME NEW f \in Files, NEW op \in Ops, op.before # op.after
  PROVE  /\ Changed(f, op).val = [f.val EXCEPT ![op.key] = op.after]
         /\ Changed(f, op).boxes =
              (f.boxes \cup Above[op.key]) \
                Emptied([f.val EXCEPT ![op.key] = op.after],
                        f.boxes \cup Above[op.key], op.prune)
         /\ Changed(f, op).boxes \subseteq f.boxes \cup Above[op.key]
<1>1. /\ Changed(f, op).val = [f.val EXCEPT ![op.key] = op.after]
      /\ Changed(f, op).boxes =
           (f.boxes \cup Above[op.key]) \
             Emptied([f.val EXCEPT ![op.key] = op.after],
                     f.boxes \cup Above[op.key], op.prune)
  BY ChangedIs
<1>2. \A x, y, z : x = y \ z => x \subseteq y
  OBVIOUS
<1> QED BY <1>1, <1>2

\* What it leaves alone.
LEMMA ChangedOnly ==
  ASSUME NEW f \in Files, NEW op \in Ops
  PROVE  \A k \in Keys \ {op.key} : Changed(f, op).val[k] = f.val[k]
BY ChangedIs

\* It leaves an object around everything that is set, and around every object.
LEMMA ChangedShaped ==
  ASSUME NEW f \in Files, NEW op \in Ops, Shaped(f)
  PROVE  Shaped(Changed(f, op))
<1>1. CASE op.before = op.after
  BY <1>1, ChangedIs
<1>2. CASE op.before # op.after
  <2> DEFINE val == [f.val EXCEPT ![op.key] = op.after]
             boxes == f.boxes \cup Above[op.key]
             gone == Emptied(val, boxes, op.prune)
  <2>1. Changed(f, op).val = val /\ Changed(f, op).boxes = boxes \ gone
    BY <1>2, ChangedIs
  <2>2. op.key \in Keys /\ f.val \in Declarations /\ f.boxes \subseteq Boxes
    BY DEF Files, Ops
  <2>3. ASSUME NEW k \in Keys, val[k] # Absent
        PROVE  Above[k] \subseteq boxes \ gone
    <3>1. Above[k] \subseteq boxes
      BY <2>2, <2>3 DEF Shaped, Declarations
    <3>2. \A b \in Above[k] : b \notin gone
      BY <2>3 DEF Emptied
    <3> QED BY <3>1, <3>2
  <2>4. ASSUME NEW c \in boxes \ gone
        PROVE  Outside[c] \subseteq boxes \ gone
    <3>1. boxes \subseteq Boxes
      BY <2>2, PiHandlerAssumption
    <3>2. Outside[c] \subseteq boxes
      BY <2>2, PiHandlerAssumption DEF Shaped
    <3>3. ASSUME NEW b \in Outside[c], b \in gone
          PROVE  FALSE
      <4>1. \A k \in Keys : b \in Above[k] => val[k] = Absent
        BY <3>3 DEF Emptied
      <4>2. \A d \in boxes : b \in Outside[d] => d \in op.prune
        BY <3>3 DEF Emptied
      <4>3. \A k \in Keys : c \in Above[k] => val[k] = Absent
        BY <4>1, <3>3, PiHandlerAssumption
      <4>4. \A d \in boxes : c \in Outside[d] => d \in op.prune
        BY <4>2, <3>1, <3>3, PiHandlerAssumption
      <4>5. c \in op.prune
        BY <4>2, <3>3
      <4> QED BY <4>3, <4>4, <4>5 DEF Emptied
    <3> QED BY <3>2, <3>3
  <2> QED BY <2>1, <2>3, <2>4 DEF Shaped
<1> QED BY <1>1, <1>2

\* It takes away no object but those it may.
LEMMA ChangedTakes ==
  ASSUME NEW f \in Files, NEW op \in Ops
  PROVE  f.boxes \ Changed(f, op).boxes \subseteq op.prune
<1>1. CASE op.before = op.after
  <2>1. Changed(f, op) = f
    BY <1>1, ChangedIs
  <2> QED BY <2>1
<1>2. CASE op.before # op.after
  <2> DEFINE gone == Emptied([f.val EXCEPT ![op.key] = op.after],
                             f.boxes \cup Above[op.key], op.prune)
  <2>1. Changed(f, op).boxes = (f.boxes \cup Above[op.key]) \ gone
    BY <1>2, ChangedTo
  <2>2. gone \subseteq op.prune
    BY DEF Emptied
  <2> QED BY <2>1, <2>2
<1> QED BY <1>1, <1>2

\* A package declaration is outside of all objects.
LEMMA ChangedPackage ==
  ASSUME NEW f \in Files, NEW op \in Ops, op.key \in Packages, op.prune = {}
  PROVE  Changed(f, op).boxes = f.boxes
<1>1. Above[op.key] = {}
  BY PiHandlerAssumption
<1>2. \A v, b : Emptied(v, b, op.prune) = {}
  BY DEF Emptied
<1>3. CASE op.before = op.after
  BY <1>3, ChangedIs
<1>4. CASE op.before # op.after
  <2> DEFINE gone == Emptied([f.val EXCEPT ![op.key] = op.after],
                             f.boxes \cup Above[op.key], op.prune)
  <2>1. Changed(f, op).boxes = (f.boxes \cup Above[op.key]) \ gone
    BY <1>4, ChangedTo
  <2>2. gone = {}
    BY <1>2
  <2> QED BY <1>1, <2>1, <2>2
<1> QED BY <1>3, <1>4

\* The operation a plan makes for a name.
LEMMA OperationIs ==
  ASSUME NEW goal \in Declarations, NEW f \in Files, NEW st \in Journals, NEW k \in Keys
  PROVE  LET op == Operation(goal, f, st, k) IN
         /\ op \in Ops /\ op.key = k /\ op.before = f.val[k]
         /\ op.after = IF goal[k] = Absent THEN st.owned[k].orig ELSE goal[k]
         /\ op.prune = IF goal[k] = Absent /\ k \notin Packages THEN st.boxes ELSE {}
         /\ op.owned = [st.owned EXCEPT ![k] = OwnerOf(goal, f, st.owned, k)]
         /\ op.owned \in Ownership
         /\ k \in Packages => op.boxes = st.boxes
         /\ k \notin Packages =>
              op.boxes = {b \in st.boxes \cup (IF goal[k] = Absent THEN {} ELSE Above[k] \ f.boxes) :
                            /\ b \in Changed(f, op).boxes
                            /\ \E j \in Keys : Owned(op.owned, j) /\ b \in Above[j]}
<1> DEFINE owned == [st.owned EXCEPT ![k] = OwnerOf(goal, f, st.owned, k)]
           made == IF goal[k] = Absent THEN {} ELSE Above[k] \ f.boxes
           after == IF goal[k] = Absent THEN st.owned[k].orig ELSE goal[k]
           prune == IF goal[k] = Absent /\ k \notin Packages THEN st.boxes ELSE {}
           bare == [NoOp EXCEPT !.key = k, !.before = f.val[k], !.after = after,
                                !.prune = prune, !.owned = owned]
           kept == {b \in st.boxes \cup made :
                      /\ b \in Changed(f, bare).boxes
                      /\ \E j \in Keys : Owned(owned, j) /\ b \in Above[j]}
           op == [bare EXCEPT !.boxes = IF k \in Packages THEN st.boxes ELSE kept]
<1>1. Operation(goal, f, st, k) = op
  BY DEF Operation
<1>2. /\ f.val \in Declarations /\ f.val[k] \in Vals /\ goal[k] \in Vals
      /\ st.owned \in Ownership /\ st.boxes \subseteq Boxes
      /\ st.owned[k].orig \in Vals /\ st.owned[k].last \in Vals
  BY DEF Files, Declarations, Journals, Ownership, Vals
<1>3. OwnerOf(goal, f, st.owned, k) \in [last : Vals, orig : Vals]
  BY <1>2 DEF OwnerOf, NotOwned, Vals
<1>4. owned \in Ownership
  BY <1>2, <1>3 DEF Ownership
<1>5. after \in Vals /\ prune \subseteq Boxes /\ made \subseteq Boxes
  BY <1>2, PiHandlerAssumption
<1>6. kept \subseteq Boxes
  BY <1>2, <1>5
<1> HIDE DEF owned, made, after, prune, kept
<1>7. /\ op.key = k /\ op.before = f.val[k] /\ op.after = after /\ op.prune = prune
      /\ op.owned = owned /\ op.boxes = IF k \in Packages THEN st.boxes ELSE kept
      /\ op \in Ops
  BY <1>2, <1>4, <1>5, <1>6 DEF NoOp, Ops
<1>8. /\ bare.key = op.key /\ bare.before = op.before /\ bare.after = op.after
      /\ bare.prune = op.prune
  BY <1>7 DEF NoOp
<1>9. Changed(f, bare) = Changed(f, op)
  BY <1>8 DEF Changed
<1> HIDE DEF op, bare
<1>10. kept = {b \in st.boxes \cup made :
                 /\ b \in Changed(f, op).boxes
                 /\ \E j \in Keys : Owned(op.owned, j) /\ b \in Above[j]}
  BY <1>7, <1>9 DEF kept
<1> QED BY <1>1, <1>4, <1>7, <1>10 DEF owned, made, after, prune

-----------------------------------------------------------------------------
(* What planning, editing and writing do to an operation.                  *)

\* An operation is sound as long as ownership, values and objects stay.
LEMMA SoundSame ==
  ASSUME NEW op \in Ops, NEW j, NEW j1, NEW f \in Files, NEW f1 \in Files, NEW p, NEW t,
         Sound(op, j, f, p, t), j1.owned = j.owned, j1.boxes = j.boxes,
         f1.val = f.val, f1.boxes = f.boxes
  PROVE  Sound(op, j1, f1, p, t)
<1>1. Changed(f1, op).boxes = Changed(f, op).boxes
  <2>1. CASE op.before = op.after
    BY <2>1, ChangedIs
  <2>2. CASE op.before # op.after
    <3>1. /\ Changed(f1, op).boxes =
               (f1.boxes \cup Above[op.key]) \
                 Emptied([f1.val EXCEPT ![op.key] = op.after],
                         f1.boxes \cup Above[op.key], op.prune)
          /\ Changed(f, op).boxes =
               (f.boxes \cup Above[op.key]) \
                 Emptied([f.val EXCEPT ![op.key] = op.after],
                         f.boxes \cup Above[op.key], op.prune)
      BY <2>2, ChangedTo
    <3> QED BY ONLY <3>1, f1.val = f.val, f1.boxes = f.boxes
  <2> QED BY <2>1, <2>2
<1> QED BY <1>1 DEF Sound

LEMMA ToldSame ==
  ASSUME NEW j \in Journals, NEW j1 \in Journals, NEW f \in Files, NEW f1 \in Files, NEW p, NEW t,
         Told(j, f, p, t), j1.owned = j.owned, j1.boxes = j.boxes, j1.op = j.op,
         f1.val = f.val, f1.boxes = f.boxes
  PROVE  Told(j1, f1, p, t)
<1>1. Pending(j1) <=> Pending(j)
  BY DEF Pending
<1>2. Pending(j1) => j1.op \in Ops /\ Sound(j.op, j, f, p, t)
  BY <1>1 DEF Told, Pending, Journals
<1>3. Pending(j1) => Sound(j1.op, j1, f1, p, t)
  BY <1>2, SoundSame
<1> QED BY <1>1, <1>3 DEF Told

\* The operation a plan begins with is sound.
LEMMA PlannedSound ==
  ASSUME NEW goal \in Declarations, NEW f \in Files, NEW j \in Journals, NEW p \in Mines,
         NEW t, Shaped(f), Shaped(p), ~Pending(j), ~Blocked(goal, f, j), Told(j, f, p, t),
         NEW k \in Keys, Needs(goal, f, j.owned, k)
  PROVE  /\ Operation(goal, f, j, k) \in Ops
         /\ Operation(goal, f, j, k).key = k /\ Operation(goal, f, j, k).before = f.val[k]
         /\ Sound(Operation(goal, f, j, k), j, f, p, t)
<1> DEFINE op == Operation(goal, f, j, k)
<1>1. /\ op \in Ops /\ op.key = k /\ op.before = f.val[k]
      /\ op.after = IF goal[k] = Absent THEN j.owned[k].orig ELSE goal[k]
      /\ op.prune = IF goal[k] = Absent /\ k \notin Packages THEN j.boxes ELSE {}
      /\ op.owned = [j.owned EXCEPT ![k] = OwnerOf(goal, f, j.owned, k)]
      /\ op.owned \in Ownership
      /\ k \in Packages => op.boxes = j.boxes
      /\ k \notin Packages =>
           op.boxes = {b \in j.boxes \cup (IF goal[k] = Absent THEN {} ELSE Above[k] \ f.boxes) :
                         /\ b \in Changed(f, op).boxes
                         /\ \E i \in Keys : Owned(op.owned, i) /\ b \in Above[i]}
  BY OperationIs
<1> HIDE DEF op
<1>2. /\ j.owned \in Ownership /\ f.val \in Declarations /\ j.boxes \subseteq Boxes
      /\ f.boxes \subseteq Boxes
  BY DEF Journals, Files
<1>3. ~Conflict(goal, f, j.owned, k)
  BY DEF Blocked, Candidate, Pending
<1>4. goal[k] = Absent => Owned(j.owned, k)
  BY DEF Needs
<1>5. op.owned[k] = OwnerOf(goal, f, j.owned, k) /\ \A i \in Keys \ {k} : op.owned[i] = j.owned[i]
  BY <1>1, <1>2 DEF Ownership
<1>6. f.val[k] \in {Absent, j.owned[k].last, op.after}
  BY <1>1, <1>3, <1>4 DEF Conflict, Owned
<1>7. Owned(op.owned, k) <=> goal[k] # Absent
  BY <1>5 DEF Owned, OwnerOf, NotOwned
<1>8. Owned(op.owned, k) => op.owned[k].last = op.after
  BY <1>1, <1>5, <1>7 DEF Owned, OwnerOf
<1>9. k \notin t => p.val[k] = IF Owned(op.owned, k) THEN op.owned[k].orig ELSE op.after
  <2>1. ASSUME k \notin t
        PROVE  /\ Owned(j.owned, k) => j.owned[k].orig = p.val[k]
               /\ ~Owned(j.owned, k) => f.val[k] = p.val[k]
    <3>1. j.op.key # k
      BY OpKeys, PiHandlerAssumption DEF Pending, NoOp
    <3> QED BY <2>1, <3>1 DEF Told
  <2> QED BY <2>1, <1>1, <1>4, <1>5, <1>7 DEF OwnerOf
<1>10. op.boxes \subseteq Holding(op.owned)
  <2>1. CASE k \notin Packages
    BY <2>1, <1>1, <1>2, PiHandlerAssumption DEF Holding
  <2>2. CASE k \in Packages
    <3>1. Above[k] = {} /\ op.boxes = j.boxes
      BY <2>2, <1>1, PiHandlerAssumption
    <3>2. ASSUME NEW b \in j.boxes PROVE b \in Holding(op.owned)
      <4>1. PICK i \in Keys : Owned(j.owned, i) /\ b \in Above[i]
        BY DEF Told, Holding
      <4>2. i # k
        BY <4>1, <3>1
      <4> QED BY <4>1, <4>2, <1>2, <1>5 DEF Holding, Owned
    <3> QED BY <3>1, <3>2
  <2> QED BY <2>1, <2>2
<1>11. ASSUME t = {}
       PROVE  Changed(f, op).boxes \subseteq p.boxes \cup op.boxes
  <2>1. f.boxes \subseteq p.boxes \cup j.boxes
    BY <1>11 DEF Told
  <2>2. CASE k \in Packages
    BY <2>1, <2>2, <1>1, ChangedPackage
  <2>3. CASE k \notin Packages
    <3> SUFFICES ASSUME NEW b \in Changed(f, op).boxes, b \notin p.boxes, b \notin op.boxes
                 PROVE  FALSE
      OBVIOUS
    <3>1. ~(Owned(op.owned, k) /\ b \in Above[k] /\ (b \in j.boxes \/ b \notin f.boxes))
      BY <2>3, <1>1, <1>7
    <3>2. ASSUME goal[k] = Absent PROVE Above[k] \subseteq f.boxes
      BY <3>2, <1>2, <1>3, <1>4 DEF Shaped, Conflict
    <3>3. b \in f.boxes
      <4>1. b \in f.boxes \cup Above[k]
        <5>1. CASE op.before = op.after
          BY <5>1, <1>1, ChangedIs
        <5>2. CASE op.before # op.after
          BY <5>2, <1>1, ChangedTo
        <5> QED BY <5>1, <5>2
      <4> QED BY <4>1, <3>1, <3>2, <1>7
    <3>4. b \in j.boxes
      BY <3>3, <2>1
    <3>5. \A i \in Keys : b \in Above[i] => ~Owned(op.owned, i)
      BY <3>4, <2>3, <1>1
    <3>6. PICK i \in Keys : Owned(j.owned, i) /\ b \in Above[i]
      BY <3>4 DEF Told, Holding
    <3>7. i = k /\ ~Owned(op.owned, k) /\ goal[k] = Absent
      BY <3>5, <3>6, <1>5, <1>7 DEF Owned
    <3>8. \A c \in Boxes : c \in p.boxes => Outside[c] \subseteq p.boxes
      BY DEF Shaped
    <3>9. \A x \in Keys : b \in Above[x] => p.val[x] = Absent
      BY DEF Shaped
    <3>10. p.val[k] = op.after /\ op.after = Absent
      BY <3>6, <3>7, <3>9, <1>9, <1>11
    <3>11. op.before # op.after
      <4>1. f.val[k] # Absent
        BY <3>7, <1>3, <1>4 DEF Conflict
      <4> QED BY <4>1, <3>10, <1>1
    <3>12. \A x \in Keys \ {k} : b \in Above[x] => f.val[x] = Absent
      <4> SUFFICES ASSUME NEW x \in Keys \ {k}, b \in Above[x] PROVE f.val[x] = Absent
        OBVIOUS
      <4>1. ~Owned(j.owned, x)
        BY <3>5, <1>5 DEF Owned
      <4>2. j.op.key # x
        BY OpKeys, PiHandlerAssumption DEF Pending, NoOp
      <4> QED BY <4>1, <4>2, <3>9, <1>11 DEF Told
    <3>13. \A c \in f.boxes \cup Above[k] : b \in Outside[c] => c \in j.boxes
      BY <3>2, <3>7, <3>8, <2>1, <1>2
    <3>14. op.prune = j.boxes
      BY <3>7, <2>3, <1>1
    <3>15. b \in Emptied([f.val EXCEPT ![k] = op.after], f.boxes \cup Above[k], op.prune)
      BY <3>3, <3>4, <3>10, <3>12, <3>13, <3>14, <1>2 DEF Emptied, Declarations
    <3>16. Changed(f, op).boxes =
             (f.boxes \cup Above[k]) \
               Emptied([f.val EXCEPT ![k] = op.after], f.boxes \cup Above[k], op.prune)
      BY <3>11, <1>1, ChangedTo
    <3> QED BY <3>15, <3>16
  <2> QED BY <2>2, <2>3
<1>12. op.prune \subseteq j.boxes /\ (k \in Packages => op.prune = {})
  BY <1>1
<1>13. t = {} /\ f.val[k] = op.after => f.boxes \subseteq p.boxes \cup op.boxes
  <2> SUFFICES ASSUME t = {}, f.val[k] = op.after
               PROVE  f.boxes \subseteq p.boxes \cup op.boxes
    OBVIOUS
  <2>1. op.before = op.after
    BY <1>1
  <2>2. Changed(f, op) = f
    BY <2>1, <1>1, ChangedIs
  <2> QED BY <2>2, <1>11
<1>14. Sound(op, j, f, p, t)
  BY <1>1, <1>5, <1>6, <1>8, <1>9, <1>10, <1>11, <1>12, <1>13 DEF Sound
<1> QED BY <1>1, <1>14 DEF op

\* An edit of another name leaves to an operation the objects it had, and the edit's own.
LEMMA EditedBoxes ==
  ASSUME NEW op \in Ops, NEW f \in Files, NEW f2 \in Files, NEW k \in Keys, NEW v \in Vals,
         NEW more \in SUBSET Boxes, more = IF v = Absent THEN {} ELSE Above[k],
         f2.val = [f.val EXCEPT ![k] = v], f2.boxes = f.boxes \cup more, op.key # k
  PROVE  Changed(f2, op).boxes \subseteq Changed(f, op).boxes \cup more
<1>1. CASE op.before = op.after
  <2>1. Changed(f2, op) = f2 /\ Changed(f, op) = f
    BY <1>1, ChangedIs
  <2> QED BY <2>1
<1>2. CASE op.before # op.after
  <2> DEFINE val == [f.val EXCEPT ![op.key] = op.after]
             val2 == [f2.val EXCEPT ![op.key] = op.after]
             boxes == f.boxes \cup Above[op.key]
             boxes2 == f2.boxes \cup Above[op.key]
  <2>1. /\ Changed(f, op).boxes = boxes \ Emptied(val, boxes, op.prune)
        /\ Changed(f2, op).boxes = boxes2 \ Emptied(val2, boxes2, op.prune)
    BY <1>2, ChangedTo
  <2>2. /\ f.val \in Declarations /\ op.key \in Keys /\ f.boxes \subseteq Boxes
        /\ boxes \subseteq Boxes
    BY PiHandlerAssumption DEF Files, Ops
  <2>3. \A i \in Keys \ {k} : val2[i] = val[i]
    BY <2>2 DEF Declarations
  <2>4. val2[k] = v
    BY <2>2 DEF Declarations
  <2>5. boxes2 = boxes \cup more
    OBVIOUS
  <2> HIDE DEF val, val2, boxes, boxes2
  <2>6. ASSUME NEW b \in Emptied(val, boxes, op.prune), b \notin more
        PROVE  b \in Emptied(val2, boxes2, op.prune)
    <3>1. /\ b \in op.prune /\ b \in boxes
          /\ \A i \in Keys : b \in Above[i] => val[i] = Absent
          /\ \A c \in boxes : b \in Outside[c] => c \in op.prune
      BY <2>6 DEF Emptied
    <3>2. b \in Above[k] => v = Absent
      BY <2>6
    <3>3. \A i \in Keys : b \in Above[i] => val2[i] = Absent
      BY <3>1, <3>2, <2>3, <2>4
    <3>4. \A c \in more : b \notin Outside[c]
      BY <2>6, PiHandlerAssumption
    <3> QED BY <3>1, <3>3, <3>4, <2>5 DEF Emptied
  <2> QED BY <2>1, <2>5, <2>6
<1> QED BY <1>1, <1>2

\* An operation is as sound after an edit, of its name or of another.
LEMMA EditSound ==
  ASSUME NEW op \in Ops, NEW j, NEW f \in Files, NEW f2 \in Files, NEW p, NEW p2, NEW t, NEW t2,
         NEW k \in Keys, NEW v \in Vals, NEW more \in SUBSET Boxes,
         more = IF v = Absent THEN {} ELSE Above[k],
         f2.val = [f.val EXCEPT ![k] = v], f2.boxes = f.boxes \cup more,
         p2.boxes = p.boxes \cup more,
         op.key # k => p2.val[op.key] = p.val[op.key],
         op.key = k => k \in t2, t \subseteq t2,
         Sound(op, j, f, p, t)
  PROVE  Sound(op, j, f2, p2, t2)
<1>1. op.key \notin t2 => op.key # k /\ op.key \notin t
  OBVIOUS
<1>2. ASSUME t2 = {}
      PROVE  /\ f2.val[op.key] = op.before => Changed(f2, op).boxes \subseteq p2.boxes \cup op.boxes
             /\ f2.val[op.key] = op.after => f2.boxes \subseteq p2.boxes \cup op.boxes
  <2>1. t = {} /\ op.key # k
    BY <1>2
  <2>2. f2.val[op.key] = f.val[op.key]
    BY <2>1 DEF Files, Ops, Declarations
  <2>3. ASSUME f.val[op.key] = op.before
        PROVE  Changed(f2, op).boxes \subseteq p2.boxes \cup op.boxes
    <3>1. Changed(f, op).boxes \subseteq p.boxes \cup op.boxes
      BY <2>1, <2>3 DEF Sound
    <3>2. Changed(f2, op).boxes \subseteq Changed(f, op).boxes \cup more
      <4>1. /\ op \in Ops /\ f \in Files /\ f2 \in Files /\ k \in Keys /\ v \in Vals
            /\ more \in SUBSET Boxes /\ more = IF v = Absent THEN {} ELSE Above[k]
            /\ f2.val = [f.val EXCEPT ![k] = v] /\ f2.boxes = f.boxes \cup more /\ op.key # k
        BY <2>1
      <4> QED BY ONLY <4>1, EditedBoxes, ZenonT(60)
    <3> QED BY <3>1, <3>2
  <2>4. ASSUME f.val[op.key] = op.after
        PROVE  f2.boxes \subseteq p2.boxes \cup op.boxes
    BY <2>1, <2>4 DEF Sound
  <2> QED BY <2>2, <2>3, <2>4
<1> QED BY <1>1, <1>2 DEF Sound

\* The installer's write does what the operation wants of the file.
LEMMA WrittenSound ==
  ASSUME NEW op \in Ops, NEW j, NEW f \in Files, NEW f2 \in Files, NEW p, NEW t,
         op.key \in Packages, Sound(op, j, f, p, t),
         op.key \in t \/ f.val[op.key] \in {op.before, op.after},
         f2.val = [f.val EXCEPT ![op.key] = op.after], f2.boxes = f.boxes
  PROVE  Sound(op, j, f2, p, t)
<1>1. ASSUME t = {}
      PROVE  f.boxes \subseteq p.boxes \cup op.boxes
  <2>1. CASE f.val[op.key] = op.after
    BY <2>1, <1>1 DEF Sound
  <2>2. CASE f.val[op.key] = op.before
    <3>1. Changed(f, op).boxes \subseteq p.boxes \cup op.boxes
      BY <2>2, <1>1 DEF Sound
    <3>2. Changed(f, op).boxes = f.boxes
      BY ChangedPackage DEF Sound
    <3> QED BY <3>1, <3>2
  <2> QED BY <2>1, <2>2, <1>1
<1>2. Changed(f2, op).boxes = f.boxes
  BY ChangedPackage DEF Sound
<1> QED BY <1>1, <1>2 DEF Sound

-----------------------------------------------------------------------------
(* Processes.                                                              *)

LEMMA InitInv == Init => IInv
<1> SUFFICES ASSUME Init PROVE IInv
  OBVIOUS
<1> USE DEF Init
<1>1. PICK s \in Starts : file = [val |-> s.val, boxes |-> s.boxes, torn |-> FALSE]
  OBVIOUS
<1>2. s.val \in Declarations /\ s.boxes \subseteq Boxes
  BY PiHandlerAssumption DEF Declarations
<1>3. file \in Files /\ file.val = mine.val /\ file.boxes = mine.boxes
  BY <1>1, <1>2 DEF Files
<1>4. NoGoal \in Declarations
  BY DEF NoGoal, Declarations
<1>5. \A k \in Keys : journal.op.key # k /\ ~Owned(journal.owned, k)
  BY PiHandlerAssumption DEF NoOp, Owned, NotOwned
<1>6. ~Pending(journal)
  BY DEF Pending
<1>7. Holders = {}
  BY DEF Holders, Working
<1>8. Types
  <2>1. journal \in Journals
    BY DEF Journals, Ownership, NotOwned, Vals
  <2>2. mem \in Mems
    BY <1>4 DEF Mems, NoMem, Files
  <2>3. child \in Children
    BY DEF Children, NoChild, Vals
  <2>4. mine \in Mines /\ Shaped(mine)
    BY <1>1, <1>2 DEF Mines, Shaped
  <2>5. hub \in [Hubs -> [pc : Working \cup {"idle", "checked"}, goal : Declarations]]
    BY <1>4
  <2> QED BY <1>3, <2>1, <2>2, <2>3, <2>4, <2>5 DEF Types
<1>9. Exclusive
  BY <1>7 DEF Exclusive
<1>10. Places
  BY <1>7 DEF Places
<1>11. Told(journal, file, mine, touched)
  BY <1>3, <1>5, <1>6 DEF Told
<1> QED BY <1>8, <1>9, <1>10, <1>11 DEF IInv

\* A process at work is the only one.
LEMMA HolderIs ==
  ASSUME IInv, NEW h \in Hubs, hub[h].pc \in Working
  PROVE  /\ Holders = {h} /\ lock
         /\ hub[h].goal \in Declarations
         /\ Place(hub[h].pc, mem, journal, file, mine, touched)
         /\ hub[h].pc # "wait" => child = NoChild
BY DEF IInv, Types, Exclusive, Places, Holders, At

\* It goes on.
LEMMA GotoHolder ==
  ASSUME IInv, NEW h \in Hubs, hub[h].pc \in Working, NEW pc \in Working, Goto(h, pc)
  PROVE  /\ hub' \in [Hubs -> [pc : Working \cup {"idle", "checked"}, goal : Declarations]]
         /\ Holders' = {h} /\ hub'[h].pc = pc
<1>1. /\ hub \in [Hubs -> [pc : Working \cup {"idle", "checked"}, goal : Declarations]]
      /\ Holders = {h}
  BY HolderIs DEF IInv, Types
<1>2. hub' = [hub EXCEPT ![h].pc = pc]
  BY DEF Goto
<1>3. /\ hub' \in [Hubs -> [pc : Working \cup {"idle", "checked"}, goal : Declarations]]
      /\ hub'[h].pc = pc /\ \A g \in Hubs \ {h} : hub'[g] = hub[g]
  BY <1>1, <1>2
<1> QED BY <1>1, <1>3 DEF Holders

LEMMA GotoKeeps ==
  ASSUME IInv, NEW h \in Hubs, hub[h].pc \in Working, NEW pc \in Working, Goto(h, pc),
         mem' \in Mems, lock' = lock, child' = NoChild, file' \in Files, Shaped(file'),
         journal' \in Journals, want' = want, mine' = mine, touched' = touched,
         Place(pc, mem', journal', file', mine', touched'),
         Told(journal', file', mine', touched')
  PROVE  IInv'
<1>1. /\ hub' \in [Hubs -> [pc : Working \cup {"idle", "checked"}, goal : Declarations]]
      /\ Holders' = {h} /\ hub'[h].pc = pc
  BY GotoHolder
<1>2. Types'
  BY <1>1 DEF IInv, Types, Children, NoChild, Vals, Shaped
<1>3. Exclusive'
  BY <1>1, HolderIs DEF Exclusive
<1>4. Places'
  BY <1>1 DEF Places
<1> QED BY <1>2, <1>3, <1>4 DEF IInv

\* It leaves.
LEMMA ReturnHolder ==
  ASSUME IInv, NEW h \in Hubs, Return(h)
  PROVE  /\ hub' \in [Hubs -> [pc : Working \cup {"idle", "checked"}, goal : Declarations]]
         /\ Holders' = Holders \ {h}
         /\ \A g \in Hubs \ {h} : hub'[g] = hub[g]
<1>1. hub \in [Hubs -> [pc : Working \cup {"idle", "checked"}, goal : Declarations]]
  BY DEF IInv, Types
<1>2. hub' = [hub EXCEPT ![h] = [pc |-> "idle", goal |-> NoGoal]]
  BY DEF Return
<1>3. NoGoal \in Declarations
  BY DEF NoGoal, Declarations
<1>4. /\ hub' \in [Hubs -> [pc : Working \cup {"idle", "checked"}, goal : Declarations]]
      /\ hub'[h].pc = "idle" /\ \A g \in Hubs \ {h} : hub'[g] = hub[g]
  BY <1>1, <1>2, <1>3
<1>5. "idle" \notin Working
  BY DEF Working
<1> QED BY <1>4, <1>5 DEF Holders

LEMMA LeaveKeeps ==
  ASSUME IInv, NEW h \in Hubs, hub[h].pc \in Working, Leave(h),
         lock' \in BOOLEAN, child' \in {child, NoChild}, child' # NoChild => lock' = lock,
         file' = file, journal' \in Journals, journal'.op = journal.op,
         journal'.owned = journal.owned, journal'.boxes = journal.boxes,
         want' = want, mine' = mine, touched' = touched
  PROVE  IInv'
<1>1. /\ hub' \in [Hubs -> [pc : Working \cup {"idle", "checked"}, goal : Declarations]]
      /\ Holders' = {}
  BY HolderIs, ReturnHolder DEF Leave
<1>2. mem' \in Mems
  BY DEF Leave, NoMem, Mems, Files, NoGoal, Declarations
<1>3. Types'
  <2>1. NoChild \in Children
    BY DEF Children, NoChild, Vals
  <2>2. child' \in Children
    BY <2>1 DEF IInv, Types
  <2> QED BY <1>1, <1>2, <2>2 DEF IInv, Types, Shaped
<1>4. Exclusive'
  BY <1>1, HolderIs DEF IInv, Exclusive
<1>5. Places'
  BY <1>1 DEF Places
<1>6. Told(journal', file', mine', touched')
  BY ToldSame DEF IInv, Types
<1> QED BY <1>3, <1>4, <1>5, <1>6 DEF IInv

LEMMA EndsKeeps ==
  ASSUME IInv, NEW h \in Hubs, hub[h].pc \in Working \ {"wait"}, Ends(h), child' = child,
         file' = file, journal' \in Journals, journal'.op = journal.op,
         journal'.owned = journal.owned, journal'.boxes = journal.boxes,
         want' = want, mine' = mine, touched' = touched
  PROVE  IInv'
<1>1. Leave(h) /\ lock' \in BOOLEAN /\ child' = NoChild
  BY HolderIs DEF Ends
<1> QED BY <1>1, LeaveKeeps

-----------------------------------------------------------------------------
(* The steps of a process.                                                 *)

\* Where nobody at work notices, and nothing that is told of changes.
LEMMA StandKeeps ==
  ASSUME IInv,
         hub' \in [Hubs -> [pc : Working \cup {"idle", "checked"}, goal : Declarations]],
         Holders' = Holders, \A g \in Holders : hub'[g] = hub[g],
         want' \in Manifests, lock' \in BOOLEAN, child' \in {child, NoChild},
         lock' = lock \/ (Holders = {} /\ child' = NoChild), mem' = mem,
         file' \in Files, file'.val = file.val, file'.boxes = file.boxes,
         journal' \in Journals, journal'.op = journal.op, journal'.owned = journal.owned,
         journal'.boxes = journal.boxes,
         Holders = {} \/ (file' = file /\ journal' = journal),
         mine' = mine, touched' = touched
  PROVE  IInv'
<1>1. Types'
  <2>1. NoChild \in Children
    BY DEF Children, NoChild, Vals
  <2>2. child' \in Children
    BY <2>1 DEF IInv, Types
  <2> QED BY <2>2 DEF IInv, Types, Shaped
<1>2. Exclusive'
  BY DEF IInv, Exclusive, At
<1>3. Places'
  <2>1. CASE Holders = {}
    BY <2>1 DEF Places
  <2>2. CASE file' = file /\ journal' = journal
    BY <2>2 DEF IInv, Places
  <2> QED BY <2>1, <2>2
<1>4. Told(journal', file', mine', touched')
  BY ToldSame DEF IInv, Types
<1> QED BY <1>1, <1>2, <1>3, <1>4 DEF IInv

LEMMA ApplyKeeps ==
  ASSUME IInv, NEW h \in Hubs, Apply(h)
  PROVE  IInv'
<1> USE DEF Apply
<1>1. /\ hub \in [Hubs -> [pc : Working \cup {"idle", "checked"}, goal : Declarations]]
      /\ want \in Manifests
  BY DEF IInv, Types
<1>2. want \in Declarations
  BY <1>1, PiHandlerAssumption DEF Declarations
<1>3. /\ hub' \in [Hubs -> [pc : Working \cup {"idle", "checked"}, goal : Declarations]]
      /\ hub'[h].pc = "checked" /\ \A g \in Hubs \ {h} : hub'[g] = hub[g]
  BY <1>1, <1>2
<1>4. h \notin Holders
  BY DEF At, Holders, Working
<1>5. Holders' = Holders /\ \A g \in Holders : hub'[g] = hub[g]
  BY <1>3, <1>4 DEF Holders, Working
<1>6. /\ mem' = mem /\ child' = child /\ lock' = lock /\ file' = file /\ journal' = journal
      /\ want' = want /\ mine' = mine /\ touched' = touched
  BY DEF disk, history
<1> QED BY <1>1, <1>3, <1>5, <1>6, StandKeeps DEF IInv, Types

LEMMA AcquireLockKeeps ==
  ASSUME IInv, NEW h \in Hubs, AcquireLock(h)
  PROVE  IInv'
<1> USE DEF AcquireLock
<1>1. /\ mem' = mem /\ child' = child /\ file' = file /\ journal' = journal
      /\ want' = want /\ mine' = mine /\ touched' = touched
  BY DEF history
<1>2. h \notin Holders
  BY DEF At, Holders, Working
<1>3. CASE lock
  <2>1. Return(h) /\ lock' = lock
    BY <1>3
  <2>2. /\ hub' \in [Hubs -> [pc : Working \cup {"idle", "checked"}, goal : Declarations]]
        /\ Holders' = Holders /\ \A g \in Holders : hub'[g] = hub[g]
    BY <1>2, <2>1, ReturnHolder DEF Holders
  <2> QED BY <1>1, <2>1, <2>2, StandKeeps DEF IInv, Types
<1>4. CASE ~lock
  <2>1. Goto(h, "locked") /\ lock' = TRUE
    BY <1>4
  <2>2. Holders = {} /\ child = NoChild
    BY <1>4 DEF IInv, Exclusive
  <2>3. hub \in [Hubs -> [pc : Working \cup {"idle", "checked"}, goal : Declarations]]
    BY DEF IInv, Types
  <2>4. /\ hub' \in [Hubs -> [pc : Working \cup {"idle", "checked"}, goal : Declarations]]
        /\ hub'[h].pc = "locked" /\ \A g \in Hubs \ {h} : hub'[g] = hub[g]
    BY <2>1, <2>3 DEF Goto, Working
  <2>5. Holders' = {h}
    BY <2>2, <2>4 DEF Holders, Working
  <2>6. Types'
    BY <1>1, <2>1, <2>4 DEF IInv, Types, Shaped
  <2>7. Exclusive'
    BY <1>1, <2>1, <2>2, <2>5 DEF Exclusive
  <2>8. Place("locked", mem', journal', file', mine', touched')
    BY DEF Place, Started, Aiming
  <2>9. Places'
    BY <2>4, <2>5, <2>8 DEF Places
  <2>10. Told(journal', file', mine', touched')
    BY <1>1 DEF IInv
  <2> QED BY <2>6, <2>7, <2>9, <2>10 DEF IInv
<1> QED BY <1>3, <1>4

\* The file an operation means has its name as the operation wants it.
LEMMA ChangedReaches ==
  ASSUME NEW f \in Files, NEW op \in Ops, f.val[op.key] \in {op.before, op.after}
  PROVE  Changed(f, op).val[op.key] = op.after
<1>1. CASE op.before = op.after
  BY <1>1, ChangedIs
<1>2. CASE op.before # op.after
  <2>1. Changed(f, op).val = [f.val EXCEPT ![op.key] = op.after]
    BY <1>2, ChangedTo
  <2> QED BY <2>1 DEF Files, Declarations, Ops
<1> QED BY <1>1, <1>2

\* A declaration that is there already is not made again.
LEMMA ChangedAlready ==
  ASSUME NEW f \in Files, NEW op \in Ops, op.key \in Packages, op.prune = {},
         f.val[op.key] = op.after
  PROVE  Changed(f, op) = f
<1>1. CASE op.before = op.after
  BY <1>1, ChangedIs
<1>2. CASE op.before # op.after
  <2>1. Changed(f, op).val = [f.val EXCEPT ![op.key] = op.after]
    BY <1>2, ChangedTo
  <2>2. Changed(f, op).val = f.val
    BY <2>1 DEF Files, Declarations
  <2>3. Changed(f, op).boxes = f.boxes /\ Changed(f, op).torn = f.torn /\ Changed(f, op) \in Files
    BY ChangedPackage, ChangedIs
  <2> QED BY <2>2, <2>3 DEF Files
<1> QED BY <1>1, <1>2

LEMMA TakeUpKeeps ==
  ASSUME IInv, NEW h \in Hubs, TakeUp(h)
  PROVE  IInv'
<1> DEFINE op == journal.op
           now == file.val[op.key]
           aim == IF ~Subprocess(op) /\ now # op.before THEN file ELSE Changed(file, op)
           resumed == [NoMem EXCEPT !.op = op, !.seen = file, !.expected = aim]
           blocked == Blocked(hub[h].goal, file, journal)
           skips == Pending(journal) /\ Subprocess(op) /\ op.after = Absent /\ now # op.before
<1>1. /\ hub[h].pc = "locked" /\ file' = file /\ journal' = journal
      /\ want' = want /\ child' = child /\ mine' = mine /\ touched' = touched
  BY DEF TakeUp, At, history
<1>2. /\ hub[h].pc \in Working \ {"wait"}
      /\ {"plan", "record", "execute"} \subseteq Working
  BY <1>1 DEF Working
<1>3. child' = NoChild
  BY <1>1, <1>2, HolderIs
<1>4. /\ file \in Files /\ Shaped(file) /\ journal \in Journals
      /\ Told(journal, file, mine, touched)
  BY DEF IInv, Types
<1>5. CASE blocked
  <2>1. Ends(h)
    BY <1>5 DEF TakeUp
  <2> QED BY <2>1, <1>1, <1>2, <1>4, EndsKeeps
<1>6. CASE ~blocked /\ ~Pending(journal)
  <2>1. Goto(h, "plan") /\ mem' = mem /\ lock' = lock
    BY <1>6 DEF TakeUp
  <2>2. Place("plan", mem', journal', file', mine', touched')
    BY <1>1, <1>6 DEF Place, Started, Aiming
  <2>3. mem' \in Mems
    BY <2>1 DEF IInv, Types
  <2> QED BY <1>1, <1>2, <1>3, <1>4, <2>1, <2>2, <2>3, GotoKeeps
<1>7. ASSUME ~blocked, Pending(journal)
      PROVE  /\ op \in Ops /\ Sound(op, journal, file, mine, touched)
             /\ now \in {op.before, op.after}
             /\ resumed \in Mems /\ resumed.op = op /\ resumed.seen = file
             /\ resumed.expected = aim /\ aim \in {file, Changed(file, op)}
             /\ Subprocess(op) /\ now = op.after => Changed(file, op) = file
             /\ aim.val[op.key] = op.after
  <2>1. op \in Ops
    BY <1>4, <1>7 DEF Pending, Journals
  <2>2. Sound(op, journal, file, mine, touched)
    BY <1>4, <1>7 DEF Told
  <2>3. now \in {op.before, op.after}
    BY <1>7 DEF Blocked, Ambiguous
  <2>4. Changed(file, op) \in Files
    BY <1>4, <2>1, ChangedIs
  <2>5. aim \in Files /\ aim \in {file, Changed(file, op)}
    BY <1>4, <2>4
  <2>6. NoMem \in Mems
    BY DEF NoMem, Mems, Files, NoGoal, Declarations
  <2> HIDE DEF aim
  <2>7. resumed \in Mems /\ resumed.op = op /\ resumed.seen = file /\ resumed.expected = aim
    BY <1>4, <2>1, <2>5 DEF Mems, NoMem, Files, NoGoal, Declarations
  <2>8. ASSUME Subprocess(op), now = op.after PROVE Changed(file, op) = file
    BY <2>1, <2>2, <2>8, <1>4, ChangedAlready DEF Subprocess, Sound
  <2>9. aim.val[op.key] = op.after
    <3>1. Changed(file, op).val[op.key] = op.after
      BY <1>4, <2>1, <2>3, ChangedReaches
    <3> QED BY <2>3, <3>1 DEF aim
  <2> QED BY <2>1, <2>2, <2>3, <2>5, <2>7, <2>8, <2>9
<1>8. CASE ~blocked /\ Pending(journal) /\ skips
  <2>1. Goto(h, "record") /\ mem' = resumed /\ lock' = lock
    BY <1>8 DEF TakeUp
  <2>2. mem' \in Mems /\ mem'.op = op /\ now = op.after
    BY <1>7, <1>8, <2>1
  <2>3. Place("record", mem', journal', file', mine', touched')
    BY <1>1, <1>8, <2>2 DEF Place, Started, Aiming
  <2> QED BY <1>1, <1>2, <1>3, <1>4, <2>1, <2>2, <2>3, GotoKeeps
<1>9. CASE ~blocked /\ Pending(journal) /\ ~skips
  <2>1. Goto(h, "execute") /\ mem' = resumed /\ lock' = lock
    BY <1>9 DEF TakeUp
  <2>2. /\ mem' \in Mems /\ mem'.op = op /\ mem'.seen = file /\ mem'.expected = aim
        /\ aim \in {file, Changed(file, op)} /\ now \in {op.before, op.after}
        /\ aim.val[op.key] = op.after
    BY <1>7, <1>9, <2>1
  <2>3. aim # file => now = op.before
    BY <1>7, <1>9
  <2>4. Prepared(mem', file)
    BY <2>2, <2>3 DEF Prepared
  <2>5. Place("execute", mem', journal', file', mine', touched')
    BY <1>1, <1>9, <2>2, <2>4 DEF Place, Started, Aiming
  <2> QED BY <1>1, <1>2, <1>3, <1>4, <2>1, <2>2, <2>5, GotoKeeps
<1> QED BY <1>5, <1>6, <1>8, <1>9

LEMMA PlanNextKeeps ==
  ASSUME IInv, NEW h \in Hubs, PlanNext(h)
  PROVE  IInv'
<1> DEFINE goal == hub[h].goal
           todo == Planned(goal, file, journal.owned)
           stops == Blocked(goal, file, journal) \/ todo = {}
<1>1. /\ hub[h].pc = "plan" /\ file' = file /\ journal' = journal
      /\ want' = want /\ child' = child /\ mine' = mine /\ touched' = touched
  BY DEF PlanNext, At, history
<1>2. hub[h].pc \in Working \ {"wait"} /\ "journal" \in Working
  BY <1>1 DEF Working
<1>3. child' = NoChild
  BY <1>1, <1>2, HolderIs
<1>4. /\ file \in Files /\ Shaped(file) /\ journal \in Journals /\ mine \in Mines /\ Shaped(mine)
      /\ Told(journal, file, mine, touched)
  BY DEF IInv, Types
<1>5. CASE stops
  <2>1. Ends(h)
    BY <1>5 DEF PlanNext
  <2> QED BY <2>1, <1>1, <1>2, <1>4, EndsKeeps
<1>6. CASE ~stops
  <2>1. PICK i \in todo :
          mem' = [NoMem EXCEPT !.op = Operation(goal, file, journal, Order[i]), !.seen = file,
                               !.expected = Changed(file, Operation(goal, file, journal, Order[i]))]
    BY <1>6 DEF PlanNext
  <2> DEFINE op == Operation(goal, file, journal, Order[i])
  <2>2. Goto(h, "journal") /\ lock' = lock
    BY <1>6 DEF PlanNext
  <2>3. goal \in Declarations /\ Place("plan", mem, journal, file, mine, touched)
    BY <1>1, <1>2, HolderIs
  <2>4. ~Pending(journal)
    BY <2>3 DEF Place
  <2>5. Order[i] \in Keys /\ Needs(goal, file, journal.owned, Order[i])
    BY PiHandlerAssumption DEF Planned
  <2>6. ~Blocked(goal, file, journal)
    BY <1>6
  <2> HIDE DEF goal, todo
  <2>7. /\ op \in Ops /\ Sound(op, journal, file, mine, touched)
        /\ op.key = Order[i] /\ op.before = file.val[op.key]
    BY <1>4, <2>3, <2>4, <2>5, <2>6, PlannedSound
  <2> HIDE DEF op
  <2>8. Changed(file, op) \in Files /\ Changed(file, op).val[op.key] = op.after
    BY <1>4, <2>7, ChangedIs, ChangedReaches
  <2>9. /\ mem' \in Mems /\ mem'.op = op /\ mem'.seen = file
        /\ mem'.expected = Changed(file, op)
    BY <1>4, <2>1, <2>7, <2>8 DEF op, NoMem, Mems, Files, NoGoal, Declarations
  <2>10. Prepared(mem', file)
    BY <2>7, <2>9 DEF Prepared
  <2>11. Place("journal", mem', journal', file', mine', touched')
    BY <1>1, <2>4, <2>7, <2>8, <2>9, <2>10, OpKeys DEF Place, Started, Aiming
  <2> QED BY <1>1, <1>2, <1>3, <1>4, <2>2, <2>9, <2>11, GotoKeeps
<1> QED BY <1>5, <1>6

LEMMA JournalKeeps ==
  ASSUME IInv, NEW h \in Hubs, Journal(h)
  PROVE  IInv'
<1>1. /\ hub[h].pc = "journal" /\ file' = file /\ journal' = [journal EXCEPT !.op = mem.op]
      /\ Goto(h, "execute") /\ mem' = mem /\ lock' = lock
      /\ want' = want /\ child' = child /\ mine' = mine /\ touched' = touched
  BY DEF Journal, At, history
<1>2. hub[h].pc \in Working \ {"wait"} /\ "execute" \in Working
  BY <1>1 DEF Working
<1>3. child' = NoChild
  BY <1>1, <1>2, HolderIs
<1>4. /\ file \in Files /\ Shaped(file) /\ journal \in Journals /\ mem \in Mems
      /\ Told(journal, file, mine, touched)
  BY DEF IInv, Types
<1>5. Place("journal", mem, journal, file, mine, touched)
  BY <1>1, <1>2, HolderIs
<1>6. /\ ~Pending(journal) /\ mem.op # NoOp
      /\ Sound(mem.op, journal, file, mine, touched)
      /\ mem.op.key \notin touched => file.val[mem.op.key] = mem.op.before
      /\ Prepared(mem, file) /\ mem.expected.val[mem.op.key] = mem.op.after
  BY <1>5 DEF Place, Aiming
<1>7. mem.op \in Ops
  BY <1>4, <1>6 DEF Mems
<1>8. /\ journal' \in Journals /\ journal'.op = mem.op /\ journal'.owned = journal.owned
      /\ journal'.boxes = journal.boxes
  BY <1>1, <1>4, <1>7 DEF Journals
<1>9. Pending(journal')
  BY <1>6, <1>8 DEF Pending
<1>10. Place("execute", mem', journal', file', mine', touched')
  BY <1>1, <1>6, <1>8, <1>9 DEF Place, Started, Aiming
<1>11. Sound(mem.op, journal', file, mine, touched)
  BY <1>4, <1>6, <1>7, <1>8, SoundSame
<1>12. \A k \in Keys : journal.op.key # k
  BY <1>6, PiHandlerAssumption DEF Pending, NoOp
<1>13. Told(journal', file, mine, touched)
  BY <1>4, <1>6, <1>8, <1>9, <1>11, <1>12 DEF Told
<1> QED BY <1>1, <1>2, <1>3, <1>4, <1>8, <1>10, <1>13, GotoKeeps

\* What the handler writes does what the operation wants of the file.
LEMMA ChangedSound ==
  ASSUME NEW op \in Ops, NEW j, NEW f \in Files, NEW p, NEW t, Sound(op, j, f, p, t),
         f.val[op.key] = op.before
  PROVE  Sound(op, j, Changed(f, op), p, t)
<1>1. CASE op.before = op.after
  <2>1. Changed(f, op) = f
    BY <1>1, ChangedIs
  <2> QED BY <2>1
<1>2. CASE op.before # op.after
  <2>1. Changed(f, op).val[op.key] = op.after
    BY ChangedReaches
  <2>2. t = {} => Changed(f, op).boxes \subseteq p.boxes \cup op.boxes
    BY DEF Sound
  <2>3. t = {} => /\ Changed(f, op).val[op.key] # op.before
                  /\ Changed(f, op).boxes \subseteq p.boxes \cup op.boxes
    BY <1>2, <2>1, <2>2
  <2> QED BY <2>3 DEF Sound
<1> QED BY <1>1, <1>2

LEMMA ExecuteSettingKeeps ==
  ASSUME IInv, NEW h \in Hubs, ExecuteSetting(h)
  PROVE  IInv'
<1> DEFINE op == journal.op
<1>1. /\ hub[h].pc = "execute" /\ journal' = journal
      /\ want' = want /\ child' = child /\ mine' = mine /\ touched' = touched
  BY DEF ExecuteSetting, At, history
<1>2. hub[h].pc \in Working \ {"wait"} /\ "verify" \in Working
  BY <1>1 DEF Working
<1>3. child' = NoChild
  BY <1>1, <1>2, HolderIs
<1>4. /\ file \in Files /\ Shaped(file) /\ journal \in Journals /\ mem \in Mems
      /\ Told(journal, file, mine, touched)
  BY DEF IInv, Types
<1>5. Place("execute", mem, journal, file, mine, touched)
  BY <1>1, <1>2, HolderIs
<1>6. /\ Pending(journal) /\ mem.op = op /\ Prepared(mem, file)
      /\ mem.expected.val[op.key] = op.after
  BY <1>5 DEF Place, Started, Aiming
<1>7. op \in Ops /\ Sound(op, journal, file, mine, touched)
  BY <1>4, <1>6 DEF Journals, Pending, Told
<1>8. CASE mem.seen # mem.expected /\ ~mem.fresh
  <2>1. Ends(h) /\ file' = file
    BY <1>8 DEF ExecuteSetting, Unchanged
  <2> QED BY <2>1, <1>1, <1>2, <1>4, EndsKeeps
<1>9. CASE ~(mem.seen # mem.expected /\ ~mem.fresh)
  <2>1. /\ file' = IF mem.seen = mem.expected THEN file ELSE mem.expected
        /\ Goto(h, "verify") /\ mem' = mem /\ lock' = lock
    BY <1>9 DEF ExecuteSetting, Unchanged
  <2>2. Place("verify", mem', journal', file', mine', touched')
    BY <1>1, <1>6, <2>1 DEF Place, Started, Aiming
  <2>3. CASE mem.seen = mem.expected
    <3>1. file' = file
      BY <2>1, <2>3
    <3> QED BY <1>1, <1>2, <1>3, <1>4, <2>1, <2>2, <3>1, GotoKeeps
  <2>4. CASE mem.seen # mem.expected
    <3>1. file = mem.seen /\ file.val[op.key] = op.before /\ mem.expected = Changed(file, op)
      BY <1>6, <1>9, <2>4 DEF Prepared
    <3>2. file' = Changed(file, op)
      BY <2>1, <2>4, <3>1
    <3>3. file' \in Files /\ Shaped(file')
      BY <1>4, <1>7, <3>2, ChangedIs, ChangedShaped
    <3>4. Sound(op, journal, file', mine, touched)
      BY <1>4, <1>7, <3>1, <3>2, ChangedSound
    <3>5. file'.val[op.key] = op.after
      BY <1>4, <1>7, <3>1, <3>2, ChangedReaches
    <3>6. \A k \in Keys \ {op.key} : file'.val[k] = file.val[k]
      BY <1>4, <1>7, <3>2, ChangedOnly
    <3>7. Told(journal, file', mine, touched)
      BY <1>4, <1>6, <3>4, <3>5, <3>6 DEF Told
    <3> QED BY <1>1, <1>2, <1>3, <1>4, <2>1, <2>2, <3>3, <3>7, GotoKeeps
  <2> QED BY <2>3, <2>4
<1> QED BY <1>8, <1>9

LEMMA VerifyKeeps ==
  ASSUME IInv, NEW h \in Hubs, Verify(h)
  PROVE  IInv'
<1>1. /\ hub[h].pc = "verify" /\ file' = file /\ journal' = journal
      /\ want' = want /\ child' = child /\ mine' = mine /\ touched' = touched
  BY DEF Verify, At, history
<1>2. hub[h].pc \in Working \ {"wait"} /\ "record" \in Working
  BY <1>1 DEF Working
<1>3. child' = NoChild
  BY <1>1, <1>2, HolderIs
<1>4. /\ file \in Files /\ Shaped(file) /\ journal \in Journals /\ mem \in Mems
      /\ Told(journal, file, mine, touched)
  BY DEF IInv, Types
<1>5. Place("verify", mem, journal, file, mine, touched)
  BY <1>1, <1>2, HolderIs
<1>6. CASE file # mem.expected
  <2>1. Ends(h)
    BY <1>6 DEF Verify
  <2> QED BY <2>1, <1>1, <1>2, <1>4, EndsKeeps
<1>7. CASE file = mem.expected
  <2>1. Goto(h, "record") /\ mem' = mem /\ lock' = lock
    BY <1>7 DEF Verify
  <2>2. Place("record", mem', journal', file', mine', touched')
    BY <1>1, <1>5, <1>7, <2>1 DEF Place, Started, Aiming
  <2> QED BY <1>1, <1>2, <1>3, <1>4, <2>1, <2>2, GotoKeeps
<1> QED BY <1>6, <1>7

LEMMA ExecutePackageKeeps ==
  ASSUME IInv, NEW h \in Hubs, ExecutePackage(h)
  PROVE  IInv'
<1> DEFINE op == journal.op
<1>1. /\ hub[h].pc = "execute" /\ file' = file /\ journal' = journal
      /\ want' = want /\ mine' = mine /\ touched' = touched /\ Subprocess(mem.op)
  BY DEF ExecutePackage, At, history
<1>2. hub[h].pc \in Working \ {"wait"} /\ "wait" \in Working
  BY <1>1 DEF Working
<1>3. /\ file \in Files /\ Shaped(file) /\ journal \in Journals /\ mem \in Mems
      /\ Told(journal, file, mine, touched)
  BY DEF IInv, Types
<1>4. Place("execute", mem, journal, file, mine, touched) /\ lock
  BY <1>1, <1>2, HolderIs
<1>5. CASE ~mem.fresh
  <2>1. Ends(h) /\ child' = child
    BY <1>5 DEF ExecutePackage, Unchanged
  <2> QED BY <2>1, <1>1, <1>2, <1>3, EndsKeeps
<1>6. CASE mem.fresh
  <2>1. /\ child' = [key |-> mem.op.key, to |-> mem.op.after, wrote |-> FALSE]
        /\ Goto(h, "wait") /\ mem' = mem /\ lock' = lock
    BY <1>6 DEF ExecutePackage, Unchanged
  <2>2. /\ Pending(journal) /\ mem.op = op /\ mem.expected.val[op.key] = op.after
    BY <1>4 DEF Place, Started, Aiming
  <2>3. op \in Ops
    BY <1>3, <2>2 DEF Journals, Pending
  <2>4. child' \in Children /\ child'.key = op.key /\ child'.to = op.after
    BY <2>1, <2>2, <2>3 DEF Children, Ops
  <2>5. Place("wait", mem', journal', file', mine', touched')
    BY <1>1, <2>1, <2>2 DEF Place, Started, Aiming
  <2>6. /\ hub' \in [Hubs -> [pc : Working \cup {"idle", "checked"}, goal : Declarations]]
        /\ Holders' = {h} /\ hub'[h].pc = "wait"
    BY <1>2, <2>1, GotoHolder
  <2>7. Types'
    BY <1>1, <2>1, <2>4, <2>6 DEF IInv, Types, Shaped
  <2>8. Exclusive'
    BY <1>1, <1>4, <2>1, <2>2, <2>4, <2>6 DEF Exclusive, At, Subprocess
  <2>9. Places'
    BY <2>5, <2>6 DEF Places
  <2>10. Told(journal', file', mine', touched')
    BY <1>1, <1>3
  <2> QED BY <2>7, <2>8, <2>9, <2>10 DEF IInv
<1> QED BY <1>5, <1>6

LEMMA ExitedKeeps ==
  ASSUME IInv, NEW h \in Hubs, Exited(h) \/ Stopped(h)
  PROVE  IInv'
<1>1. /\ hub[h].pc = "wait" /\ file' = file /\ journal' = journal /\ lock' = lock
      /\ want' = want /\ child' = NoChild /\ mine' = mine /\ touched' = touched
      /\ Goto(h, "inspect")
  BY DEF Exited, Stopped, At, disk, history
<1>2. PICK failed \in BOOLEAN : mem' = [mem EXCEPT !.failed = failed]
  BY DEF Exited, Stopped
<1>3. hub[h].pc \in Working /\ "inspect" \in Working
  BY <1>1 DEF Working
<1>4. /\ file \in Files /\ Shaped(file) /\ journal \in Journals /\ mem \in Mems
      /\ Told(journal, file, mine, touched)
  BY DEF IInv, Types
<1>5. Place("wait", mem, journal, file, mine, touched)
  BY <1>1, <1>3, HolderIs
<1>6. mem' \in Mems /\ mem'.op = mem.op /\ mem'.expected = mem.expected
  BY <1>2, <1>4 DEF Mems
<1>7. Place("inspect", mem', journal', file', mine', touched')
  BY <1>1, <1>5, <1>6 DEF Place, Started, Aiming
<1> QED BY <1>1, <1>3, <1>4, <1>6, <1>7, GotoKeeps

LEMMA StopUncertainKeeps ==
  ASSUME IInv, NEW h \in Hubs, StopUncertain(h)
  PROVE  IInv'
<1>1. /\ hub[h].pc = "wait" /\ Leave(h) /\ lock' = lock /\ file' = file /\ journal' = journal
      /\ want' = want /\ child' = child /\ mine' = mine /\ touched' = touched
  BY DEF StopUncertain, EndsLocked, At, history
<1>2. hub[h].pc \in Working
  BY <1>1 DEF Working
<1>3. journal \in Journals /\ lock \in BOOLEAN
  BY DEF IInv, Types
<1> QED BY <1>1, <1>2, <1>3, LeaveKeeps

LEMMA InspectKeeps ==
  ASSUME IInv, NEW h \in Hubs, Inspect(h)
  PROVE  IInv'
<1>1. /\ hub[h].pc = "inspect" /\ file' = file
      /\ want' = want /\ child' = child /\ mine' = mine /\ touched' = touched
  BY DEF Inspect, At, history
<1>2. hub[h].pc \in Working \ {"wait"} /\ "record" \in Working
  BY <1>1 DEF Working
<1>3. child' = NoChild
  BY <1>1, <1>2, HolderIs
<1>4. /\ file \in Files /\ Shaped(file) /\ journal \in Journals /\ mem \in Mems
      /\ Told(journal, file, mine, touched)
  BY DEF IInv, Types
<1>5. Place("inspect", mem, journal, file, mine, touched)
  BY <1>1, <1>2, HolderIs
<1>6. CASE Spoiled
  <2>1. Ends(h) /\ journal' = [journal EXCEPT !.repair = TRUE]
    BY <1>6 DEF Inspect
  <2>2. /\ journal' \in Journals /\ journal'.op = journal.op
        /\ journal'.owned = journal.owned /\ journal'.boxes = journal.boxes
    BY <1>4, <2>1 DEF Journals
  <2> QED BY <2>1, <2>2, <1>1, <1>2, EndsKeeps
<1>7. CASE ~Spoiled /\ (mem.failed \/ file # mem.expected)
  <2>1. Ends(h) /\ journal' = journal
    BY <1>7 DEF Inspect
  <2> QED BY <2>1, <1>1, <1>2, <1>4, EndsKeeps
<1>8. CASE ~Spoiled /\ ~(mem.failed \/ file # mem.expected)
  <2>1. Goto(h, "record") /\ journal' = journal /\ mem' = mem /\ lock' = lock
    BY <1>8 DEF Inspect
  <2>2. Place("record", mem', journal', file', mine', touched')
    BY <1>1, <1>5, <1>8, <2>1 DEF Place, Started, Aiming
  <2> QED BY <1>1, <1>2, <1>3, <1>4, <2>1, <2>2, GotoKeeps
<1> QED BY <1>6, <1>7, <1>8

LEMMA InspectUnmarkedKeeps ==
  ASSUME IInv, NEW h \in Hubs, InspectUnmarked(h)
  PROVE  IInv'
<1>1. /\ hub[h].pc = "inspect" /\ Leave(h) /\ lock' = lock /\ file' = file
      /\ journal' = journal
      /\ want' = want /\ child' = child /\ mine' = mine /\ touched' = touched
  BY DEF InspectUnmarked, EndsLocked, At, history
<1>2. hub[h].pc \in Working
  BY <1>1 DEF Working
<1>3. journal \in Journals /\ lock \in BOOLEAN
  BY DEF IInv, Types
<1> QED BY <1>1, <1>2, <1>3, LeaveKeeps

\* What an operation that is done leads to is what the file says.
LEMMA RecordKeeps ==
  ASSUME IInv, NEW h \in Hubs, Record(h)
  PROVE  IInv'
<1> DEFINE op == journal.op
<1>1. /\ hub[h].pc = "record" /\ file' = file /\ lock' = lock
      /\ journal' = [journal EXCEPT !.owned = mem.op.owned, !.boxes = mem.op.boxes, !.op = NoOp]
      /\ Goto(h, "plan") /\ mem' = NoMem
      /\ want' = want /\ child' = child /\ mine' = mine /\ touched' = touched
  BY DEF Record, At, history
<1>2. hub[h].pc \in Working \ {"wait"} /\ "plan" \in Working
  BY <1>1 DEF Working
<1>3. child' = NoChild
  BY <1>1, <1>2, HolderIs
<1>4. /\ file \in Files /\ Shaped(file) /\ journal \in Journals
      /\ Told(journal, file, mine, touched)
  BY DEF IInv, Types
<1>5. Place("record", mem, journal, file, mine, touched)
  BY <1>1, <1>2, HolderIs
<1>6. Pending(journal) /\ mem.op = op /\ (op.key \notin touched => file.val[op.key] = op.after)
  BY <1>5 DEF Place, Started
<1>7. op \in Ops /\ Sound(op, journal, file, mine, touched)
  BY <1>4, <1>6 DEF Journals, Pending, Told
<1>8. /\ journal' \in Journals /\ journal'.op = NoOp /\ journal'.owned = op.owned
      /\ journal'.boxes = op.boxes
  BY <1>1, <1>4, <1>6, <1>7 DEF Journals, Ops
<1>9. ~Pending(journal')
  BY <1>8 DEF Pending
<1>10. \A k \in Keys : journal'.op.key # k
  BY <1>8, PiHandlerAssumption DEF NoOp
<1>11. ASSUME NEW k \in Keys \ touched
       PROVE  /\ file.val[k] = IF Owned(op.owned, k) THEN op.owned[k].last ELSE mine.val[k]
              /\ Owned(op.owned, k) => op.owned[k].orig = mine.val[k]
  <2>1. CASE k = op.key
    BY <2>1, <1>6, <1>7 DEF Sound
  <2>2. CASE k # op.key
    <3>1. op.owned[k] = journal.owned[k]
      BY <2>2, <1>7 DEF Sound
    <3> QED BY <2>2, <3>1, <1>4 DEF Told, Owned
  <2> QED BY <2>1, <2>2
<1>12. touched = {} => file.boxes \subseteq mine.boxes \cup op.boxes
  BY <1>6, <1>7 DEF Sound
<1>13. op.boxes \subseteq Holding(op.owned)
  BY <1>7 DEF Sound
<1>14. Told(journal', file', mine', touched')
  BY <1>1, <1>8, <1>9, <1>10, <1>11, <1>12, <1>13 DEF Told
<1>15. mem' \in Mems
  BY <1>1 DEF NoMem, Mems, Files, NoGoal, Declarations
<1>16. Place("plan", mem', journal', file', mine', touched')
  BY <1>9 DEF Place, Started, Aiming
<1> QED BY <1>1, <1>2, <1>3, <1>4, <1>8, <1>14, <1>15, <1>16, GotoKeeps

LEMMA FaultKeeps ==
  ASSUME IInv, NEW h \in Hubs, Fault(h)
  PROVE  IInv'
<1>1. /\ hub[h].pc \in Working \ {"wait"} /\ Ends(h) /\ file' = file /\ journal' = journal
      /\ want' = want /\ child' = child /\ mine' = mine /\ touched' = touched
  BY DEF Fault, history
<1>2. journal \in Journals
  BY DEF IInv, Types
<1> QED BY <1>1, <1>2, EndsKeeps

LEMMA CrashKeeps ==
  ASSUME IInv, NEW h \in Hubs, Crash(h)
  PROVE  IInv'
<1>1. /\ hub[h].pc \in Working /\ Leave(h) /\ lock' = lock /\ file' = file /\ journal' = journal
      /\ want' = want /\ child' = child /\ mine' = mine /\ touched' = touched
  BY DEF Crash, Holders, disk, history
<1>2. journal \in Journals /\ lock \in BOOLEAN
  BY DEF IInv, Types
<1> QED BY <1>1, <1>2, LeaveKeeps

-----------------------------------------------------------------------------
(* The installer and people.                                               *)

\* The file changes under a process at work, which notices.
LEMMA OutsideKeeps ==
  ASSUME IInv, Stale, hub' = hub, lock' = lock, want' = want, journal' = journal,
         child' \in Children, child'.key = child.key, child'.to = child.to,
         child' # NoChild => child # NoChild,
         file' \in Files, Shaped(file'), mine' \in Mines, Shaped(mine'), touched' \subseteq Keys,
         Told(journal, file', mine', touched'),
         \A h \in Holders :
           /\ hub[h].pc = "journal" =>
                /\ Sound(mem.op, journal, file', mine', touched')
                /\ mem.op.key \notin touched' => file'.val[mem.op.key] = mem.op.before
           /\ hub[h].pc = "record" /\ mem.op.key \notin touched' =>
                file'.val[mem.op.key] = mem.op.after
  PROVE  IInv'
<1>1. Holders' = Holders
  BY DEF Holders
<1>2. mem \in Mems
  BY DEF IInv, Types
<1>3. mem' \in Mems
  BY <1>2 DEF Stale, Mems
<1>4. Types'
  BY <1>3 DEF IInv, Types
<1>5. Exclusive'
  BY <1>1 DEF IInv, Exclusive, At
<1>6. ASSUME NEW h \in Holders
      PROVE  Place(hub[h].pc, mem', journal, file', mine', touched')
  <2>1. /\ mem'.op = mem.op /\ mem'.seen = mem.seen /\ mem'.expected = mem.expected
        /\ mem'.fresh = FALSE
    BY <1>2, <1>6 DEF Stale, Mems
  <2>2. Place(hub[h].pc, mem, journal, file, mine, touched)
    BY <1>6 DEF IInv, Places
  <2>3. Prepared(mem, file) => Prepared(mem', file')
    BY <2>1 DEF Prepared
  <2> QED BY <2>1, <2>2, <2>3, <1>6 DEF Place
<1>7. Places'
  BY <1>1, <1>6 DEF Places
<1>8. Told(journal', file', mine', touched')
  OBVIOUS
<1> QED BY <1>4, <1>5, <1>7, <1>8 DEF IInv

\* What runs as installer does what the journal says.
LEMMA InstallerIs ==
  ASSUME IInv, child # NoChild
  PROVE  /\ Pending(journal) /\ journal.op \in Ops
         /\ journal.op.key = child.key /\ child.to = journal.op.after
         /\ child.key \in Packages /\ Above[child.key] = {}
         /\ Sound(journal.op, journal, file, mine, touched)
         /\ \A h \in Holders : hub[h].pc = "wait"
<1>1. /\ journal.op.key = child.key /\ child.to = journal.op.after
      /\ child.key \in Packages /\ \A h \in Holders : hub[h].pc = "wait"
  BY DEF IInv, Exclusive, At
<1>2. Pending(journal) /\ Above[child.key] = {}
  BY <1>1, PiHandlerAssumption DEF Pending, NoOp
<1> QED BY <1>1, <1>2 DEF IInv, Types, Journals, Pending, Told

LEMMA PiWritesKeeps ==
  ASSUME IInv, PiWrites
  PROVE  IInv'
<1> DEFINE op == journal.op
<1>1. /\ child # NoChild /\ file' = [file EXCEPT !.val[child.key] = child.to]
      /\ child' = [child EXCEPT !.wrote = TRUE] /\ Stale
      /\ journal' = journal /\ lock' = lock /\ want' = want /\ hub' = hub
      /\ mine' = mine /\ touched' = touched
  BY DEF PiWrites, history
<1>2. /\ file \in Files /\ Shaped(file) /\ journal \in Journals /\ child \in Children
      /\ mine \in Mines /\ Shaped(mine) /\ touched \subseteq Keys
      /\ Told(journal, file, mine, touched)
  BY DEF IInv, Types
<1>3. /\ Pending(journal) /\ op \in Ops /\ op.key = child.key /\ child.to = op.after
      /\ child.key \in Packages /\ Above[child.key] = {}
      /\ Sound(op, journal, file, mine, touched)
      /\ \A h \in Holders : hub[h].pc = "wait"
  BY <1>1, InstallerIs
<1>4. op.key \in Keys /\ op.after \in Vals
  BY <1>3 DEF Ops
<1>5. /\ file'.val = [file.val EXCEPT ![op.key] = op.after] /\ file'.boxes = file.boxes
      /\ file' \in Files
  BY <1>1, <1>2, <1>3, <1>4 DEF Files, Declarations, Vals
<1>6. file'.val[op.key] = op.after /\ \A k \in Keys \ {op.key} : file'.val[k] = file.val[k]
  BY <1>2, <1>4, <1>5 DEF Files, Declarations
<1>7. Shaped(file')
  BY <1>2, <1>3, <1>5, <1>6 DEF Shaped
<1>8. op.key \in touched \/ file.val[op.key] \in {op.before, op.after}
  BY <1>2, <1>4 DEF Told
<1>9. Sound(op, journal, file', mine, touched)
  BY <1>2, <1>3, <1>5, <1>8, WrittenSound
<1>10. Told(journal, file', mine, touched)
  BY <1>2, <1>3, <1>6, <1>9 DEF Told
<1>11. child' \in Children /\ child'.key = child.key /\ child'.to = child.to
  BY <1>1, <1>2 DEF Children
<1> QED BY <1>1, <1>2, <1>3, <1>5, <1>7, <1>10, <1>11, OutsideKeeps

LEMMA PiSpoilsKeeps ==
  ASSUME IInv, PiSpoils
  PROVE  IInv'
<1> DEFINE op == journal.op
<1>1. /\ child # NoChild
      /\ child' = [child EXCEPT !.wrote = TRUE] /\ Stale
      /\ journal' = journal /\ lock' = lock /\ want' = want /\ hub' = hub /\ mine' = mine
  BY DEF PiSpoils
<1>2. /\ file \in Files /\ Shaped(file) /\ journal \in Journals /\ child \in Children
      /\ mine \in Mines /\ Shaped(mine) /\ touched \subseteq Keys
      /\ Told(journal, file, mine, touched)
  BY DEF IInv, Types
<1>3. /\ Pending(journal) /\ op \in Ops /\ op.key = child.key /\ child.to = op.after
      /\ child.key \in Packages /\ Above[child.key] = {}
      /\ Sound(op, journal, file, mine, touched)
      /\ \A h \in Holders : hub[h].pc = "wait"
  BY <1>1, InstallerIs
<1>4. child' \in Children /\ child'.key = child.key /\ child'.to = child.to
  BY <1>1, <1>2 DEF Children
<1>5. CASE file' = [file EXCEPT !.torn = TRUE] /\ touched' = touched
  <2>1. file' \in Files /\ file'.val = file.val /\ file'.boxes = file.boxes
    BY <1>2, <1>5 DEF Files
  <2>2. Shaped(file')
    BY <1>2, <2>1 DEF Shaped
  <2>3. Told(journal, file', mine, touched)
    BY <1>2, <2>1, ToldSame
  <2> QED BY <1>1, <1>2, <1>3, <1>4, <1>5, <2>1, <2>2, <2>3, OutsideKeeps
<1>6. ASSUME NEW k \in Keys \ {child.key},
             file' = [file EXCEPT !.val[child.key] = child.to, !.val[k] = Absent],
             touched' = touched \cup {k}
      PROVE  IInv'
  <2>1. op.key \in Keys /\ op.after \in Vals /\ Absent \in Vals /\ op.key # k
    BY <1>3 DEF Ops, Vals
  <2>2. file'.val = [[file.val EXCEPT ![op.key] = op.after] EXCEPT ![k] = Absent]
    BY <1>2, <1>3, <1>6 DEF Files
  <2>3. file'.boxes = file.boxes /\ file'.torn = file.torn /\ file' \in Files
    BY <1>2, <1>3, <1>6, <2>1 DEF Files, Declarations, Vals
  <2>4. /\ file'.val[op.key] = op.after /\ file'.val[k] = Absent
        /\ \A i \in Keys \ {op.key, k} : file'.val[i] = file.val[i]
    BY <1>2, <2>1, <2>2 DEF Files, Declarations
  <2>5. Shaped(file')
    BY <1>2, <1>3, <2>3, <2>4 DEF Shaped
  <2>6. Sound(op, journal, file', mine, touched')
    BY <1>3, <1>6 DEF Sound
  <2>7. Told(journal, file', mine, touched')
    BY <1>2, <1>3, <1>6, <2>4, <2>6 DEF Told
  <2> QED BY <1>1, <1>2, <1>3, <1>4, <1>6, <2>3, <2>5, <2>7, OutsideKeeps
<1> QED BY <1>5, <1>6 DEF PiSpoils

LEMMA PiExitsKeeps ==
  ASSUME IInv, PiExits
  PROVE  IInv'
<1>1. /\ child' = NoChild /\ file' = file /\ journal' = journal /\ lock' = lock
      /\ want' = want /\ hub' = hub /\ mem' = mem /\ mine' = mine /\ touched' = touched
  BY DEF PiExits, disk, history
<1>2. Holders' = Holders
  BY <1>1 DEF Holders
<1> QED BY <1>1, <1>2, StandKeeps DEF IInv, Types

\* Making a leaf makes the objects around it.
LEMMA EditedShaped ==
  ASSUME NEW f, NEW f2, NEW k \in Keys, NEW v, NEW more \in SUBSET Boxes,
         more = IF v = Absent THEN {} ELSE Above[k],
         Shaped(f), f2.boxes = f.boxes \cup more,
         v # Absent => Above[k] \subseteq f2.boxes,
         \A i \in Keys \ {k} : f2.val[i] = f.val[i], f2.val[k] \in {v, f.val[k]}
  PROVE  Shaped(f2)
<1>1. \A b \in more : Outside[b] \subseteq more
  BY PiHandlerAssumption
<1> QED BY <1>1 DEF Shaped

LEMMA EditKeeps ==
  ASSUME IInv, NEW k \in Keys, NEW v \in Vals, Edit(k, v)
  PROVE  IInv'
<1> DEFINE more == IF v = Absent THEN {} ELSE Above[k]
<1>1. /\ file' = [file EXCEPT !.val[k] = v,
                             !.boxes = IF v = Absent THEN file.boxes ELSE file.boxes \cup Above[k]]
      /\ mine' = [val |-> IF Managed(k) THEN mine.val ELSE [mine.val EXCEPT ![k] = v],
                  boxes |-> IF v = Absent THEN mine.boxes ELSE mine.boxes \cup Above[k]]
      /\ touched' = IF Managed(k) THEN touched \cup {k} ELSE touched
      /\ Stale /\ journal' = journal /\ lock' = lock /\ want' = want /\ hub' = hub
      /\ child' = child
  BY DEF Edit
<1>2. /\ file \in Files /\ Shaped(file) /\ journal \in Journals /\ child \in Children
      /\ mine \in Mines /\ Shaped(mine) /\ touched \subseteq Keys /\ mem \in Mems
      /\ Told(journal, file, mine, touched)
  BY DEF IInv, Types
<1>3. more \in SUBSET Boxes
  BY PiHandlerAssumption
<1>4. /\ file'.val = [file.val EXCEPT ![k] = v] /\ file'.boxes = file.boxes \cup more
      /\ file' \in Files
  <2>1. [file.val EXCEPT ![k] = v] \in Declarations
    BY <1>2 DEF Files, Declarations, Vals
  <2>2. file.boxes \cup more \in SUBSET Boxes
    BY <1>2, <1>3 DEF Files
  <2>3. file' = [file EXCEPT !.val = [file.val EXCEPT ![k] = v], !.boxes = file.boxes \cup more]
    BY <1>1, <1>2 DEF Files
  <2> QED BY <1>2, <2>1, <2>2, <2>3 DEF Files
<1>5. /\ mine'.val = (IF Managed(k) THEN mine.val ELSE [mine.val EXCEPT ![k] = v])
      /\ mine'.boxes = mine.boxes \cup more /\ mine' \in Mines
  <2>1. [mine.val EXCEPT ![k] = v] \in Declarations
    BY <1>2 DEF Mines, Declarations, Vals
  <2>2. mine.boxes \cup more \in SUBSET Boxes
    BY <1>2, <1>3 DEF Mines
  <2>3. mine' = [val |-> IF Managed(k) THEN mine.val ELSE [mine.val EXCEPT ![k] = v],
                 boxes |-> mine.boxes \cup more]
    BY <1>1
  <2> QED BY <1>2, <2>1, <2>2, <2>3 DEF Mines
<1>6. file'.val[k] = v /\ \A i \in Keys \ {k} : file'.val[i] = file.val[i]
  BY <1>2, <1>4 DEF Files, Declarations
<1>7. /\ \A i \in Keys \ {k} : mine'.val[i] = mine.val[i]
      /\ mine'.val[k] \in {v, mine.val[k]} /\ (~Managed(k) => mine'.val[k] = v)
  <2>1. CASE Managed(k)
    BY <1>5, <2>1
  <2>2. CASE ~Managed(k)
    BY <1>2, <1>5, <2>2 DEF Mines, Declarations
  <2> QED BY <2>1, <2>2
<1>8. /\ touched \subseteq touched' /\ touched' \subseteq Keys
      /\ Managed(k) => k \in touched'
      /\ touched' \subseteq touched \cup {k}
  BY <1>1, <1>2
<1>9. Shaped(file') /\ Shaped(mine')
  <2>1. v # Absent => Above[k] \subseteq file'.boxes /\ Above[k] \subseteq mine'.boxes
    BY <1>4, <1>5
  <2>2. more = IF v = Absent THEN {} ELSE Above[k]
    OBVIOUS
  <2> HIDE DEF more
  <2>3. Shaped(file')
    BY <1>2, <1>3, <1>4, <1>6, <2>1, <2>2, EditedShaped
  <2>4. Shaped(mine')
    BY <1>2, <1>3, <1>5, <1>7, <2>1, <2>2, EditedShaped
  <2> QED BY <2>3, <2>4
<1>10. ASSUME NEW op \in Ops, Sound(op, journal, file, mine, touched), op.key = k => Managed(k)
       PROVE  Sound(op, journal, file', mine', touched')
  <2>1. op.key # k => mine'.val[op.key] = mine.val[op.key]
    BY <1>7 DEF Ops
  <2>2. op.key = k => k \in touched'
    BY <1>8, <1>10
  <2>3. more = IF v = Absent THEN {} ELSE Above[k]
    OBVIOUS
  <2> HIDE DEF more
  <2>4. /\ op \in Ops /\ file \in Files /\ file' \in Files /\ k \in Keys /\ v \in Vals
        /\ more \in SUBSET Boxes /\ more = IF v = Absent THEN {} ELSE Above[k]
        /\ file'.val = [file.val EXCEPT ![k] = v] /\ file'.boxes = file.boxes \cup more
        /\ mine'.boxes = mine.boxes \cup more
        /\ op.key # k => mine'.val[op.key] = mine.val[op.key]
        /\ op.key = k => k \in touched'
        /\ touched \subseteq touched'
        /\ Sound(op, journal, file, mine, touched)
    BY <1>2, <1>3, <1>4, <1>5, <1>8, <1>10, <2>1, <2>2, <2>3
  <2> QED BY ONLY <2>4, EditSound, ZenonT(60)
<1>11. Pending(journal) => Sound(journal.op, journal, file', mine', touched')
  BY <1>2, <1>10 DEF Told, Pending, Journals, Managed
<1>12. Told(journal, file', mine', touched')
  <2>1. ASSUME NEW i \in Keys \ touched', i = k
        PROVE  /\ ~Owned(journal.owned, i) /\ journal.op.key # i
               /\ file'.val[i] = mine'.val[i]
    BY <2>1, <1>6, <1>7, <1>8 DEF Managed
  <2>2. ASSUME NEW i \in Keys \ touched', i # k
        PROVE  file'.val[i] = file.val[i] /\ mine'.val[i] = mine.val[i] /\ i \notin touched
    BY <2>2, <1>6, <1>7, <1>8
  <2>3. touched' = {} /\ ~Pending(journal) => file'.boxes \subseteq mine'.boxes \cup journal.boxes
    BY <1>2, <1>4, <1>5, <1>8 DEF Told
  <2>4. \A i \in Keys \ touched' :
          IF journal.op.key = i
            THEN file'.val[i] \in {journal.op.before, journal.op.after}
            ELSE file'.val[i] = IF Owned(journal.owned, i) THEN journal.owned[i].last
                                                           ELSE mine'.val[i]
    BY <1>2, <2>1, <2>2 DEF Told
  <2>5. \A i \in Keys \ touched' :
          Owned(journal.owned, i) => journal.owned[i].orig = mine'.val[i]
    BY <1>2, <2>1, <2>2 DEF Told
  <2> QED BY <1>2, <1>11, <2>3, <2>4, <2>5 DEF Told
<1>13. ASSUME NEW h \in Holders
       PROVE  /\ hub[h].pc = "journal" =>
                   /\ Sound(mem.op, journal, file', mine', touched')
                   /\ mem.op.key \notin touched' => file'.val[mem.op.key] = mem.op.before
              /\ hub[h].pc = "record" /\ mem.op.key \notin touched' =>
                   file'.val[mem.op.key] = mem.op.after
  <2>1. Place(hub[h].pc, mem, journal, file, mine, touched)
    BY <1>13 DEF IInv, Places
  <2>2. CASE hub[h].pc = "journal"
    <3>1. /\ mem.op # NoOp /\ Sound(mem.op, journal, file, mine, touched)
          /\ mem.op.key \notin touched => file.val[mem.op.key] = mem.op.before
      BY <2>1, <2>2 DEF Place
    <3>2. mem.op \in Ops /\ mem.op.key \in Keys
      BY <1>2, <3>1 DEF Mems, Ops
    <3>3. mem.op.key = k => Managed(k)
      BY <2>2, <1>13 DEF Managed, At
    <3> QED BY <2>2, <3>1, <3>2, <3>3, <1>6, <1>8, <1>10
  <2>3. CASE hub[h].pc = "record"
    <3>1. /\ Pending(journal) /\ mem.op = journal.op
          /\ mem.op.key \notin touched => file.val[mem.op.key] = mem.op.after
      BY <2>1, <2>3 DEF Place, Started
    <3>2. mem.op.key \in Keys
      BY <1>2, <3>1 DEF Journals, Pending, Ops
    <3>3. mem.op.key = k => Managed(k)
      BY <3>1 DEF Managed
    <3> QED BY <2>3, <3>1, <3>2, <3>3, <1>6, <1>8
  <2> QED BY <2>2, <2>3
<1> QED BY <1>1, <1>2, <1>4, <1>5, <1>8, <1>9, <1>12, <1>13, OutsideKeeps

LEMMA EditManifestKeeps ==
  ASSUME IInv, EditManifest
  PROVE  IInv'
<1>1. /\ child' = child /\ file' = file /\ journal' = journal /\ lock' = lock
      /\ hub' = hub /\ mem' = mem /\ mine' = mine /\ touched' = touched
  BY DEF EditManifest, disk, history
<1>2. want' \in Manifests
  BY DEF EditManifest
<1>3. Holders' = Holders
  BY <1>1 DEF Holders
<1> QED BY <1>1, <1>2, <1>3, StandKeeps DEF IInv, Types

LEMMA RecoveryKeeps ==
  ASSUME IInv, RemoveLock \/ Mend
  PROVE  IInv'
<1>1. /\ child' = child /\ want' = want /\ Holders = {} /\ child = NoChild
      /\ hub' = hub /\ mem' = mem /\ mine' = mine /\ touched' = touched
      /\ lock' \in BOOLEAN
  BY DEF RemoveLock, Mend, Idle, history, IInv, Types
<1>2. file \in Files /\ journal \in Journals
  BY DEF IInv, Types
<1>3. file' \in Files /\ file'.val = file.val /\ file'.boxes = file.boxes
  BY <1>2 DEF RemoveLock, Mend, Files
<1>4. /\ journal' \in Journals /\ journal'.op = journal.op /\ journal'.owned = journal.owned
      /\ journal'.boxes = journal.boxes
  BY <1>2 DEF RemoveLock, Mend, Journals
<1>5. Holders' = Holders
  BY <1>1 DEF Holders
<1> QED BY <1>1, <1>3, <1>4, <1>5, StandKeeps DEF IInv, Types

-----------------------------------------------------------------------------
(* The invariant, and what it shows.                                       *)

LEMMA NextKeeps ==
  ASSUME IInv, [PiNext]_vars
  PROVE  IInv'
<1>1. ASSUME NEW h \in Hubs, Apply(h) \/ HubStep(h) \/ HubFails(h)
      PROVE  IInv'
  <2>1. CASE Apply(h)
    BY <2>1, ApplyKeeps
  <2>2. CASE HubStep(h)
    BY <2>2, AcquireLockKeeps, TakeUpKeeps, PlanNextKeeps, JournalKeeps, ExecuteSettingKeeps,
       VerifyKeeps, ExecutePackageKeeps, ExitedKeeps, InspectKeeps, RecordKeeps DEF HubStep
  <2>3. CASE HubFails(h)
    BY <2>3, StopUncertainKeeps, InspectUnmarkedKeeps, FaultKeeps, CrashKeeps DEF HubFails
  <2> QED BY <1>1, <2>1, <2>2, <2>3
<1>2. CASE PiWrites \/ PiSpoils \/ PiExits
  BY <1>2, PiWritesKeeps, PiSpoilsKeeps, PiExitsKeeps
<1>3. CASE People
  <2>1. ASSUME NEW k \in Keys, NEW v \in Values \cup {Absent}, Edit(k, v)
        PROVE  IInv'
    BY <2>1, EditKeeps DEF Vals
  <2> QED BY <1>3, <2>1, EditManifestKeeps, RecoveryKeeps DEF People
<1>4. CASE vars' = vars
  <2>1. /\ file' = file /\ journal' = journal /\ lock' = lock /\ want' = want /\ hub' = hub
        /\ mem' = mem /\ child' = child /\ mine' = mine /\ touched' = touched
    BY <1>4 DEF vars, disk, history
  <2>2. Holders' = Holders
    BY <2>1 DEF Holders
  <2> QED BY <2>1, <2>2, StandKeeps DEF IInv, Types
<1> QED BY <1>1, <1>2, <1>3, <1>4 DEF PiNext

LEMMA InvHolds == Spec => []IInv
<1>1. Init => IInv
  BY InitInv
<1>2. IInv /\ [PiNext]_vars => IInv'
  BY NextKeeps
<1> QED BY <1>1, <1>2, PTL DEF Spec

\* The settings file and pi-state.json have their shapes, whoever writes them: a leaf
\* that is set has its objects around it, an object has those around it, ownership is
\* of managed names, and the manifest is one that may be given.
THEOREM TypeCorrect == Spec => []TypeOK
<1>1. IInv => TypeOK
  BY OpKeys DEF IInv, Types, TypeOK, Files, Journals, Ownership, Vals
<1> QED BY <1>1, InvHolds, PTL

\* The journal explains the file.  Through every failure, retry, edit and kill: a name
\* that nobody else changed while it was managed is as the journal left it, or as its
\* pending operation found it or wants it; the original kept for the release is the
\* person's; what is released has left no object behind.  While an installer runs, the
\* lock is held, the journal names what it does, and no other apply works.
THEOREM JournalAlwaysExplains == Spec => []JournalExplains
<1>1. ASSUME IInv
      PROVE  Explained
  <2>1. Told(journal, file, mine, touched)
    BY <1>1 DEF IInv
  <2>2. ASSUME touched = {}, ~Pending(journal), \A k \in Keys : ~Owned(journal.owned, k)
        PROVE  file.boxes \subseteq mine.boxes
    <3>1. Holding(journal.owned) = {}
      BY <2>2 DEF Holding
    <3> QED BY <2>1, <2>2, <3>1 DEF Told
  <2> QED BY <2>1, <2>2 DEF Told, Explained
<1>2. ASSUME IInv
      PROVE  InstallerHoldsLock
  <2>1. Cardinality(Holders) <= 1
    <3>1. CASE Holders = {}
      BY <3>1, FS_EmptySet
    <3>2. CASE Holders # {}
      <4>1. PICK h \in Holders : TRUE
        BY <3>2
      <4>2. Holders = {h}
        BY <1>2, <4>1 DEF IInv, Exclusive
      <4> QED BY <4>2, FS_Singleton
    <3> QED BY <3>1, <3>2
  <2> QED BY <1>2, <2>1 DEF IInv, Exclusive, InstallerHoldsLock
<1>3. IInv => JournalExplains
  BY <1>1, <1>2 DEF JournalExplains
<1> QED BY <1>3, InvHolds, PTL

\* From "execute" to "verify" or "wait" there is one way: the write, or the start of
\* the installer.
LEMMA OnlyExecutes ==
  ASSUME IInv, PiNext, NEW h \in Hubs, At(h, "execute"), hub'[h].pc \in {"verify", "wait"}
  PROVE  ExecuteSetting(h) \/ ExecutePackage(h)
<1>1. hub \in [Hubs -> [pc : Working \cup {"idle", "checked"}, goal : Declarations]]
  BY DEF IInv, Types
<1>2. hub' # hub /\ hub'[h] # hub[h]
  BY DEF At
<1>3. ASSUME NEW g \in Hubs, Apply(g) \/ HubStep(g) \/ HubFails(g)
      PROVE  \A i \in Hubs \ {g} : hub'[i] = hub[i]
  <2>1. \/ \E pc \in {"checked"} : hub' = [hub EXCEPT ![g] = [pc |-> pc, goal |-> want]]
        \/ \E pc \in Working : Goto(g, pc)
        \/ Return(g)
    <3>1. CASE Apply(g)
      BY <3>1 DEF Apply
    <3>2. CASE AcquireLock(g) \/ PlanNext(g) \/ Journal(g) \/ ExecuteSetting(g) \/ Verify(g)
      BY <3>2 DEF AcquireLock, PlanNext, Journal, ExecuteSetting, Verify, Ends, Leave, Working
    <3>3. CASE TakeUp(g)
      BY <3>3 DEF TakeUp, Ends, Leave, Working
    <3>4. CASE ExecutePackage(g) \/ Exited(g) \/ Stopped(g) \/ Inspect(g) \/ Record(g)
      BY <3>4 DEF ExecutePackage, Exited, Stopped, Inspect, Record, Ends, Leave, Working
    <3>5. CASE HubFails(g)
      BY <3>5 DEF HubFails, StopUncertain, InspectUnmarked, Fault, Crash, EndsLocked, Ends, Leave
    <3> QED BY <1>3, <3>1, <3>2, <3>3, <3>4, <3>5 DEF HubStep
  <2> QED BY <1>1, <2>1 DEF Goto, Return
<1>4. ~(PiWrites \/ PiSpoils \/ PiExits \/ People)
  BY <1>2 DEF PiWrites, PiSpoils, PiExits, People, Edit, EditManifest, RemoveLock, Mend
<1>5. Apply(h) \/ HubStep(h) \/ HubFails(h)
  BY <1>2, <1>3, <1>4 DEF PiNext
<1>6. ~HubFails(h)
  <2>1. HubFails(h) => Return(h)
    BY DEF HubFails, StopUncertain, InspectUnmarked, Fault, Crash, EndsLocked, Ends, Leave
  <2>2. Return(h) => hub'[h].pc = "idle"
    BY <1>1 DEF Return
  <2> QED BY <2>1, <2>2
<1> QED BY <1>5, <1>6 DEF At, HubStep, Apply, AcquireLock, TakeUp, PlanNext, Journal, Verify,
          Exited, Stopped, Inspect, Record

\* No edit is lost, whenever it was made: what the handler writes over, and what an
\* installer is started on, held nothing, what the handler had put there, or what is
\* written now; no other name changes, and no object goes that the handler did not make.
THEOREM NoEditIsLost == Spec => EditsSurvive
<1> DEFINE Writes(h) ==
             At(h, "execute") /\ hub'[h].pc \in {"verify", "wait"}
               /\ <<file, child>>' # <<file, child>>
           Safe ==
             /\ file.val[mem.op.key] \in {Absent, journal.owned[mem.op.key].last, mem.op.after}
             /\ \A k \in Keys \ {mem.op.key} : file'.val[k] = file.val[k]
             /\ file.boxes \ file'.boxes \subseteq journal.boxes
<1>1. ASSUME IInv, PiNext, NEW h \in Hubs, Writes(h)
      PROVE  Safe
  <2>1. ExecuteSetting(h) \/ ExecutePackage(h)
    BY <1>1, OnlyExecutes
  <2>2. /\ hub[h].pc = "execute" /\ hub[h].pc \in Working /\ hub[h].pc # "idle"
        /\ hub'[h].pc # "idle"
    BY <1>1 DEF At, Working
  <2>3. Place("execute", mem, journal, file, mine, touched)
    BY <1>1, <2>2, HolderIs
  <2>4. Pending(journal) /\ mem.op = journal.op /\ Prepared(mem, file)
    BY <2>3 DEF Place, Started
  <2>5. /\ mem.op \in Ops /\ Sound(mem.op, journal, file, mine, touched)
        /\ file \in Files /\ journal \in Journals
    BY <1>1, <2>4 DEF IInv, Types, Journals, Pending, Told
  <2>6. ~Ends(h)
    <3>1. hub \in [Hubs -> [pc : Working \cup {"idle", "checked"}, goal : Declarations]]
      BY <1>1 DEF IInv, Types
    <3> QED BY <2>2, <3>1 DEF Ends, Leave, Return
  <2>7. CASE ExecutePackage(h)
    <3>1. mem.fresh /\ file' = file
      BY <2>6, <2>7 DEF ExecutePackage, Unchanged
    <3> QED BY <2>4, <2>5, <3>1 DEF Prepared, Sound
  <2>8. CASE ExecuteSetting(h)
    <3>1. /\ ~(mem.seen # mem.expected /\ ~mem.fresh)
          /\ file' = IF mem.seen = mem.expected THEN file ELSE mem.expected
          /\ child' = child
      BY <2>6, <2>8 DEF ExecuteSetting, Unchanged
    <3>2. file' # file
      BY <1>1, <3>1
    <3>3. mem.seen # mem.expected /\ mem.fresh /\ file' = mem.expected
      BY <3>1, <3>2
    <3>4. /\ file = mem.seen /\ file' = Changed(file, mem.op)
          /\ file.val[mem.op.key] = mem.op.before
      BY <2>4, <3>3 DEF Prepared
    <3>5. /\ \A k \in Keys \ {mem.op.key} : file'.val[k] = file.val[k]
          /\ file.boxes \ file'.boxes \subseteq mem.op.prune
      BY <2>5, <3>4, ChangedOnly, ChangedTakes
    <3> QED BY <2>5, <3>4, <3>5 DEF Sound
  <2> QED BY <2>1, <2>7, <2>8
<1>2. IInv /\ [PiNext]_vars => [\A h \in Hubs : Writes(h) => Safe]_vars
  BY <1>1
<1>3. Spec => [][\A h \in Hubs : Writes(h) => Safe]_vars
  BY <1>2, InvHolds, PTL DEF Spec
<1> QED BY <1>3 DEF EditsSurvive

-----------------------------------------------------------------------------
(* Why an apply ends.                                                      *)

\* _apply_locked plans again after every operation.  Once an operation is done its name
\* is in need of nothing, and no other name is in need that was not, or the other way
\* round: what is planned next is what was planned before, without that name.
THEOREM OperationsBringNearer ==
  ASSUME NEW goal \in Declarations, NEW f \in Files, NEW st \in Journals, NEW k \in Keys
  PROVE  Planned(goal, Changed(f, Operation(goal, f, st, k)), Operation(goal, f, st, k).owned)
           = {i \in Planned(goal, f, st.owned) : Order[i] # k}
<1> DEFINE op == Operation(goal, f, st, k)
           owned == op.owned
           done == Changed(f, op)
<1>1. /\ op \in Ops /\ op.key = k /\ op.before = f.val[k]
      /\ op.after = IF goal[k] = Absent THEN st.owned[k].orig ELSE goal[k]
      /\ owned = [st.owned EXCEPT ![k] = OwnerOf(goal, f, st.owned, k)]
  BY OperationIs
<1> HIDE DEF op, owned
<1>2. owned[k] = OwnerOf(goal, f, st.owned, k) /\ \A j \in Keys \ {k} : owned[j] = st.owned[j]
  BY <1>1 DEF Journals, Ownership
<1>3. done.val[k] = op.after
  BY <1>1, ChangedReaches
<1>4. \A j \in Keys \ {k} : done.val[j] = f.val[j]
  BY <1>1, ChangedOnly
<1> HIDE DEF done
<1>5. ~Needs(goal, done, owned, k)
  <2>1. CASE goal[k] = Absent
    BY <2>1, <1>2 DEF Needs, Owned, OwnerOf, NotOwned
  <2>2. CASE goal[k] # Absent
    BY <2>2, <1>1, <1>2, <1>3 DEF Needs, Owned, OwnerOf
  <2> QED BY <2>1, <2>2
<1>6. \A j \in Keys \ {k} : Needs(goal, done, owned, j) <=> Needs(goal, f, st.owned, j)
  BY <1>2, <1>4 DEF Needs, Owned
<1>7. \A i \in 1..Len(Order) : Order[i] \in Keys
  BY PiHandlerAssumption
<1>8. Planned(goal, done, owned) = {i \in Planned(goal, f, st.owned) : Order[i] # k}
  BY <1>5, <1>6, <1>7 DEF Planned
<1> QED BY <1>8 DEF done, owned, op
=============================================================================
