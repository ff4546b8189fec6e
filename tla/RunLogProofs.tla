---------------------------- MODULE RunLogProofs ----------------------------
(***************************************************************************)
(* Theorems about RunLog for every set of steps, attempts, handles,        *)
(* processes and batches: types, the log always replays, every state it    *)
(* folds to is sound, a sole handle is never stale, a stale one stays so,  *)
(* a recovery is never refused and leaves nothing to recover.              *)
(***************************************************************************)
EXTENDS RunLog, RunStateProofs, SequenceTheorems

Maps(K, V) == UNION {[D -> V] : D \in SUBSET K}
\* The run states, as a set.
RunStates ==
  {s \in [status: {"none", "active", "ended"}, lastSeq: Nat,
          steps: Maps(Steps, StepRecords), attempts: Maps(Attempts, AttemptRecords),
          gates: Maps(GateIds, GateRecords), artifacts: SUBSET Artifacts] : IsRunState(s)}

LEMMA MapsOK ==
  ASSUME NEW K, NEW V, NEW f, IsMap(f, K, V)
  PROVE  f \in Maps(K, V)
  BY DEF IsMap, Maps

LEMMA RunStatesOK ==
  ASSUME NEW s
  PROVE  s \in RunStates <=> IsRunState(s)
  <1>1. ASSUME IsRunState(s) PROVE s \in RunStates
    <2>1. /\ s.steps \in Maps(Steps, StepRecords)
          /\ s.attempts \in Maps(Attempts, AttemptRecords)
          /\ s.gates \in Maps(GateIds, GateRecords)
      BY <1>1, MapsOK DEF IsRunState
    <2>2. QED
      BY <2>1, <1>1 DEF IsRunState, RunStates
  <1>2. QED
    BY <1>1 DEF RunStates

-----------------------------------------------------------------------------
\* The types, with sets of sequences instead of TLC's element-wise TypeOK.
Typed ==
  /\ log \in Seq(EventBodies)
  /\ trail \in Seq(RunStates) /\ Len(trail) = Len(log)
  /\ mode \in [Handles -> {"closed", "opening", "open", "writing"}]
  /\ view \in [Handles -> RunStates]
  /\ todo \in [Handles -> Seq(EventBodies)]
  /\ done \in [Handles -> Seq(EventBodies)]
  /\ path \in [Handles -> Seq(RunStates)]
  /\ \A h \in Handles : Len(path[h]) = Len(done[h])
  /\ queue \in [Handles -> Seq(Seq(EventBodies))]
  /\ alone \in [Handles -> BOOLEAN]

LEMMA TipTyped ==
  ASSUME Typed, NEW h \in Handles
  PROVE  Tip(h) \in RunStates
  <1>1. CASE done[h] = <<>>
    BY <1>1 DEF Typed, Tip
  <1>2. CASE done[h] # <<>>
    <2>1. Len(path[h]) \in 1..Len(path[h])
      BY <1>2, LenProperties, EmptySeq DEF Typed
    <2>2. path[h][Len(path[h])] \in RunStates
      BY <2>1, ElementOfSeq DEF Typed
    <2>3. QED
      BY <2>2, <1>2 DEF Tip
  <1>3. QED
    BY <1>1, <1>2

LEMMA TypedInit == Init => Typed
  <1>1. NullRun \in RunStates
    BY NullRunOK, RunStatesOK
  <1>2. QED
    BY <1>1, EmptySeq DEF Init, Typed

LEMMA TypedNext == Typed /\ [Next]_vars => Typed'
  <1> SUFFICES ASSUME Typed, [Next]_vars
               PROVE  Typed'
    OBVIOUS
  <1> USE DEF Typed
  <1>0. NullRun \in RunStates /\ <<>> \in Seq(EventBodies) /\ <<>> \in Seq(RunStates)
        /\ <<>> \in Seq(Seq(EventBodies)) /\ Len(<<>>) = 0
    BY NullRunOK, RunStatesOK, EmptySeq
  <1>a. ASSUME NEW h \in Handles, NEW s \in RunStates, NEW bodies \in Seq(EventBodies),
               BeginOpen(h, s, bodies)
        PROVE  Typed'
    BY <1>a DEF BeginOpen
  <1>1. ASSUME NEW h \in Handles, Start(h)
        PROVE  Typed'
    <2>1. <<RunCreated>> \in Seq(EventBodies)
      BY DEF RunCreated, EventBodies
    <2>2. QED
      BY <2>1, <1>1, <1>0, <1>a DEF Start
  <1>2. ASSUME NEW h \in Handles, Open(h)
        PROVE  Typed'
    <2>1. Len(log) \in 1..Len(trail)
      BY <1>2, LenProperties DEF Open
    <2>2. StateAt(Len(log)) \in RunStates
      BY <2>1, ElementOfSeq DEF StateAt
    <2>3. Recover(StateAt(Len(log))) \in Seq(EventBodies)
      BY <2>2, RunStatesOK, RecoverTyped
    <2>4. QED
      BY <2>2, <2>3, <1>2, <1>a DEF Open
  <1>3. ASSUME NEW h \in Handles, NEW b \in Batches, Submit(h, b)
        PROVE  Typed'
    <2>1. b \in Seq(EventBodies)
      BY RunLogAssumption DEF RunLogAssumption
    <2>2. Append(queue[h], b) \in Seq(Seq(EventBodies))
      BY <2>1, AppendProperties
    <2>3. QED
      BY <2>2, <1>3 DEF Submit
  <1>4. ASSUME NEW h \in Handles, Take(h)
        PROVE  Typed'
    <2>1. Head(queue[h]) \in Seq(EventBodies) /\ Tail(queue[h]) \in Seq(Seq(EventBodies))
      BY <1>4, HeadTailProperties DEF Take
    <2>2. QED
      BY <2>1, <1>4 DEF Take
  <1>5. ASSUME NEW h \in Handles, Fold(h)
        PROVE  Typed'
    <2>1. Head(todo[h]) \in EventBodies /\ Tail(todo[h]) \in Seq(EventBodies)
      BY <1>5, HeadTailProperties DEF Fold
    <2>2. Reduce(Tip(h), Head(todo[h])) \in RunStates
      BY <2>1, <1>5, TipTyped, RunStatesOK, ReduceTyped DEF Fold
    <2>3. /\ Append(path[h], Reduce(Tip(h), Head(todo[h]))) \in Seq(RunStates)
          /\ Append(done[h], Head(todo[h])) \in Seq(EventBodies)
          /\ Len(Append(path[h], Reduce(Tip(h), Head(todo[h])))) = Len(path[h]) + 1
          /\ Len(Append(done[h], Head(todo[h]))) = Len(done[h]) + 1
      BY <2>1, <2>2, AppendProperties
    <2>4. QED
      BY <2>1, <2>3, <1>5 DEF Fold
  <1>b. ASSUME NEW h \in Handles, CommitFails(h)
        PROVE  Typed'
    BY <1>b, <1>0 DEF CommitFails
  <1>6. ASSUME NEW h \in Handles, Reject(h) \/ Stale(h) \/ Fault(h)
        PROVE  Typed'
    BY <1>6, <1>b DEF Reject, Stale, Fault
  <1>7. ASSUME NEW h \in Handles, Commit(h)
        PROVE  Typed'
    <2>1. done[h] \in Seq(EventBodies) /\ path[h] \in Seq(RunStates)
      OBVIOUS
    <2>2. /\ log \o done[h] \in Seq(EventBodies)
          /\ Len(log \o done[h]) = Len(log) + Len(done[h])
      BY <2>1, ConcatProperties
    <2>3. /\ trail \o path[h] \in Seq(RunStates)
          /\ Len(trail \o path[h]) = Len(trail) + Len(path[h])
      BY ZenonT(60), <2>1, ConcatProperties
    <2>4. QED
      BY <2>2, <2>3, <1>7, <1>0, TipTyped DEF Commit
  <1>8. ASSUME NEW P \in Processes, Crash(P)
        PROVE  Typed'
    BY <1>8, <1>0 DEF Crash
  <1>9. CASE UNCHANGED vars
    BY <1>9 DEF vars
  <1>10. QED
    BY <1>1, <1>2, <1>3, <1>4, <1>5, <1>6, <1>7, <1>8, <1>9 DEF Next

\* Types of the store and of the handles, whatever the constants.
THEOREM TypeCorrect == Spec => []TypeOK
  <1>1. Typed => TypeOK
    BY RunStatesOK, ElementOfSeq DEF Typed, TypeOK
  <1>2. QED
    BY <1>1, TypedInit, TypedNext, PTL DEF Spec

-----------------------------------------------------------------------------
\* The state path[h][i] was folded from.
Before(h, i) == IF i = 1 THEN view[h] ELSE path[h][i - 1]

\* The inductive invariant behind the safety theorems: the log replays and is
\* numbered without gaps, the batch in flight folds from the handle's view, an
\* idle handle has no batch in flight, and a view is a state of the log.
Numbered == \A i \in 1..Len(log) : trail[i].lastSeq = i
PathsFold ==
  \A h \in Handles : \A i \in 1..Len(done[h]) :
    /\ Legal(Before(h, i), done[h][i])
    /\ path[h][i] = Reduce(Before(h, i), done[h][i])
    /\ path[h][i].lastSeq = view[h].lastSeq + i
IdleIsEmpty == \A h \in Handles : ~Committing(h) => done[h] = <<>>

History ==
  /\ Typed
  /\ LogReplays
  /\ Numbered
  /\ PathsFold
  /\ IdleIsEmpty
  /\ ViewsAreHistory

LEMMA TipSeq ==
  ASSUME History, NEW h \in Handles
  PROVE  Tip(h).lastSeq = view[h].lastSeq + Len(done[h])
  <1>0. done[h] \in Seq(EventBodies) /\ Len(path[h]) = Len(done[h]) /\ view[h] \in RunStates
    BY DEF History, Typed
  <1>1. CASE done[h] = <<>>
    <2>1. Len(done[h]) = 0 /\ view[h].lastSeq \in Nat
      BY <1>0, <1>1 DEF RunStates
    <2>2. QED
      BY <2>1, <1>1 DEF Tip
  <1>2. CASE done[h] # <<>>
    <2>1. Len(done[h]) \in 1..Len(done[h])
      BY <1>0, <1>2, LenProperties, EmptySeq
    <2>2. QED
      BY <2>1, <1>0, <1>2 DEF Tip, History, PathsFold
  <1>3. QED
    BY <1>1, <1>2

LEMMA HistoryInit == Init => History
  <1> SUFFICES ASSUME Init PROVE History
    OBVIOUS
  <1>1. Typed
    BY TypedInit
  <1>2. Len(log) = 0 /\ \A h \in Handles : Len(done[h]) = 0 /\ done[h] = <<>>
    BY DEF Init
  <1>3. QED
    BY <1>1, <1>2
    DEF Init, History, LogReplays, Numbered, PathsFold, IdleIsEmpty, ViewsAreHistory

\* Where the store and the views of the open handles stay, history stays.
LEMMA StoreUnchanged ==
  ASSUME History, Typed', UNCHANGED <<log, trail>>,
         \A h \in Handles :
           mode'[h] = "closed" \/ (mode[h] # "closed" /\ view'[h] = view[h]),
         PathsFold', IdleIsEmpty'
  PROVE  History'
  <1>1. LogReplays' /\ Numbered'
    BY DEF History, LogReplays, Numbered, StateAt
  <1>2. ViewsAreHistory'
    BY DEF History, ViewsAreHistory, StateAt
  <1>3. QED
    BY <1>1, <1>2 DEF History

LEMMA HistoryNext == History /\ [Next]_vars => History'
  <1> SUFFICES ASSUME History, [Next]_vars
               PROVE  History'
    OBVIOUS
  <1>t. Typed /\ Typed'
    BY TypedNext DEF History
  <1>l. /\ Len(log) \in Nat /\ \A h \in Handles : Len(done[h]) \in Nat
        /\ \A h \in Handles : done[h] \in Seq(EventBodies)
        /\ \A h \in Handles : Len(path[h]) = Len(done[h]) /\ path[h] \in Seq(RunStates)
    BY <1>t, LenProperties DEF Typed
  <1>a. ASSUME NEW h \in Handles, NEW s, NEW bodies, BeginOpen(h, s, bodies),
               s.lastSeq \in 0..Len(log), s = StateAt(s.lastSeq)
        PROVE  History'
    <2>1. done[h] = <<>> /\ Len(done[h]) = 0
      BY <1>a, <1>l DEF BeginOpen, History, IdleIsEmpty, Committing
    <2>2. view' = [view EXCEPT ![h] = s] /\ view'[h] = s
      BY <1>a, <1>t DEF BeginOpen, Typed
    <2>3. PathsFold'
      BY SMTT(30), <2>1, <2>2, <1>a, <1>l, <1>t DEF BeginOpen, History, PathsFold, Before, Typed
    <2>4. IdleIsEmpty'
      BY <1>a, <1>t DEF BeginOpen, History, IdleIsEmpty, Committing, Typed
    <2>5. LogReplays' /\ Numbered'
      BY <1>a DEF BeginOpen, History, LogReplays, Numbered, StateAt
    <2>6. ViewsAreHistory'
      BY <2>2, <1>a, <1>t DEF BeginOpen, History, ViewsAreHistory, StateAt, Typed
    <2>7. QED
      BY <2>3, <2>4, <2>5, <2>6, <1>t DEF History
  <1>1. ASSUME NEW h \in Handles, Start(h)
        PROVE  History'
    <2>1. NullRun.lastSeq \in 0..Len(log) /\ NullRun = StateAt(NullRun.lastSeq)
      BY <1>l DEF NullRun, StateAt
    <2>2. QED
      BY <2>1, <1>1, <1>a DEF Start
  <1>2. ASSUME NEW h \in Handles, Open(h)
        PROVE  History'
    <2>1. Len(log) \in 1..Len(log)
      BY <1>2, <1>l DEF Open
    <2>2. StateAt(Len(log)).lastSeq = Len(log)
      BY <2>1 DEF StateAt, History, Numbered
    <2>3. QED
      BY <2>1, <2>2, <1>2, <1>a DEF Open
  <1>3. ASSUME NEW h \in Handles, NEW b \in Batches, Submit(h, b)
        PROVE  History'
    <2>1. PathsFold' /\ IdleIsEmpty'
      BY <1>3 DEF Submit, History, PathsFold, Before, IdleIsEmpty, Committing
    <2>2. QED
      BY <2>1, <1>3, <1>t, StoreUnchanged DEF Submit
  <1>4. ASSUME NEW h \in Handles, Take(h)
        PROVE  History'
    <2>1. PathsFold' /\ IdleIsEmpty'
      BY <1>4, <1>t DEF Take, History, PathsFold, Before, IdleIsEmpty, Committing, Typed
    <2>2. QED
      BY <2>1, <1>4, <1>t, StoreUnchanged DEF Take, Typed
  <1>5. ASSUME NEW h \in Handles, Fold(h)
        PROVE  History'
    <2> DEFINE e == Head(todo[h])
    <2>0. PICK n \in Nat : n = Len(done[h])
      BY <1>l
    <2>1. e \in EventBodies /\ Reduce(Tip(h), e) \in RunStates
          /\ Reduce(Tip(h), e).lastSeq = Tip(h).lastSeq + 1
      <3>1. e \in EventBodies
        BY <1>5, <1>t, HeadTailProperties DEF Fold, Typed
      <3>2. QED
        BY <3>1, <1>5, <1>t, TipTyped, RunStatesOK, ReduceTyped DEF Fold
    <2>2. /\ done' = [done EXCEPT ![h] = Append(done[h], e)]
          /\ path' = [path EXCEPT ![h] = Append(path[h], Reduce(Tip(h), e))]
          /\ view' = view /\ mode' = mode
      BY <1>5 DEF Fold
    <2> HIDE DEF e
    <2>3. /\ done'[h] = Append(done[h], e) /\ path'[h] = Append(path[h], Reduce(Tip(h), e))
          /\ \A g \in Handles : g # h => done'[g] = done[g] /\ path'[g] = path[g]
      BY <2>2, <1>t DEF Typed
    <2>4. /\ Len(done'[h]) = n + 1
          /\ done'[h][n + 1] = e /\ path'[h][n + 1] = Reduce(Tip(h), e)
          /\ \A i \in 1..n : done'[h][i] = done[h][i] /\ path'[h][i] = path[h][i]
      BY <2>0, <2>1, <2>3, <1>l, AppendProperties
    <2>5. Before(h, n + 1)' = Tip(h)
      <3>1. CASE n = 0
        <4>1. done[h] = <<>>
          BY <2>0, <3>1, <1>l, EmptySeq
        <4>2. QED
          BY <4>1, <3>1, <2>2 DEF Before, Tip
      <3>2. CASE n # 0
        <4>1. /\ n \in 1..n /\ n + 1 # 1 /\ (n + 1) - 1 = n
              /\ done[h] # <<>> /\ Len(path[h]) = n
          BY <2>0, <3>2, <1>l, EmptySeq
        <4>2. QED
          BY <4>1, <2>4 DEF Before, Tip
      <3>3. QED
        BY <3>1, <3>2
    <2>6. \A i \in 1..n : Before(h, i)' = Before(h, i)
      <3>1. TAKE i \in 1..n
      <3>2. CASE i = 1
        BY <3>2, <2>2 DEF Before
      <3>3. CASE i # 1
        <4>1. i - 1 \in 1..n
          BY <3>3, <1>l
        <4>2. QED
          BY <4>1, <3>3, <2>4 DEF Before
      <3>4. QED
        BY <3>2, <3>3
    <2>7. ASSUME NEW i \in 1..(n + 1)
          PROVE  /\ Legal(Before(h, i), done[h][i])'
                 /\ (path[h][i] = Reduce(Before(h, i), done[h][i]))'
                 /\ (path[h][i].lastSeq = view[h].lastSeq + i)'
      <3>1. CASE i \in 1..n
        BY ZenonT(60), <2>0, <3>1, <2>2, <2>4, <2>6 DEF History, PathsFold
      <3>2. CASE i = n + 1
        <4>1. Legal(Tip(h), e)
          BY <1>5 DEF Fold, e
        <4>2. Tip(h).lastSeq = view[h].lastSeq + n /\ view[h].lastSeq \in Nat
          BY <2>0, <1>t, TipSeq DEF Typed, RunStates
        <4>3. Reduce(Tip(h), e).lastSeq = view[h].lastSeq + (n + 1)
          BY <4>2, <2>1
        <4>4. QED
          BY <4>1, <4>3, <3>2, <2>2, <2>4, <2>5
      <3>3. QED
        BY <3>1, <3>2, <1>l
    <2>8. ASSUME NEW g \in Handles, g # h, NEW i \in 1..Len(done[g])
          PROVE  /\ Legal(Before(g, i), done[g][i])'
                 /\ (path[g][i] = Reduce(Before(g, i), done[g][i]))'
                 /\ (path[g][i].lastSeq = view[g].lastSeq + i)'
      BY <2>8, <2>2, <2>3 DEF History, PathsFold, Before
    <2>9. PathsFold'
      <3>1. SUFFICES ASSUME NEW g \in Handles, NEW i \in 1..Len(done'[g])
                     PROVE  /\ Legal(Before(g, i), done[g][i])'
                            /\ (path[g][i] = Reduce(Before(g, i), done[g][i]))'
                            /\ (path[g][i].lastSeq = view[g].lastSeq + i)'
        BY DEF PathsFold
      <3>2. CASE g = h
        BY <3>2, <2>4, <2>7
      <3>3. CASE g # h
        BY <3>3, <2>3, <2>8
      <3>4. QED
        BY <3>2, <3>3
    <2>10. IdleIsEmpty'
      BY <2>2, <2>3, <1>5 DEF History, IdleIsEmpty, Committing, Fold
    <2>11. UNCHANGED <<log, trail>>
      BY <1>5 DEF Fold
    <2>12. QED
      BY <2>2, <2>9, <2>10, <2>11, <1>t, StoreUnchanged DEF Typed
  <1>b. ASSUME NEW h \in Handles, CommitFails(h), Committing(h)
        PROVE  History'
    <2>1. PathsFold' /\ IdleIsEmpty'
      BY <1>b, <1>t DEF CommitFails, History, PathsFold, Before, IdleIsEmpty, Committing, Typed
    <2>2. QED
      BY <2>1, <1>b, <1>t, StoreUnchanged DEF CommitFails, Typed, Committing
  <1>6. ASSUME NEW h \in Handles, Reject(h) \/ Stale(h) \/ Fault(h)
        PROVE  History'
    BY <1>6, <1>b DEF Reject, Stale, Fault
  <1>7. ASSUME NEW h \in Handles, Commit(h)
        PROVE  History'
    <2>0. PICK m \in Nat, n \in Nat : m = Len(log) /\ n = Len(done[h])
      BY <1>l
    <2>1. /\ log' = log \o done[h] /\ trail' = trail \o path[h]
          /\ view' = [view EXCEPT ![h] = Tip(h)] /\ mode' = [mode EXCEPT ![h] = "open"]
          /\ done' = [done EXCEPT ![h] = <<>>] /\ path' = [path EXCEPT ![h] = <<>>]
          /\ mode[h] # "closed"
      BY <1>7 DEF Commit, Committing
    <2>2. /\ view'[h] = Tip(h) /\ done'[h] = <<>> /\ Len(done'[h]) = 0
          /\ \A g \in Handles : g # h =>
               done'[g] = done[g] /\ path'[g] = path[g] /\ view'[g] = view[g]
               /\ mode'[g] = mode[g]
      BY <2>1, <1>t, EmptySeq DEF Typed
    <2>a. IdleIsEmpty'
      BY <2>2 DEF History, IdleIsEmpty, Committing
    <2>b. ASSUME NEW g \in Handles, NEW i \in 1..Len(done'[g])
          PROVE  /\ Legal(Before(g, i), done[g][i])'
                 /\ (path[g][i] = Reduce(Before(g, i), done[g][i]))'
                 /\ (path[g][i].lastSeq = view[g].lastSeq + i)'
      <3>1. g # h
        BY <2>2, <2>b
      <3>2. QED
        BY SMTT(30), <3>1, <2>2, <2>b DEF History, PathsFold, Before
    <2>3. PathsFold' /\ IdleIsEmpty'
      BY <2>a, <2>b DEF PathsFold
    <2>4. Tip(h).lastSeq = view[h].lastSeq + n
      BY <2>0, TipSeq
    <2>5. CASE done[h] = <<>>
      <3>1. UNCHANGED <<log, trail>>
        <4>1. path[h] = <<>>
          BY <2>5, <1>l, EmptySeq
        <4>2. QED
          BY <4>1, <2>1, <2>5, <1>t, ConcatEmptySeq DEF Typed
      <3>2. view'[h] = view[h]
        BY <2>2, <2>5 DEF Tip
      <3>3. QED
        BY <3>1, <3>2, <2>1, <2>2, <2>3, <1>t, StoreUnchanged
    <2>6. CASE done[h] # <<>>
      <3>1. /\ view[h].lastSeq = m /\ view[h] = StateAt(m) /\ n # 0
            /\ Len(trail) = m /\ Len(path[h]) = n
        BY <2>0, <2>1, <2>6, <1>7, <1>l, <1>t, EmptySeq
        DEF Commit, SeqMatches, History, ViewsAreHistory, Typed
      <3>2. /\ Len(log') = m + n /\ Len(trail') = m + n
            /\ \A i \in 1..(m + n) : log'[i] = IF i <= m THEN log[i] ELSE done[h][i - m]
            /\ \A i \in 1..(m + n) : trail'[i] = IF i <= m THEN trail[i] ELSE path[h][i - m]
        <4>1. /\ log \in Seq(EventBodies) /\ done[h] \in Seq(EventBodies)
              /\ trail \in Seq(RunStates) /\ path[h] \in Seq(RunStates)
          BY <1>t DEF Typed
        <4>2. /\ Len(log') = m + n
              /\ \A i \in 1..(m + n) : log'[i] = IF i <= m THEN log[i] ELSE done[h][i - m]
          BY <4>1, <2>0, <2>1, ConcatProperties
        <4>3. /\ Len(trail') = m + n
              /\ \A i \in 1..(m + n) : trail'[i] = IF i <= m THEN trail[i]
                                                            ELSE path[h][i - m]
          <5>1. Len(trail) = m /\ Len(path[h]) = n
            BY <3>1
          <5>2. QED
            BY <4>1, <5>1, <2>1, ConcatProperties
        <4>4. QED
          BY <4>2, <4>3
      <3>3. \A j \in 0..m : StateAt(j)' = StateAt(j)
        BY <3>2 DEF StateAt
      <3>4. \A k \in 1..n : StateAt(m + k)' = path[h][k] /\ trail'[m + k] = path[h][k]
                            /\ log'[m + k] = done[h][k]
        BY <3>2 DEF StateAt
      <3>5. \A k \in 1..n : StateAt((m + k) - 1)' = Before(h, k)
        <4>1. TAKE k \in 1..n
        <4>2. CASE k = 1
          <5>1. (m + k) - 1 = m /\ m \in 0..m
            BY <4>2
          <5>2. QED
            BY <5>1, <4>2, <3>1, <3>3 DEF Before
        <4>3. CASE k # 1
          <5>1. k - 1 \in 1..n /\ (m + k) - 1 = m + (k - 1)
            BY <4>3
          <5>2. QED
            BY <5>1, <4>3, <3>4 DEF Before
        <4>4. QED
          BY <4>2, <4>3
      <3>6. ASSUME NEW i \in 1..(m + n)
            PROVE  /\ Legal(StateAt(i - 1)', log'[i])
                   /\ trail'[i] = Reduce(StateAt(i - 1)', log'[i])
                   /\ trail'[i].lastSeq = i
        <4>1. CASE i <= m
          <5>1. i \in 1..m /\ i - 1 \in 0..m
            BY <4>1
          <5>2. QED
            BY <5>1, <4>1, <3>2, <3>3, <2>0 DEF History, LogReplays, Numbered
        <4>2. CASE i > m
          <5>1. PICK k \in 1..n : i = m + k
            <6>1. i - m \in 1..n /\ i = m + (i - m)
              BY <4>2
            <6>2. QED
              BY <6>1
          <5>2. /\ Legal(Before(h, k), done[h][k])
                /\ path[h][k] = Reduce(Before(h, k), done[h][k])
                /\ path[h][k].lastSeq = m + k
            BY <2>0, <3>1 DEF History, PathsFold
          <5>3. QED
            BY <5>1, <5>2, <3>4, <3>5
        <4>3. QED
          BY <4>1, <4>2
      <3>7. LogReplays' /\ Numbered'
        BY <3>2, <3>6 DEF LogReplays, Numbered
      <3>8. ASSUME NEW g \in Handles, mode'[g] # "closed"
            PROVE  \E j \in 0..(m + n) :
                     view'[g].lastSeq = j /\ view'[g] = StateAt(j)'
        <4>1. CASE g = h
          <5>1. Tip(h) = path[h][n] /\ n \in 1..n
            BY <2>6, <3>1 DEF Tip
          <5>2. view'[g] = path[h][n] /\ view'[g].lastSeq = m + n
            BY <5>1, <4>1, <2>2, <2>4, <3>1
          <5>3. view'[g] = StateAt(m + n)' /\ m + n \in 0..(m + n)
            BY <5>1, <5>2, <3>4
          <5>4. QED
            BY <5>2, <5>3
        <4>2. CASE g # h
          <5>1. /\ mode[g] # "closed" /\ view'[g] = view[g]
                /\ view[g].lastSeq \in 0..m /\ view[g] = StateAt(view[g].lastSeq)
            BY <4>2, <3>8, <2>0, <2>2 DEF History, ViewsAreHistory
          <5>2. PICK j \in 0..m : view[g].lastSeq = j /\ view[g] = StateAt(j)
            BY <5>1
          <5>3. j \in 0..(m + n) /\ view'[g].lastSeq = j /\ view'[g] = StateAt(j)'
            BY <5>1, <5>2, <3>3
          <5>4. QED
            BY <5>3
        <4>3. QED
          BY <4>1, <4>2
      <3>9. ViewsAreHistory'
        BY <3>2, <3>8 DEF ViewsAreHistory, StateAt
      <3>10. QED
        BY <3>7, <3>9, <2>3, <1>t DEF History
    <2>7. QED
      BY <2>5, <2>6
  <1>8. ASSUME NEW P \in Processes, Crash(P)
        PROVE  History'
    <2>1. PathsFold' /\ IdleIsEmpty'
      BY <1>8, <1>t DEF Crash, History, PathsFold, Before, IdleIsEmpty, Committing, Typed
    <2>2. QED
      BY <2>1, <1>8, <1>t, StoreUnchanged DEF Crash, Typed
  <1>9. CASE UNCHANGED vars
    BY <1>9 DEF vars, History, Typed, LogReplays, Numbered, PathsFold, IdleIsEmpty,
                ViewsAreHistory, StateAt, Before, Committing
  <1>10. QED
    BY <1>1, <1>2, <1>3, <1>4, <1>5, <1>6, <1>7, <1>8, <1>9 DEF Next

\* The log of a run can be folded again after any interleaving of any number of
\* handles, any refused or failed write, and any crash; and no handle believes
\* in a state the log was never in.
THEOREM LogAlwaysReplays == Spec => [](LogReplays /\ ViewsAreHistory)
  <1>1. History => LogReplays /\ ViewsAreHistory
    BY DEF History
  <1>2. QED
    BY <1>1, HistoryInit, HistoryNext, PTL DEF Spec

-----------------------------------------------------------------------------
\* Every state that is stored, believed or being folded is sound.
Sound ==
  /\ History
  /\ \A i \in 1..Len(trail) : RunInv(trail[i])
  /\ \A h \in Handles : RunInv(view[h])
  /\ \A h \in Handles : \A i \in 1..Len(path[h]) : RunInv(path[h][i])

LEMMA TipSound ==
  ASSUME Sound, NEW h \in Handles
  PROVE  RunInv(Tip(h))
  <1>0. path[h] \in Seq(RunStates) /\ Len(path[h]) = Len(done[h]) /\ done[h] \in Seq(EventBodies)
    BY DEF Sound, History, Typed
  <1>1. CASE done[h] = <<>>
    BY <1>1 DEF Tip, Sound
  <1>2. CASE done[h] # <<>>
    <2>1. Len(path[h]) \in 1..Len(path[h])
      BY <1>0, <1>2, LenProperties, EmptySeq
    <2>2. QED
      BY <2>1, <1>2 DEF Tip, Sound
  <1>3. QED
    BY <1>1, <1>2

LEMMA SoundInit == Init => Sound
  <1> SUFFICES ASSUME Init PROVE Sound
    OBVIOUS
  <1>1. History /\ RunInv(NullRun)
    BY HistoryInit, NullRunOK
  <1>2. Len(trail) = 0 /\ \A h \in Handles : Len(path[h]) = 0 /\ view[h] = NullRun
    BY DEF Init
  <1>3. QED
    BY <1>1, <1>2 DEF Sound

LEMMA SoundNext == Sound /\ [Next]_vars => Sound'
  <1> SUFFICES ASSUME Sound, [Next]_vars
               PROVE  Sound'
    OBVIOUS
  <1>t. History /\ History' /\ Typed /\ Typed'
    BY HistoryNext DEF Sound, History
  <1>0. RunInv(NullRun) /\ Len(<<>>) = 0
    BY NullRunOK
  <1>a. ASSUME NEW h \in Handles, NEW s, RunInv(s), NEW bodies, BeginOpen(h, s, bodies)
        PROVE  Sound'
    <2>1. view' = [view EXCEPT ![h] = s] /\ UNCHANGED <<trail, path>>
      BY <1>a DEF BeginOpen
    <2>2. \A g \in Handles : view'[g] = IF g = h THEN s ELSE view[g]
      BY <2>1, <1>t DEF Typed
    <2>3. QED
      BY <2>1, <2>2, <1>a, <1>t DEF Sound
  <1>1. ASSUME NEW h \in Handles, Start(h)
        PROVE  Sound'
    BY <1>1, <1>0, <1>a DEF Start
  <1>2. ASSUME NEW h \in Handles, Open(h)
        PROVE  Sound'
    <2>1. Len(log) \in 1..Len(trail)
      BY <1>2, <1>t, LenProperties DEF Open, Typed
    <2>2. RunInv(StateAt(Len(log)))
      BY <2>1 DEF StateAt, Sound
    <2>3. QED
      BY <2>2, <1>2, <1>a DEF Open
  <1>3. ASSUME NEW h \in Handles, NEW b \in Batches, Submit(h, b)
        PROVE  Sound'
    BY <1>3, <1>t DEF Submit, Sound
  <1>4. ASSUME NEW h \in Handles, Take(h)
        PROVE  Sound'
    BY <1>4, <1>t DEF Take, Sound
  <1>5. ASSUME NEW h \in Handles, Fold(h)
        PROVE  Sound'
    <2> DEFINE r == Reduce(Tip(h), Head(todo[h]))
    <2>0. PICK n \in Nat : n = Len(path[h])
      BY <1>t, LenProperties DEF Typed
    <2>1. r \in RunStates /\ RunInv(r)
      <3>1. Head(todo[h]) \in EventBodies
        BY <1>5, <1>t, HeadTailProperties DEF Fold, Typed
      <3>2. IsRunState(Tip(h)) /\ RunInv(Tip(h))
        BY <1>t, TipTyped, TipSound, RunStatesOK
      <3>3. QED
        BY <3>1, <3>2, <1>5, ReduceSound, ReduceTyped, RunStatesOK DEF Fold
    <2>2. path' = [path EXCEPT ![h] = Append(path[h], r)] /\ UNCHANGED <<trail, view>>
      BY <1>5 DEF Fold
    <2> HIDE DEF r
    <2>3. /\ path'[h] = Append(path[h], r)
          /\ \A g \in Handles : g # h => path'[g] = path[g]
      BY <2>2, <1>t DEF Typed
    <2>4. /\ Len(path'[h]) = n + 1 /\ path'[h][n + 1] = r
          /\ \A i \in 1..n : path'[h][i] = path[h][i]
      BY <2>0, <2>1, <2>3, <1>t, AppendProperties DEF Typed
    <2>5. \A i \in 1..(n + 1) : RunInv(path'[h][i])
      BY <2>0, <2>1, <2>4 DEF Sound
    <2>6. QED
      BY <2>2, <2>3, <2>4, <2>5, <1>t DEF Sound
  <1>b. ASSUME NEW h \in Handles, CommitFails(h)
        PROVE  Sound'
    BY <1>b, <1>0, <1>t DEF CommitFails, Sound, Typed
  <1>6. ASSUME NEW h \in Handles, Reject(h) \/ Stale(h) \/ Fault(h)
        PROVE  Sound'
    BY <1>6, <1>b DEF Reject, Stale, Fault
  <1>7. ASSUME NEW h \in Handles, Commit(h)
        PROVE  Sound'
    <2>0. PICK m \in Nat, n \in Nat : m = Len(trail) /\ n = Len(path[h])
      BY <1>t, LenProperties DEF Typed
    <2>1. /\ trail' = trail \o path[h] /\ view' = [view EXCEPT ![h] = Tip(h)]
          /\ path' = [path EXCEPT ![h] = <<>>]
      BY <1>7 DEF Commit
    <2>2. /\ Len(trail') = m + n
          /\ \A i \in 1..(m + n) : trail'[i] = IF i <= m THEN trail[i] ELSE path[h][i - m]
      <3>1. trail \in Seq(RunStates) /\ path[h] \in Seq(RunStates)
        BY <1>t DEF Typed
      <3>2. QED
        BY <3>1, <2>0, <2>1, ConcatProperties
    <2>3. \A i \in 1..(m + n) : RunInv(trail'[i])
      <3>1. TAKE i \in 1..(m + n)
      <3>2. CASE i <= m
        BY <3>2, <2>0, <2>2 DEF Sound
      <3>3. CASE ~(i <= m)
        <4>1. i - m \in 1..n
          BY <3>3
        <4>2. QED
          BY <4>1, <3>3, <2>0, <2>2 DEF Sound
      <3>4. QED
        BY <3>2, <3>3
    <2>4. RunInv(Tip(h))
      BY TipSound
    <2>5. \A g \in Handles : RunInv(view'[g])
      BY <2>1, <2>4, <1>t DEF Sound, Typed
    <2>6. \A g \in Handles : \A i \in 1..Len(path'[g]) : RunInv(path'[g][i])
      <3>1. \A g \in Handles : path'[g] = IF g = h THEN <<>> ELSE path[g]
        BY <2>1, <1>t DEF Typed
      <3>2. QED
        BY <3>1, <1>0 DEF Sound
    <2>7. QED
      BY <2>2, <2>3, <2>5, <2>6, <1>t DEF Sound
  <1>8. ASSUME NEW P \in Processes, Crash(P)
        PROVE  Sound'
    BY <1>8, <1>0, <1>t DEF Crash, Sound, Typed
  <1>9. CASE UNCHANGED vars
    BY <1>9, <1>t DEF vars, Sound
  <1>10. QED
    BY <1>1, <1>2, <1>3, <1>4, <1>5, <1>6, <1>7, <1>8, <1>9 DEF Next

\* Every state the log ever folds to keeps the reducer's promises: attempts run
\* in running steps, recovery gates stand for interrupted attempts, an ended run
\* has nothing running or waiting.
THEOREM FoldedStatesSound == Spec => []RunStatesSound
  <1>1. Sound => RunStatesSound
    BY DEF Sound, History, Typed, RunStatesSound
  <1>2. QED
    BY <1>1, SoundInit, SoundNext, PTL DEF Spec

-----------------------------------------------------------------------------
\* A handle that opened alone has seen nobody else open; while it stays so, its
\* view is the end of the log.  An opener that has nothing to write is current.
Alone ==
  /\ History
  /\ \A h \in Handles : alone[h] /\ mode[h] # "closed" =>
       /\ \A g \in Handles \ {h} : mode[g] = "closed"
       /\ mode[h] \in {"open", "writing"} => SeqMatches(h)
       /\ mode[h] = "opening" => SeqMatches(h) \/ todo[h] # <<>> \/ done[h] # <<>>

LEMMA AloneInit == Init => Alone
  <1>1. Init => History
    BY HistoryInit
  <1>2. QED
    BY <1>1 DEF Init, Alone

LEMMA AloneNext == Alone /\ [Next]_vars => Alone'
  <1> SUFFICES ASSUME Alone, [Next]_vars
               PROVE  Alone'
    OBVIOUS
  <1>t. History /\ History' /\ Typed /\ Typed'
    BY HistoryNext DEF Alone, History
  <1> USE DEF SeqMatches, Committing
  <1>a. ASSUME NEW h \in Handles, NEW s, NEW bodies, BeginOpen(h, s, bodies),
               s.lastSeq = Len(log) \/ bodies # <<>>
        PROVE  Alone'
    <2>1. \A g \in Handles :
            /\ mode'[g] = IF g = h THEN "opening" ELSE mode[g]
            /\ view'[g] = IF g = h THEN s ELSE view[g]
            /\ todo'[g] = IF g = h THEN bodies ELSE todo[g]
            /\ alone'[g] = IF g = h THEN \A k \in Handles \ {h} : mode[k] = "closed"
                                    ELSE alone[g] /\ mode[g] = "closed"
      BY <1>a, <1>t DEF BeginOpen, Typed
    <2>2. UNCHANGED <<log, done>>
      BY <1>a DEF BeginOpen
    <2>3. QED
      BY ZenonT(60), <2>1, <2>2, <1>a, <1>t DEF Alone
  <1>1. ASSUME NEW h \in Handles, Start(h)
        PROVE  Alone'
    BY <1>1, <1>a DEF Start
  <1>2. ASSUME NEW h \in Handles, Open(h)
        PROVE  Alone'
    <2>1. Len(log) \in 1..Len(trail)
      BY <1>2, <1>t, LenProperties DEF Open, Typed
    <2>2. StateAt(Len(log)).lastSeq = Len(log)
      BY <2>1, <1>t DEF StateAt, History, Numbered, Typed
    <2>3. QED
      BY <2>2, <1>2, <1>a DEF Open
  <1>3. ASSUME NEW h \in Handles, NEW b \in Batches, Submit(h, b)
        PROVE  Alone'
    BY <1>3, <1>t DEF Submit, Alone
  <1>4. ASSUME NEW h \in Handles, Take(h)
        PROVE  Alone'
    BY <1>4, <1>t DEF Take, Alone, Typed
  <1>5. ASSUME NEW h \in Handles, Fold(h)
        PROVE  Alone'
    <2>1. done'[h] # <<>>
      <3>1. done'[h] = Append(done[h], Head(todo[h]))
        BY <1>5, <1>t DEF Fold, Typed
      <3>2. Head(todo[h]) \in EventBodies /\ done[h] \in Seq(EventBodies)
        BY <1>5, <1>t, HeadTailProperties DEF Fold, Typed
      <3>3. QED
        BY <3>1, <3>2, AppendProperties
    <2>2. \A g \in Handles : g # h => todo'[g] = todo[g] /\ done'[g] = done[g]
      BY <1>5, <1>t DEF Fold, Typed
    <2>3. UNCHANGED <<log, mode, view, alone>>
      BY <1>5 DEF Fold
    <2>4. QED
      BY <2>1, <2>2, <2>3, <1>t DEF Alone
  <1>b. ASSUME NEW h \in Handles, CommitFails(h), Committing(h)
        PROVE  Alone'
    BY <1>b, <1>t DEF CommitFails, Alone, Typed
  <1>6. ASSUME NEW h \in Handles, Reject(h) \/ Stale(h) \/ Fault(h)
        PROVE  Alone'
    BY <1>6, <1>b DEF Reject, Stale, Fault
  <1>7. ASSUME NEW h \in Handles, Commit(h)
        PROVE  Alone'
    <2>1. /\ log' = log \o done[h] /\ UNCHANGED <<todo, alone>>
          /\ Committing(h) /\ todo[h] = <<>> /\ (done[h] # <<>> => SeqMatches(h))
      BY <1>7 DEF Commit
    <2>2. \A g \in Handles :
            /\ mode'[g] = IF g = h THEN "open" ELSE mode[g]
            /\ view'[g] = IF g = h THEN Tip(h) ELSE view[g]
            /\ done'[g] = IF g = h THEN <<>> ELSE done[g]
      BY <1>7, <1>t DEF Commit, Typed
    <2>3. Len(log') = Len(log) + Len(done[h])
      BY <2>1, <1>t, ConcatProperties DEF Typed
    <2>4. Tip(h).lastSeq = view[h].lastSeq + Len(done[h])
      BY <1>t, TipSeq
    <2>5. ASSUME alone[h]
          PROVE  view'[h].lastSeq = Len(log')
      <3>1. view[h].lastSeq = Len(log)
        BY <2>1, <2>5 DEF Alone
      <3>2. QED
        BY <3>1, <2>2, <2>3, <2>4
    <2>6. QED
      BY <2>1, <2>2, <2>5, <1>t DEF Alone
  <1>8. ASSUME NEW P \in Processes, Crash(P)
        PROVE  Alone'
    <2>1. \A g \in Handles :
            /\ mode'[g] = IF g \in P THEN "closed" ELSE mode[g]
            /\ g \notin P => view'[g] = view[g] /\ todo'[g] = todo[g] /\ done'[g] = done[g]
      BY <1>8 DEF Crash
    <2>2. UNCHANGED <<log, alone>>
      BY <1>8 DEF Crash
    <2>3. QED
      BY <2>1, <2>2, <1>t DEF Alone
  <1>9. CASE UNCHANGED vars
    BY <1>9, <1>t DEF vars, Alone
  <1>10. QED
    BY <1>1, <1>2, <1>3, <1>4, <1>5, <1>6, <1>7, <1>8, <1>9 DEF Next

\* One open RunLog per run is enough: while no second handle opens, no write is
\* refused as stale, whatever fails, is rejected or crashes.
THEOREM SoleHandleCurrent == Spec => []SoleHandleNeverStale
  <1>1. Alone => SoleHandleNeverStale
    BY DEF Alone, SoleHandleNeverStale
  <1>2. QED
    BY <1>1, AloneInit, AloneNext, PTL DEF Spec

-----------------------------------------------------------------------------
\* A handle that fell behind the log never catches up and never writes again:
\* it has to be closed.
THEOREM StaleForever == Spec => StaleStaysStale
  <1>1. ASSUME Typed, [Next]_vars, NEW h \in Handles, mode[h] \in {"open", "writing"},
               ~SeqMatches(h), mode'[h] # "closed"
        PROVE  view'[h] = view[h]
    <2>1. ASSUME NEW g \in Handles, NEW s, NEW bodies, BeginOpen(g, s, bodies)
          PROVE  view'[h] = view[h]
      BY <2>1, <1>1 DEF BeginOpen, Typed
    <2>2. ASSUME NEW g \in Handles, Start(g) \/ Open(g)
          PROVE  view'[h] = view[h]
      BY <2>2, <2>1 DEF Start, Open
    <2>3. ASSUME NEW g \in Handles, Commit(g)
          PROVE  view'[h] = view[h]
      <3>1. CASE g = h
        <4>1. done[h] = <<>>
          BY <3>1, <2>3, <1>1 DEF Commit
        <4>2. QED
          BY <4>1, <3>1, <2>3, <1>1 DEF Commit, Tip, Typed
      <3>2. CASE g # h
        BY <3>2, <2>3, <1>1 DEF Commit, Typed
      <3>3. QED
        BY <3>1, <3>2
    <2>4. ASSUME NEW g \in Handles,
                 \/ \E b \in Batches : Submit(g, b)
                 \/ Take(g) \/ Fold(g) \/ Reject(g) \/ Stale(g) \/ Fault(g)
          PROVE  view'[h] = view[h]
      BY <2>4 DEF Submit, Take, Fold, Reject, Stale, Fault, CommitFails
    <2>5. ASSUME NEW P \in Processes, Crash(P)
          PROVE  view'[h] = view[h]
      BY <2>5, <1>1 DEF Crash
    <2>6. CASE UNCHANGED vars
      BY <2>6 DEF vars
    <2>7. QED
      BY <1>1, <2>2, <2>3, <2>4, <2>5, <2>6 DEF Next
  <1>2. Typed /\ [Next]_vars =>
          [\A h \in Handles :
             /\ mode[h] \in {"open", "writing"} /\ ~SeqMatches(h)
             /\ mode'[h] # "closed"
             => view'[h] = view[h]]_vars
    BY <1>1
  <1>3. QED
    BY <1>2, TypedInit, TypedNext, PTL DEF Spec, StaleStaysStale

-----------------------------------------------------------------------------
\* What a commit is made of: rows the engine asked for, which raise no recovery gate of a
\* step, or an opener's.
Unreserved(b) ==
  \A i \in 1..Len(b) : b[i].type = "gate.raised" => b[i].gate.name # "interrupted-step"

\* An opener commits run.created to an empty run, or the rows of recover, in order.
Starts(h) ==
  /\ view[h] = NullRun
  /\ \/ done[h] = <<>> /\ todo[h] = <<RunCreated>>
     \/ done[h] = <<RunCreated>> /\ todo[h] = <<>>
Recovers(h) ==
  /\ Len(done[h]) + Len(todo[h]) = Len(Recover(view[h]))
  /\ \A i \in 1..Len(todo[h]) : todo[h][i] = Recover(view[h])[Len(done[h]) + i]
  /\ IsRecovered(Tip(h), view[h], Len(done[h]))

\* Every state that is stored, believed or being folded has old recovery gates only.
GatesPast ==
  /\ \A i \in 1..Len(trail) : StepGatesPast(trail[i])
  /\ \A h \in Handles : StepGatesPast(view[h])
  /\ \A h \in Handles : \A i \in 1..Len(path[h]) : StepGatesPast(path[h][i])

Recovering ==
  /\ Sound
  /\ GatesPast
  /\ \A h \in Handles : \A i \in 1..Len(queue[h]) : Unreserved(queue[h][i])
  /\ \A h \in Handles : mode[h] # "opening" => Unreserved(todo[h])
  /\ \A h \in Handles : mode[h] = "opening" => Starts(h) \/ Recovers(h)

\* The next row of an opener is legal, raises no recovery gate for a time to come, and
\* leads to where the one after it is expected.
LEMMA OpenerGoesOn ==
  ASSUME Recovering, NEW h \in Handles, mode[h] = "opening", todo[h] # <<>>
  PROVE  LET e == Head(todo[h])
         IN  /\ Legal(Tip(h), e)
             /\ e.type = "gate.raised" /\ e.gate.name = "interrupted-step" =>
                  e.gate.at <= view[h].lastSeq
             /\ Starts(h) => Tip(h) = NullRun /\ e = RunCreated
             /\ Recovers(h) => IsRecovered(Reduce(Tip(h), e), view[h], Len(done[h]) + 1)
  <1> DEFINE e == Head(todo[h])
  <1>1. /\ todo[h] \in Seq(EventBodies) /\ done[h] \in Seq(EventBodies)
        /\ IsRunState(view[h]) /\ RunInv(view[h]) /\ StepGatesPast(view[h])
        /\ Starts(h) \/ Recovers(h)
    BY RunStatesOK DEF Recovering, Sound, History, Typed, GatesPast
  <1>2. /\ Len(todo[h]) \in Nat \ {0} /\ e = todo[h][1] /\ Len(done[h]) \in Nat
        /\ 1 \in 1..Len(todo[h])
    BY <1>1, EmptySeq, LenProperties
  <1>3. ASSUME Starts(h)
        PROVE  Tip(h) = NullRun /\ e = RunCreated /\ Legal(Tip(h), e) /\ e.type = "run.created"
    <2>1. done[h] = <<>> /\ todo[h] = <<RunCreated>> /\ view[h] = NullRun
      BY <1>3 DEF Starts
    <2>2. QED
      BY <2>1 DEF Tip, RunCreated, NullRun, Legal
  <1>4. ASSUME Recovers(h)
        PROVE  /\ Legal(Tip(h), e)
               /\ IsRecovered(Reduce(Tip(h), e), view[h], Len(done[h]) + 1)
               /\ e.type = "gate.raised" /\ e.gate.name = "interrupted-step" =>
                    e.gate.at = view[h].lastSeq
    <2> DEFINE s == view[h]
               i == Len(done[h]) + 1
    <2>0. /\ Len(done[h]) + Len(todo[h]) = Len(Recover(s))
          /\ todo[h][1] = Recover(s)[i] /\ IsRecovered(Tip(h), s, Len(done[h]))
      BY <1>2, <1>4 DEF Recovers
    <2>1. /\ i \in 1..Len(Recover(s)) /\ i - 1 = Len(done[h]) /\ e = Recover(s)[i]
          /\ IsRecovered(Tip(h), s, i - 1)
      <3>1. i - 1 = Len(done[h])
        BY <1>2
      <3>a. \A d \in Nat, t \in Nat \ {0} : d + 1 \in 1..(d + t)
        OBVIOUS
      <3>2. i \in 1..Len(Recover(s))
        BY <3>a, <1>2, <2>0
      <3>3. QED
        BY <1>2, <2>0, <3>1, <3>2
    <2>2. Recoverable(s)
      BY <1>1 DEF Recoverable
    <2> HIDE DEF s, i
    <2>3. Legal(Tip(h), e) /\ IsRecovered(Reduce(Tip(h), e), s, i)
      BY <2>1, <2>2, RecoveryGoesOn
    <2>4. /\ \A a : AttemptFinished(a, "interrupted").type # "gate.raised"
          /\ \A a, st : LET g == GateRaised(InterruptedGate(a), st, "interrupted-attempt",
                                            RecoveryCommands)
                        IN  g.gate.name # "interrupted-step"
          /\ \A st, n : LET g == GateRaised(InterruptedStepGate(st, n), st,
                                            "interrupted-step", RecoveryCommands)
                        IN  g.gate.at = n
      BY DEF AttemptFinished, GateRaised, InterruptedGate, InterruptedStepGate
    <2>5. e.type = "gate.raised" /\ e.gate.name = "interrupted-step" => e.gate.at = s.lastSeq
      <3>1. IsRunState(s)
        BY <2>2 DEF Recoverable
      <3>2. QED
        BY SMTT(30), <2>1, <2>4, <3>1, RecoverRows
    <2>6. QED
      BY <2>3, <2>5 DEF s, i
  <1>5. view[h].lastSeq \in Nat
    BY <1>1 DEF IsRunState
  <1>6. QED
    BY <1>1, <1>3, <1>4, <1>5

LEMMA RecoveringInit == Init => Recovering
  <1> SUFFICES ASSUME Init PROVE Recovering
    OBVIOUS
  <1>1. Sound
    BY SoundInit
  <1>2. StepGatesPast(NullRun)
    BY DEF StepGatesPast, NullRun, EmptyMap
  <1>3. /\ Len(trail) = 0 /\ \A h \in Handles : Len(path[h]) = 0 /\ view[h] = NullRun
        /\ \A h \in Handles : Len(queue[h]) = 0 /\ Len(todo[h]) = 0 /\ mode[h] = "closed"
    BY DEF Init
  <1>4. QED
    BY <1>1, <1>2, <1>3 DEF Recovering, GatesPast, Unreserved

LEMMA TipPast ==
  ASSUME Recovering, NEW h \in Handles
  PROVE  StepGatesPast(Tip(h))
  <1>0. path[h] \in Seq(RunStates) /\ Len(path[h]) = Len(done[h]) /\ done[h] \in Seq(EventBodies)
    BY DEF Recovering, Sound, History, Typed
  <1>1. CASE done[h] = <<>>
    BY <1>1 DEF Tip, Recovering, GatesPast
  <1>2. CASE done[h] # <<>>
    <2>1. Len(path[h]) \in 1..Len(path[h])
      BY <1>0, <1>2, LenProperties, EmptySeq
    <2>2. QED
      BY <2>1, <1>2 DEF Tip, Recovering, GatesPast
  <1>3. QED
    BY <1>1, <1>2

\* A handle that something else happens to keeps what it is committing.
LEMMA OthersRecover ==
  ASSUME Recovering, NEW g \in Handles, mode'[g] = mode[g],
         UNCHANGED <<view[g], todo[g], done[g], path[g]>>
  PROVE  /\ mode'[g] # "opening" => Unreserved(todo'[g])
         /\ mode'[g] = "opening" => Starts(g)' \/ Recovers(g)'
  <1>1. mode[g] # "opening" => Unreserved(todo'[g])
    BY DEF Recovering
  <1>2. Tip(g)' = Tip(g)
    BY DEF Tip
  <1>3. ASSUME mode[g] = "opening"
        PROVE  Starts(g)' \/ Recovers(g)'
    BY <1>2, <1>3 DEF Recovering, Starts, Recovers
  <1>4. QED
    BY <1>1, <1>3

LEMMA RecoveringNext == Recovering /\ [Next]_vars => Recovering'
  <1> SUFFICES ASSUME Recovering, [Next]_vars
               PROVE  Recovering'
    OBVIOUS
  <1>s. Sound /\ Sound'
    BY SoundNext DEF Recovering
  <1>t. Typed /\ Typed' /\ History
    BY <1>s DEF Sound, History
  <1>0. StepGatesPast(NullRun) /\ Len(<<>>) = 0 /\ Unreserved(<<>>)
    BY DEF StepGatesPast, NullRun, EmptyMap, Unreserved
  <1>a. ASSUME NEW h \in Handles, NEW s, NEW bodies, BeginOpen(h, s, bodies),
               StepGatesPast(s), Starts(h)' \/ Recovers(h)'
        PROVE  Recovering'
    <2>1. /\ view' = [view EXCEPT ![h] = s] /\ todo' = [todo EXCEPT ![h] = bodies]
          /\ mode' = [mode EXCEPT ![h] = "opening"]
          /\ UNCHANGED <<log, trail, done, path, queue>>
      BY <1>a DEF BeginOpen
    <2>2. GatesPast'
      BY <2>1, <1>a, <1>t DEF Recovering, GatesPast, Typed
    <2>3. ASSUME NEW g \in Handles
          PROVE  /\ mode'[g] # "opening" => Unreserved(todo'[g])
                 /\ mode'[g] = "opening" => Starts(g)' \/ Recovers(g)'
      <3>1. CASE g = h
        BY <3>1, <2>1, <1>a, <1>t DEF Typed
      <3>2. CASE g # h
        BY <3>2, <2>1, <1>t, OthersRecover DEF Typed
      <3>3. QED
        BY <3>1, <3>2
    <2>4. QED
      BY <1>s, <2>1, <2>2, <2>3 DEF Recovering
  <1>b. ASSUME NEW h \in Handles, CommitFails(h)
        PROVE  Recovering'
    <2>1. /\ mode' = [mode EXCEPT ![h] = IF mode[h] = "opening" THEN "closed" ELSE "open"]
          /\ todo' = [todo EXCEPT ![h] = <<>>] /\ done' = [done EXCEPT ![h] = <<>>]
          /\ path' = [path EXCEPT ![h] = <<>>] /\ UNCHANGED <<trail, view, queue>>
      BY <1>b DEF CommitFails
    <2>2. GatesPast'
      BY <2>1, <1>0, <1>t DEF Recovering, GatesPast, Typed
    <2>3. ASSUME NEW g \in Handles
          PROVE  /\ mode'[g] # "opening" => Unreserved(todo'[g])
                 /\ mode'[g] = "opening" => Starts(g)' \/ Recovers(g)'
      <3>1. CASE g = h
        BY <3>1, <2>1, <1>0, <1>t DEF Typed
      <3>2. CASE g # h
        BY <3>2, <2>1, <1>t, OthersRecover DEF Typed
      <3>3. QED
        BY <3>1, <3>2
    <2>4. QED
      BY <1>s, <2>1, <2>2, <2>3 DEF Recovering
  <1>1. ASSUME NEW h \in Handles, Start(h)
        PROVE  Recovering'
    <2>1. Starts(h)'
      <3>1. done[h] = <<>>
        BY <1>1, <1>t DEF Start, BeginOpen, History, IdleIsEmpty, Committing
      <3>2. QED
        BY <3>1, <1>1, <1>t DEF Start, BeginOpen, Starts, Typed
    <2>2. QED
      BY <2>1, <1>1, <1>0, <1>a DEF Start
  <1>2. ASSUME NEW h \in Handles, Open(h)
        PROVE  Recovering'
    <2> DEFINE s == StateAt(Len(log))
    <2>0. Len(log) \in 1..Len(trail)
      BY <1>2, <1>t, LenProperties DEF Open, Typed
    <2>1. StepGatesPast(s) /\ IsRunState(s)
      BY <2>0, <1>t, RunStatesOK, ElementOfSeq DEF StateAt, Recovering, GatesPast, Typed
    <2> HIDE DEF s
    <2>2. BeginOpen(h, s, Recover(s))
      BY <1>2 DEF Open, s
    <2>3. /\ view'[h] = s /\ todo'[h] = Recover(s) /\ done'[h] = <<>> /\ path'[h] = path[h]
      <3>1. done[h] = <<>>
        BY <1>t, <2>2 DEF BeginOpen, History, IdleIsEmpty, Committing
      <3>2. QED
        BY <3>1, <2>2, <1>t DEF BeginOpen, Typed
    <2>4. Tip(h)' = s
      BY <2>3 DEF Tip
    <2>5. /\ Recover(s) \in Seq(EventBodies) /\ IsRecovered(s, s, 0)
      BY <2>1, RecoverTyped, NothingRecovered
    <2>6. Recovers(h)'
      <3>1. /\ Len(<<>>) = 0 /\ 0 + Len(Recover(s)) = Len(Recover(s))
            /\ \A i \in 1..Len(Recover(s)) : 0 + i = i
        BY <2>5, LenProperties
      <3>2. QED
        BY <3>1, <2>3, <2>4, <2>5 DEF Recovers
    <2>7. QED
      BY <2>1, <2>2, <2>6, <1>a
  <1>3. ASSUME NEW h \in Handles, NEW b \in Batches, Submit(h, b)
        PROVE  Recovering'
    <2>1. queue' = [queue EXCEPT ![h] = Append(queue[h], b)]
          /\ UNCHANGED <<trail, mode, view, todo, done, path>>
      BY <1>3 DEF Submit
    <2>2. GatesPast'
      BY <2>1 DEF Recovering, GatesPast
    <2>3. \A g \in Handles : /\ mode'[g] # "opening" => Unreserved(todo'[g])
                             /\ mode'[g] = "opening" => Starts(g)' \/ Recovers(g)'
      BY <2>1, OthersRecover
    <2>4. Unreserved(b)
      BY ReservedAssumption DEF Unreserved
    <2>5. ASSUME NEW g \in Handles, NEW i \in 1..Len(queue'[g])
          PROVE  Unreserved(queue'[g][i])
      <3>0. queue[h] \in Seq(Seq(EventBodies)) /\ b \in Seq(EventBodies)
        BY <1>t, RunLogAssumption DEF Typed
      <3>1. CASE g = h
        <4>1. queue'[g] = Append(queue[h], b)
          BY <3>1, <2>1, <1>t DEF Typed
        <4>2. CASE i \in 1..Len(queue[h])
          <5>1. queue'[g][i] = queue[h][i]
            BY <4>1, <4>2, <3>0, AppendProperties
          <5>2. QED
            BY <5>1, <4>2 DEF Recovering
        <4>3. CASE i = Len(queue[h]) + 1
          BY <4>1, <4>3, <3>0, <2>4, AppendProperties
        <4>4. Len(queue'[g]) = Len(queue[h]) + 1 /\ Len(queue[h]) \in Nat
          BY <4>1, <3>0, AppendProperties, LenProperties
        <4>5. QED
          BY <4>2, <4>3, <4>4, <2>5
      <3>2. CASE g # h
        BY <3>2, <2>1, <2>5, <1>t DEF Recovering, Typed
      <3>3. QED
        BY <3>1, <3>2
    <2>6. QED
      BY <1>s, <2>2, <2>3, <2>5 DEF Recovering
  <1>4. ASSUME NEW h \in Handles, Take(h)
        PROVE  Recovering'
    <2>1. /\ mode' = [mode EXCEPT ![h] = "writing"]
          /\ todo' = [todo EXCEPT ![h] = Head(queue[h])]
          /\ queue' = [queue EXCEPT ![h] = Tail(queue[h])]
          /\ UNCHANGED <<trail, view, done, path>> /\ queue[h] # <<>>
      BY <1>4 DEF Take
    <2>2. GatesPast'
      BY <2>1 DEF Recovering, GatesPast
    <2>3. /\ queue[h] \in Seq(Seq(EventBodies)) /\ Len(queue[h]) \in Nat \ {0}
          /\ Head(queue[h]) = queue[h][1] /\ 1 \in 1..Len(queue[h])
          /\ Len(Tail(queue[h])) = Len(queue[h]) - 1
          /\ \A i \in 1..Len(Tail(queue[h])) :
               Tail(queue[h])[i] = queue[h][i + 1] /\ i + 1 \in 1..Len(queue[h])
      BY <2>1, <1>t, EmptySeq, LenProperties DEF Typed
    <2>4. /\ Unreserved(Head(queue[h]))
          /\ \A i \in 1..Len(Tail(queue[h])) : Unreserved(Tail(queue[h])[i])
      BY <2>3 DEF Recovering
    <2>5. ASSUME NEW g \in Handles
          PROVE  /\ mode'[g] # "opening" => Unreserved(todo'[g])
                 /\ mode'[g] = "opening" => Starts(g)' \/ Recovers(g)'
                 /\ \A i \in 1..Len(queue'[g]) : Unreserved(queue'[g][i])
      <3>1. CASE g = h
        BY <3>1, <2>1, <2>4, <1>t DEF Typed
      <3>2. CASE g # h
        <4>1. /\ mode'[g] = mode[g] /\ queue'[g] = queue[g]
              /\ UNCHANGED <<view[g], todo[g], done[g], path[g]>>
          BY <3>2, <2>1, <1>t DEF Typed
        <4>2. QED
          BY <4>1, OthersRecover DEF Recovering
      <3>3. QED
        BY <3>1, <3>2
    <2>6. QED
      BY <1>s, <2>2, <2>5 DEF Recovering
  <1>5. ASSUME NEW h \in Handles, Fold(h)
        PROVE  Recovering'
    <2> DEFINE e == Head(todo[h])
               t == Reduce(Tip(h), e)
    <2>1. /\ Committing(h) /\ todo[h] # <<>> /\ Legal(Tip(h), e)
          /\ path' = [path EXCEPT ![h] = Append(path[h], t)]
          /\ done' = [done EXCEPT ![h] = Append(done[h], e)]
          /\ todo' = [todo EXCEPT ![h] = Tail(todo[h])]
          /\ UNCHANGED <<trail, mode, view, queue>>
      BY <1>5 DEF Fold
    <2>2. /\ todo[h] \in Seq(EventBodies) /\ done[h] \in Seq(EventBodies) /\ e = todo[h][1]
          /\ e \in EventBodies /\ Len(todo[h]) \in Nat \ {0} /\ Len(done[h]) \in Nat
          /\ Len(Tail(todo[h])) = Len(todo[h]) - 1 /\ Tail(todo[h]) \in Seq(EventBodies)
          /\ \A i \in 1..Len(Tail(todo[h])) :
               Tail(todo[h])[i] = todo[h][i + 1] /\ i + 1 \in 1..Len(todo[h])
          /\ 1 \in 1..Len(todo[h])
      BY <2>1, <1>t, EmptySeq, LenProperties DEF Typed
    <2>3. /\ IsRunState(Tip(h)) /\ StepGatesPast(Tip(h)) /\ view[h].lastSeq \in Nat
          /\ Tip(h).lastSeq = view[h].lastSeq + Len(done[h])
      <3>1. Tip(h) \in RunStates /\ view[h] \in RunStates
        BY <1>t, TipTyped DEF Typed
      <3>2. IsRunState(Tip(h)) /\ IsRunState(view[h])
        BY <3>1, RunStatesOK
      <3>3. view[h].lastSeq \in Nat
        BY <3>2 DEF IsRunState
      <3>4. QED
        BY <3>2, <3>3, <1>t, TipPast, TipSeq
    <2>4. e.type = "gate.raised" /\ e.gate.name = "interrupted-step" =>
            e.gate.at <= Tip(h).lastSeq
      <3>1. CASE mode[h] = "opening"
        <4>1. e.type = "gate.raised" /\ e.gate.name = "interrupted-step" =>
                e.gate.at <= view[h].lastSeq /\ e.gate.at \in Nat
          BY <3>1, <2>1, <2>2, OpenerGoesOn, EventFields DEF GateIds
        <4>2. \A x, y, z \in Nat : x <= y => x <= y + z
          OBVIOUS
        <4>3. QED
          BY <4>1, <4>2, <2>2, <2>3
      <3>2. CASE mode[h] # "opening"
        BY <3>2, <2>2 DEF Recovering, Unreserved
      <3>3. QED
        BY <3>1, <3>2
    <2> HIDE DEF e
    <2>5. StepGatesPast(t)
      BY <2>1, <2>2, <2>3, <2>4, StepGatesKept
    <2>6. /\ path[h] \in Seq(RunStates) /\ t \in RunStates /\ Len(path[h]) = Len(done[h])
      <3>1. IsRunState(t)
        BY <2>1, <2>2, <2>3, ReduceTyped
      <3>2. QED
        BY <3>1, <1>t, RunStatesOK DEF Typed
    <2> DEFINE s == view[h]
    <2>9. Recovers(h) /\ mode[h] = "opening" => IsRecovered(t, s, Len(done[h]) + 1)
      BY <2>1, OpenerGoesOn DEF e
    <2>10. Starts(h) /\ mode[h] = "opening" =>
             s = NullRun /\ e = RunCreated /\ done[h] = <<>> /\ Tail(todo[h]) = <<>>
      BY <2>1, <2>2, OpenerGoesOn, EmptySeq DEF e, Starts
    <2> HIDE DEF t
    <2>7. /\ path'[h] = Append(path[h], t) /\ Len(path'[h]) = Len(path[h]) + 1
          /\ \A i \in 1..Len(path[h]) : path'[h][i] = path[h][i]
          /\ path'[h][Len(path[h]) + 1] = t
          /\ done'[h] = Append(done[h], e) /\ done'[h] # <<>>
          /\ Len(done'[h]) = Len(done[h]) + 1
          /\ todo'[h] = Tail(todo[h])
      <3>1. /\ path'[h] = Append(path[h], t) /\ done'[h] = Append(done[h], e)
            /\ todo'[h] = Tail(todo[h])
        BY <2>1, <1>t DEF Typed
      <3>2. /\ Len(Append(path[h], t)) = Len(path[h]) + 1
            /\ \A i \in 1..Len(path[h]) : Append(path[h], t)[i] = path[h][i]
            /\ Append(path[h], t)[Len(path[h]) + 1] = t
        BY <2>6, AppendProperties
      <3>3. Append(done[h], e) # <<>> /\ Len(Append(done[h], e)) = Len(done[h]) + 1
        BY <2>2, AppendProperties
      <3>4. QED
        BY <3>1, <3>2, <3>3
    <2>8. Tip(h)' = t
      BY <2>7 DEF Tip
    <2>11. GatesPast'
      <3>1. ASSUME NEW g \in Handles, NEW i \in 1..Len(path'[g])
            PROVE  StepGatesPast(path'[g][i])
        <4>1. CASE g = h
          <5>1. Len(path[h]) \in Nat /\ (i \in 1..Len(path[h]) \/ i = Len(path[h]) + 1)
            BY <4>1, <3>1, <2>6, <2>7, LenProperties
          <5>2. QED
            BY <4>1, <5>1, <2>5, <2>7 DEF Recovering, GatesPast
        <4>2. CASE g # h
          BY <4>2, <3>1, <2>1, <1>t DEF Recovering, GatesPast, Typed
        <4>3. QED
          BY <4>1, <4>2
      <3>2. QED
        BY <3>1, <2>1 DEF Recovering, GatesPast
    <2>12. ASSUME mode[h] = "opening"
           PROVE  Starts(h)' \/ Recovers(h)'
      <3>1. CASE Starts(h)
        <4>0. s = NullRun /\ e = RunCreated /\ done[h] = <<>> /\ Tail(todo[h]) = <<>>
          BY <3>1, <2>10, <2>12
        <4>a. Append(<<>>, RunCreated) = <<RunCreated>>
          OBVIOUS
        <4>1. view'[h] = NullRun /\ todo'[h] = <<>> /\ done'[h] = <<RunCreated>>
          BY <4>0, <4>a, <2>1, <2>7
        <4>2. QED
          BY <4>1 DEF Starts
      <3>2. CASE Recovers(h)
        <4>1. Len(done'[h]) + Len(todo'[h]) = Len(Recover(s))
          <5>1. Len(done[h]) + Len(todo[h]) = Len(Recover(s))
            BY <3>2 DEF Recovers
          <5>2. \A x \in Nat, y \in Nat \ {0} : (x + 1) + (y - 1) = x + y
            OBVIOUS
          <5>3. QED
            BY ZenonT(60), <5>1, <5>2, <2>2, <2>7
        <4>2. ASSUME NEW i \in 1..Len(todo'[h])
              PROVE  todo'[h][i] = Recover(s)[Len(done'[h]) + i]
          <5>1. todo'[h][i] = todo[h][i + 1] /\ i + 1 \in 1..Len(todo[h])
            BY <4>2, <2>2, <2>7
          <5>2. todo[h][i + 1] = Recover(s)[Len(done[h]) + (i + 1)]
            BY <5>1, <3>2 DEF Recovers
          <5>a. \A x, y \in Nat : x + (y + 1) = (x + 1) + y
            OBVIOUS
          <5>b. i \in Nat
            OBVIOUS
          <5>3. Len(done[h]) + (i + 1) = Len(done'[h]) + i
            BY ZenonT(60), <5>a, <5>b, <2>2, <2>7
          <5>4. QED
            BY <5>1, <5>2, <5>3
        <4>3. IsRecovered(Tip(h)', s, Len(done'[h]))
          BY <3>2, <2>7, <2>8, <2>9, <2>12
        <4>4. view'[h] = s
          BY <2>1
        <4>5. QED
          BY <4>1, <4>2, <4>3, <4>4 DEF Recovers
      <3>3. QED
        BY <3>1, <3>2, <2>12 DEF Recovering
    <2>13. ASSUME NEW g \in Handles
           PROVE  /\ mode'[g] # "opening" => Unreserved(todo'[g])
                  /\ mode'[g] = "opening" => Starts(g)' \/ Recovers(g)'
      <3>1. CASE g = h
        <4>1. mode[h] # "opening" => Unreserved(Tail(todo[h]))
          BY <2>2 DEF Recovering, Unreserved
        <4>2. QED
          BY <3>1, <4>1, <2>1, <2>7, <2>12
      <3>2. CASE g # h
        BY <3>2, <2>1, <1>t, OthersRecover DEF Typed
      <3>3. QED
        BY <3>1, <3>2
    <2>14. QED
      BY <1>s, <2>1, <2>11, <2>13 DEF Recovering
  <1>6. ASSUME NEW h \in Handles, Commit(h)
        PROVE  Recovering'
    <2>1. /\ trail' = trail \o path[h] /\ view' = [view EXCEPT ![h] = Tip(h)]
          /\ mode' = [mode EXCEPT ![h] = "open"] /\ done' = [done EXCEPT ![h] = <<>>]
          /\ path' = [path EXCEPT ![h] = <<>>] /\ UNCHANGED <<todo, queue>>
          /\ todo[h] = <<>>
      BY <1>6 DEF Commit
    <2>2. StepGatesPast(Tip(h))
      BY TipPast
    <2>3. ASSUME NEW i \in 1..Len(trail')
          PROVE  StepGatesPast(trail'[i])
      <3>1. trail \in Seq(RunStates) /\ path[h] \in Seq(RunStates)
        BY <1>t DEF Typed
      <3>2. /\ Len(trail') = Len(trail) + Len(path[h])
            /\ Len(trail) \in Nat /\ Len(path[h]) \in Nat
            /\ i <= Len(trail) => trail'[i] = trail[i]
            /\ i > Len(trail) => trail'[i] = path[h][i - Len(trail)]
        BY <2>1, <3>1
      <3>3. CASE i <= Len(trail)
        <4>1. i \in 1..Len(trail)
          BY <3>2, <3>3
        <4>2. QED
          BY <4>1, <3>2, <3>3 DEF Recovering, GatesPast
      <3>4. CASE i > Len(trail)
        <4>1. i - Len(trail) \in 1..Len(path[h])
          BY <3>2, <3>4
        <4>2. QED
          BY <4>1, <3>2, <3>4 DEF Recovering, GatesPast
      <3>5. QED
        BY <3>2, <3>3, <3>4
    <2>4. GatesPast'
      <3>1. ASSUME NEW g \in Handles
            PROVE  /\ StepGatesPast(view'[g])
                   /\ \A i \in 1..Len(path'[g]) : StepGatesPast(path'[g][i])
        <4>1. DOMAIN view = Handles /\ DOMAIN path = Handles
          BY <1>t DEF Typed
        <4>2. CASE g = h
          BY <2>1, <2>2, <4>1, <4>2
        <4>3. CASE g # h
          BY <2>1, <4>1, <4>3 DEF Recovering, GatesPast
        <4> QED BY <4>2, <4>3
      <3> QED BY <2>3, <3>1 DEF GatesPast
    <2>5. ASSUME NEW g \in Handles
          PROVE  /\ mode'[g] # "opening" => Unreserved(todo'[g])
                 /\ mode'[g] = "opening" => Starts(g)' \/ Recovers(g)'
      <3>1. CASE g = h
        BY <3>1, <2>1, <1>0, <1>t DEF Typed
      <3>2. CASE g # h
        BY <3>2, <2>1, <1>t, OthersRecover DEF Typed
      <3>3. QED
        BY <3>1, <3>2
    <2>6. QED
      BY <1>s, <2>1, <2>4, <2>5 DEF Recovering
  <1>7. ASSUME NEW h \in Handles, Reject(h) \/ Stale(h) \/ Fault(h)
        PROVE  Recovering'
    BY <1>7, <1>b DEF Reject, Stale, Fault
  <1>8. ASSUME NEW P \in Processes, Crash(P)
        PROVE  Recovering'
    <2>1. /\ mode' = [h \in Handles |-> IF h \in P THEN "closed" ELSE mode[h]]
          /\ view' = [h \in Handles |-> IF h \in P THEN NullRun ELSE view[h]]
          /\ todo' = [h \in Handles |-> IF h \in P THEN <<>> ELSE todo[h]]
          /\ done' = [h \in Handles |-> IF h \in P THEN <<>> ELSE done[h]]
          /\ path' = [h \in Handles |-> IF h \in P THEN <<>> ELSE path[h]]
          /\ queue' = [h \in Handles |-> IF h \in P THEN <<>> ELSE queue[h]]
          /\ UNCHANGED trail
      BY <1>8 DEF Crash
    <2>2. GatesPast'
      BY <2>1, <1>0 DEF Recovering, GatesPast
    <2>3. ASSUME NEW g \in Handles
          PROVE  /\ mode'[g] # "opening" => Unreserved(todo'[g])
                 /\ mode'[g] = "opening" => Starts(g)' \/ Recovers(g)'
                 /\ \A i \in 1..Len(queue'[g]) : Unreserved(queue'[g][i])
      <3>1. CASE g \in P
        BY <3>1, <2>1, <1>0
      <3>2. CASE g \notin P
        <4>1. /\ mode'[g] = mode[g] /\ queue'[g] = queue[g]
              /\ UNCHANGED <<view[g], todo[g], done[g], path[g]>>
          BY <3>2, <2>1
        <4>2. QED
          BY <4>1, OthersRecover DEF Recovering
      <3>3. QED
        BY <3>1, <3>2
    <2>4. QED
      BY <1>s, <2>2, <2>3 DEF Recovering
  <1>9. CASE UNCHANGED vars
    <2>1. UNCHANGED <<trail, mode, view, todo, done, path, queue>>
      BY <1>9 DEF vars
    <2>2. GatesPast'
      BY <2>1 DEF Recovering, GatesPast
    <2>3. \A g \in Handles : /\ mode'[g] # "opening" => Unreserved(todo'[g])
                             /\ mode'[g] = "opening" => Starts(g)' \/ Recovers(g)'
      BY <2>1, OthersRecover
    <2>4. QED
      BY <1>s, <2>1, <2>2, <2>3 DEF Recovering
  <1>10. QED
    BY <1>1, <1>2, <1>3, <1>4, <1>5, <1>6, <1>7, <1>8, <1>9 DEF Next

\* The reducer never refuses a row of a recovery (run.ts, recover and openRun), whatever a
\* crash left in the log and whoever else wrote to it since it was read.
THEOREM RecoveryAccepted == Spec => []RecoveryLegal
  <1>1. Recovering => RecoveryLegal
    BY OpenerGoesOn DEF RecoveryLegal
  <1>2. QED
    BY <1>1, RecoveringInit, RecoveringNext, PTL DEF Spec

\* What openRun hands out has nothing running without a gate, and a second recovery of
\* it would write nothing (run.ts, recover).
THEOREM RecoveryOnce == Spec => RecoverySettles
  <1>1. ASSUME Recovering, [Next]_vars, NEW h \in Handles, mode[h] = "opening", mode'[h] = "open"
        PROVE  /\ RunningAttempts(view'[h]) = {}
               /\ \A st \in DOMAIN view'[h].steps :
                    RunningStep(view'[h], st) => Gated(view'[h], st)
               /\ Recover(view'[h]) = <<>>
    <2>t. Typed /\ History /\ Sound
      BY <1>1 DEF Recovering, Sound, History
    <2>1. Commit(h)
      <3>1. ASSUME NEW g \in Handles, NEW s, NEW bodies, BeginOpen(g, s, bodies)
            PROVE  FALSE
        BY <3>1, <1>1, <2>t DEF BeginOpen, Typed
      <3>2. ASSUME NEW g \in Handles, CommitFails(g)
            PROVE  FALSE
        BY <3>2, <1>1, <2>t DEF CommitFails, Typed
      <3>3. ASSUME NEW g \in Handles, Commit(g)
            PROVE  g = h
        BY <3>3, <1>1, <2>t DEF Commit, Typed
      <3>4. \A g \in Handles : ~Start(g) /\ ~Open(g)
        BY <3>1 DEF Start, Open
      <3>5. \A g \in Handles : ~Reject(g) /\ ~Stale(g) /\ ~Fault(g)
        BY <3>2 DEF Reject, Stale, Fault
      <3>6. \A g \in Handles : ~Fold(g) /\ ~Take(g) /\ \A b \in Batches : ~Submit(g, b)
        BY <1>1, <2>t DEF Fold, Take, Submit, Typed
      <3>7. \A P \in Processes : ~Crash(P)
        BY <1>1 DEF Crash
      <3>8. ~UNCHANGED vars
        BY <1>1 DEF vars
      <3>9. QED
        BY <3>3, <3>4, <3>5, <3>6, <3>7, <3>8, <1>1 DEF Next
    <2>2. view'[h] = Tip(h) /\ todo[h] = <<>> /\ Len(todo[h]) = 0
      BY <2>1, <2>t DEF Commit, Typed
    <2>3. CASE Starts(h)
      <3>1. done[h] = <<RunCreated>> /\ view[h] = NullRun /\ Len(path[h]) = 1
        <4>1. Len(<<RunCreated>>) = 1 /\ Len(path[h]) = Len(done[h])
          BY <2>t DEF Typed
        <4>2. <<>> # <<RunCreated>>
          OBVIOUS
        <4>3. done[h] = <<RunCreated>> /\ view[h] = NullRun
          BY <4>2, <2>2, <2>3 DEF Starts
        <4>4. Len(done[h]) = 1
          BY <4>1, <4>3
        <4>5. QED
          BY <4>1, <4>3, <4>4
      <3>2. Tip(h) = Reduce(NullRun, RunCreated)
        <4>1. Tip(h) = path[h][1] /\ 1 \in 1..Len(done[h]) /\ done[h][1] = RunCreated
          BY <3>1 DEF Tip
        <4>2. path[h][1] = Reduce(view[h], RunCreated)
          BY <4>1, <2>t DEF History, PathsFold, Before
        <4>3. QED
          BY <3>1, <4>1, <4>2
      <3>3. Tip(h).steps = EmptyMap /\ Tip(h).attempts = EmptyMap /\ DOMAIN EmptyMap = {}
        BY <3>2 DEF Reduce, RunCreated, StepsAfter, AttemptsAfter, NullRun, EmptyMap
      <3>4. /\ IsRunState(NullRun) /\ RunInv(NullRun) /\ StepGatesPast(NullRun)
            /\ IsRunState(Tip(h))
        <4>1. IsRunState(Tip(h))
          BY <2>t, TipTyped, RunStatesOK
        <4>2. QED
          BY <4>1, NullRunOK DEF StepGatesPast, NullRun, EmptyMap
      <3>5. RunningAttempts(Tip(h)) = {} /\ IdleSteps(Tip(h)) = {}
        BY <3>3 DEF RunningAttempts, IdleSteps
      <3>6. Recover(Tip(h)) = <<>>
        BY <3>4, <3>5, NothingToRecover
      <3>7. QED
        BY <2>2, <3>3, <3>5, <3>6
    <2>4. CASE Recovers(h)
      <3>1. Len(done[h]) = Len(Recover(view[h])) /\ IsRecovered(Tip(h), view[h], Len(done[h]))
        <4>1. Len(done[h]) \in Nat
          BY <2>t, LenProperties DEF Typed
        <4>2. QED
          BY <4>1, <2>2, <2>4 DEF Recovers
      <3>2. Recoverable(view[h]) /\ IsRunState(Tip(h))
        <4>1. IsRunState(Tip(h)) /\ IsRunState(view[h])
          BY <2>t, TipTyped, RunStatesOK DEF Typed
        <4>2. QED
          BY <4>1, <1>1, <2>t DEF Recoverable, Sound, Recovering, GatesPast
      <3>3. QED
        BY <2>2, <3>1, <3>2, RecoveryEnds
    <2>5. QED
      BY <2>3, <2>4, <1>1 DEF Recovering
  <1>2. Recovering /\ [Next]_vars =>
          (\A h \in Handles :
             mode[h] = "opening" /\ mode'[h] = "open" =>
               /\ RunningAttempts(view'[h]) = {}
               /\ \A st \in DOMAIN view'[h].steps :
                    RunningStep(view'[h], st) => Gated(view'[h], st)
               /\ Recover(view'[h]) = <<>>)
    BY <1>1
  <1>3. QED
    BY <1>2, RecoveringInit, RecoveringNext, PTL DEF Spec, RecoverySettles
=============================================================================
