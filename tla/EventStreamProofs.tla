-------------------------- MODULE EventStreamProofs --------------------------
(***************************************************************************)
(* Proofs about module EventStream, for any number of rows, visits and     *)
(* faults: what a watcher shows of a run is true.                          *)
(***************************************************************************)
EXTENDS EventStream, SequenceTheorems, TLAPS

(***************************************************************************)
(* The rows: seen, under way in the response, and still to be read.        *)
(***************************************************************************)
\* The watcher has rows 1..k; the response carries the rows behind them, and the
\* handler reads on behind those.
Follows(k) ==
  /\ seen = Rows(k)
  /\ \A i \in 1..Len(net) : net[i] = k + i
  /\ k + Len(net) <= rows
  /\ handler \in {"asked", "poll", "read"} => cursor = k + Len(net) + 1

RowsInv ==
  /\ rows \in 1..MaxRows /\ history \in 1..rows \cup {None}
  /\ cursor \in 1..MaxRows + 1 /\ batch \in 0..MaxRows /\ net \in Seq(1..MaxRows)
  /\ handler \in {"none", "asked", "poll", "read"}
  /\ handler = "read" => batch <= rows /\ cursor <= batch + 1
  /\ \E k \in 0..rows : Follows(k)

\* The end of a gapless beginning is its length.
LEMMA CursorOfRows ==
  ASSUME NEW k \in 0..MaxRows
  PROVE  Cursor(Rows(k)) = k
<1>1. Rows(k) \subseteq Rows(k) /\ k + 1 \notin Rows(k)
  BY EventStreamAssumption DEF Rows
<1>2. ASSUME NEW n \in 0..MaxRows, Rows(n) \subseteq Rows(k), n + 1 \notin Rows(k)
      PROVE  n = k
  <2>1. n <= k
    <3>1. CASE n = 0
      BY <3>1, EventStreamAssumption
    <3>2. CASE n # 0
      <4>1. n \in Rows(n)
        BY <3>2, EventStreamAssumption DEF Rows
      <4> QED BY <4>1, <1>2 DEF Rows
    <3> QED BY <3>1, <3>2
  <2>2. ~(n < k)
    BY <1>2, EventStreamAssumption DEF Rows
  <2> QED BY <2>1, <2>2, EventStreamAssumption
<1> QED BY <1>1, <1>2 DEF Cursor

\* What is known with the cached history is a gapless beginning again.
LEMMA RowsUnion ==
  ASSUME NEW j \in Nat, NEW k \in Nat
  PROVE  Rows(j) \cup Rows(k) = Rows(IF j <= k THEN k ELSE j)
BY DEF Rows

LEMMA MergedRows ==
  ASSUME RowsInv, NEW k \in 0..rows
  PROVE  \E j \in 0..rows : Rows(k) \cup Merged = Rows(j)
<1>0. rows \in 1..MaxRows /\ MaxRows \in Nat
  BY EventStreamAssumption DEF RowsInv
<1>1. CASE history = None
  BY <1>1 DEF Merged
<1>2. CASE history # None
  <2>1. history \in 1..rows
    BY <1>2 DEF RowsInv
  <2>2. Rows(k) \cup Merged = Rows(IF k <= history THEN history ELSE k)
    BY <2>1, <1>2, <1>0, RowsUnion DEF Merged
  <2> QED BY <2>1, <2>2, <1>0
<1> QED BY <1>1, <1>2

-----------------------------------------------------------------------------
(* What each kind of step does to the rows.                                *)

LEMMA NothingReceived ==
  ASSUME RowsInv, UNCHANGED <<rows, response, seen>>, history' \in {history, rows, None}
  PROVE  RowsInv'
<1>1. PICK k \in 0..rows : Follows(k)
  BY DEF RowsInv
<1>2. rows' = rows /\ Follows(k)'
  BY <1>1 DEF response, Follows
<1> QED BY <1>2, <1>1 DEF RowsInv, response, None

LEMMA ResponseCleared ==
  ASSUME RowsInv, NoResponse, UNCHANGED rows, history' \in {history, rows, None},
         NEW k \in 0..rows, seen' = Rows(k)
  PROVE  RowsInv'
<1>1. MaxRows \in Nat \ {0}
  BY EventStreamAssumption
<1>2. Follows(k)'
  BY <1>1 DEF NoResponse, Follows, RowsInv
<1> QED BY <1>1, <1>2, EmptySeq DEF RowsInv, NoResponse, None

LEMMA RequestMade ==
  ASSUME RowsInv, UNCHANGED rows, history' \in {history, rows, None},
         NEW k \in 0..rows, seen' = Rows(k), Request(k + 1)
  PROVE  RowsInv'
<1>1. MaxRows \in Nat \ {0}
  BY EventStreamAssumption
<1>2. Follows(k)'
  BY <1>1 DEF Request, Follows, RowsInv
<1> QED BY <1>1, <1>2, EmptySeq DEF RowsInv, Request, None

LEMMA EffectRuns ==
  ASSUME RowsInv, UNCHANGED rows, history' \in {history, rows, None},
         NEW status, NEW known, NEW k \in 0..rows, known = Rows(k), Effect(status, known)
  PROVE  RowsInv'
<1>1. seen' = Rows(k)
  BY DEF Effect
<1>2. k \in 0..MaxRows
  BY EventStreamAssumption DEF RowsInv
<1>3. CASE NoResponse
  BY <1>1, <1>3, ResponseCleared
<1>4. CASE Request(Cursor(known) + 1)
  <2>1. Cursor(known) = k
    BY <1>2, CursorOfRows
  <2> QED BY <1>1, <1>4, <2>1, RequestMade
<1> QED BY <1>3, <1>4 DEF Effect

\* Of a response that breaks off a beginning arrives.
LEMMA ResponseBroken ==
  ASSUME RowsInv, Broken, UNCHANGED <<rows, seen, history>>
  PROVE  RowsInv'
<1>1. PICK k \in 0..rows : Follows(k)
  BY DEF RowsInv
<1>2. PICK n \in 0..Len(net) : net' = SubSeq(net, 1, n)
  BY DEF Broken, WholeRows
<1>3. net \in Seq(1..MaxRows) /\ Len(net) \in Nat
  BY LenProperties DEF RowsInv
<1>4. \A i \in 1..n : net[i] \in 1..MaxRows
  <2> TAKE i \in 1..n
  <2>1. i \in 1..Len(net)
    BY <1>2, <1>3
  <2> QED BY <2>1, <1>3, ElementOfSeq
<1>5. /\ net' \in Seq(1..MaxRows) /\ Len(net') = n
      /\ \A i \in 1..n : net'[i] = net[i]
  BY <1>2, <1>3, <1>4, SubSeqProperties
<1>6. Follows(k)'
  BY <1>1, <1>2, <1>3, <1>5 DEF Follows, Broken, RowsInv
<1> QED BY <1>5, <1>6, EventStreamAssumption DEF RowsInv, Broken, None

LEMMA RowAppended ==
  ASSUME RowsInv, rows < MaxRows, rows' = rows + 1, UNCHANGED <<response, seen, history>>
  PROVE  RowsInv'
<1>1. PICK k \in 0..rows : Follows(k)
  BY DEF RowsInv
<1>2. net \in Seq(1..MaxRows) /\ Len(net) \in Nat
  BY LenProperties DEF RowsInv
<1>3. Follows(k)'
  BY <1>1, <1>2 DEF response, Follows, RowsInv
<1> QED BY <1>1, <1>3, EventStreamAssumption DEF RowsInv, response, None

\* The handler moves on without writing anything.
LEMMA HandlerMoves ==
  ASSUME RowsInv, UNCHANGED <<rows, seen, history, cursor, net>>,
         handler \in {"asked", "poll"},
         \/ handler' = "poll" /\ batch' = batch
         \/ handler' = "read" /\ batch' = rows
  PROVE  RowsInv'
<1>1. PICK k \in 0..rows : Follows(k)
  BY DEF RowsInv
<1>2. net \in Seq(1..MaxRows) /\ Len(net) \in Nat
  BY LenProperties DEF RowsInv
<1>3. Follows(k)' /\ cursor <= rows + 1
  BY <1>1, <1>2 DEF Follows, RowsInv
<1> QED BY <1>1, <1>3, EventStreamAssumption DEF RowsInv, None

\* What was read is what follows the rows under way.
LEMMA BatchWritten ==
  ASSUME RowsInv, UNCHANGED <<rows, seen, history>>,
         handler = "read", handler' \in {"none", "poll"},
         net' = net \o Batch, cursor' = batch + 1, batch' = 0
  PROVE  RowsInv'
<1>1. PICK k \in 0..rows : Follows(k)
  BY DEF RowsInv
<1>2. /\ net \in Seq(1..MaxRows) /\ Len(net) \in Nat /\ cursor = k + Len(net) + 1
      /\ cursor \in 1..MaxRows + 1 /\ batch \in 0..MaxRows /\ rows \in 1..MaxRows
      /\ batch <= rows /\ cursor <= batch + 1 /\ MaxRows \in Nat \ {0} /\ k \in Nat
  BY <1>1, LenProperties, EventStreamAssumption DEF Follows, RowsInv
<1> DEFINE more == batch + 1 - cursor
<1>3. more \in Nat /\ k + Len(net) + more = batch
  BY <1>2
<1>4. /\ Batch \in Seq(1..MaxRows) /\ Len(Batch) = more
      /\ \A i \in 1..more : Batch[i] = cursor + i - 1
  <2>1. \A i \in 1..more : cursor + i - 1 \in 1..MaxRows
    BY <1>2, <1>3
  <2>2. Batch = [i \in 1..more |-> cursor + i - 1]
    BY DEF Batch
  <2> HIDE DEF more
  <2>3. Batch \in [1..more -> 1..MaxRows]
    BY <2>1, <2>2
  <2> QED BY <2>2, <2>3, <1>3
<1>5. /\ net' \in Seq(1..MaxRows) /\ Len(net') = Len(net) + more
      /\ \A i \in 1..Len(net) + more :
           net'[i] = IF i <= Len(net) THEN net[i] ELSE Batch[i - Len(net)]
  BY <1>2, <1>4, ConcatProperties
<1>6. \A i \in 1..Len(net) + more : net'[i] = k + i
  <2> TAKE i \in 1..Len(net) + more
  <2>1. CASE i <= Len(net)
    BY <2>1, <1>1, <1>2, <1>3, <1>5 DEF Follows
  <2>2. CASE ~(i <= Len(net))
    <3>1. i - Len(net) \in 1..more
      BY <2>2, <1>2, <1>3
    <3>2. Batch[i - Len(net)] = cursor + (i - Len(net)) - 1
      BY <3>1, <1>4
    <3> QED BY <3>1, <3>2, <2>2, <1>2, <1>3, <1>5
  <2> QED BY <2>1, <2>2
<1>7. Follows(k)'
  BY SMTT(30), <1>1, <1>2, <1>3, <1>5, <1>6 DEF Follows
<1> QED BY <1>1, <1>2, <1>5, <1>7 DEF RowsInv, None

\* The row at the head of the response is the next one.
LEMMA RowTaken ==
  ASSUME RowsInv, net # <<>>, net' = Tail(net), seen' = seen \cup {Head(net)},
         UNCHANGED <<rows, history, handler, cursor, batch>>
  PROVE  RowsInv'
<1>1. PICK k \in 0..rows : Follows(k)
  BY DEF RowsInv
<1>2. /\ net \in Seq(1..MaxRows) /\ Len(net) \in Nat \ {0} /\ rows \in 1..MaxRows
      /\ k \in Nat /\ MaxRows \in Nat
  BY EmptySeq, EventStreamAssumption DEF RowsInv
<1>3. /\ net' \in Seq(1..MaxRows) /\ Len(net') = Len(net) - 1
      /\ \A i \in 1..Len(net') : net'[i] = net[i + 1]
  BY <1>2, HeadTailProperties
<1>4. Head(net) = k + 1
  BY <1>1, <1>2 DEF Follows
<1>5. seen' = Rows(k + 1)
  BY <1>1, <1>2, <1>4 DEF Follows, Rows
<1>6. \A i \in 1..Len(net') : net'[i] = (k + 1) + i
  BY <1>1, <1>2, <1>3 DEF Follows
<1>7. k + 1 \in 0..rows' /\ Follows(k + 1)'
  BY <1>1, <1>2, <1>3, <1>5, <1>6 DEF Follows
<1> QED BY <1>2, <1>3, <1>7 DEF RowsInv, None

\* ... also when it is the last one that is read.
LEMMA LastRowTaken ==
  ASSUME RowsInv, net # <<>>, NoResponse, seen' = seen \cup {Head(net)},
         UNCHANGED <<rows, history>>
  PROVE  RowsInv'
<1>1. PICK k \in 0..rows : Follows(k)
  BY DEF RowsInv
<1>2. /\ net \in Seq(1..MaxRows) /\ Len(net) \in Nat \ {0} /\ rows \in 1..MaxRows
      /\ k \in Nat /\ MaxRows \in Nat
  BY EmptySeq, EventStreamAssumption DEF RowsInv
<1>3. Head(net) = k + 1
  BY <1>1, <1>2 DEF Follows
<1>4. seen' = Rows(k + 1) /\ k + 1 \in 0..rows
  BY <1>1, <1>2, <1>3 DEF Follows, Rows
<1> QED BY <1>4, ResponseCleared

(***************************************************************************)
(* Who watches, and what is said of the end.                               *)
(***************************************************************************)
ControlTyped ==
  /\ who \in {"console", "cli"} /\ fin \in {"open", "end", "cut"}
  /\ pc \in {"off", "fetch", "read", "refresh", "wait", "done", "failed"}
  /\ summary \in {"none", "active", "ended"}
  /\ ask \in {"idle", "asked", "active", "ended", "error"}
  /\ connection \in {"loading", "connecting", "connected", "reconnecting",
                     "unauthorized", "failed", "ended"}

FlagsTyped ==
  /\ ended \in BOOLEAN /\ up \in BOOLEAN
  /\ page \in BOOLEAN /\ timer \in BOOLEAN /\ histAsk \in BOOLEAN

\* The command line has no page and no caches, and asks once.
CliPlain ==
  who = "cli" =>
    /\ ~page /\ ~timer /\ ~histAsk /\ ask = "idle" /\ summary = "none"
    /\ pc \in {"off", "fetch", "read", "done", "failed"}
    /\ pc = "off" => seen = {}

\* Whatever says that the run is over, on its way to the page or on it, says so of a
\* run that is.
OverIsTrue ==
  \/ connection = "ended" \/ summary = "ended" \/ pc = "done" \/ fin = "end" \/ ask = "ended"
  => ended

ControlInv == ControlTyped /\ FlagsTyped /\ CliPlain /\ OverIsTrue

BoundsInv == visits \in 0..MaxVisits /\ faults \in 0..MaxFaults

IInv == RowsInv /\ ControlInv /\ BoundsInv

-----------------------------------------------------------------------------
LEMMA Initially == Init => IInv
<1> SUFFICES ASSUME Init PROVE IInv
  OBVIOUS
<1>1. RowsInv
  <2>1. Follows(0)
    BY EventStreamAssumption DEF Init, Follows, Rows
  <2> QED BY <2>1, EmptySeq, EventStreamAssumption DEF Init, RowsInv, None
<1>2. ControlInv
  BY DEF Init, ControlInv, ControlTyped, FlagsTyped, CliPlain, OverIsTrue
<1>3. BoundsInv
  BY EventStreamAssumption DEF Init, BoundsInv
<1> QED BY <1>1, <1>2, <1>3 DEF IInv

LEMMA RowsNext ==
  ASSUME RowsInv, ControlInv, [Next]_vars
  PROVE  RowsInv'
<1>0. PICK k \in 0..rows : seen = Rows(k)
  BY DEF RowsInv, Follows
<1>z. 0 \in 0..rows /\ Rows(0) = {} /\ rows \in 0..rows /\ rows \in Nat /\ k \in Nat
  BY EventStreamAssumption DEF RowsInv, Rows
<1>1. CASE AppendRow
  BY <1>1, RowAppended DEF AppendRow, cache
<1>2. CASE Restart \/ SummaryFails \/ HistoryFails \/ Focus \/ ServeSummary \/ SummaryError
           \/ SummaryTimer \/ Opened \/ Forget \/ UNCHANGED vars
  BY <1>2, NothingReceived
     DEF Restart, SummaryFails, HistoryFails, Focus, ServeSummary, SummaryError,
         SummaryTimer, Opened, Forget, vars, server, cache
<1>3. CASE Accept \/ PollRead
  BY <1>3, HandlerMoves DEF Accept, PollRead, server, cache
<1>4. CASE PollWrite
  BY <1>4, BatchWritten DEF PollWrite, NextCursor, server, cache
<1>5. CASE Cut
  BY <1>5, ResponseBroken DEF Cut, server, cache
<1>6. CASE Stop
  <2>1. CASE UNCHANGED response
    BY <1>6, <2>1, NothingReceived DEF Stop
  <2>2. CASE Broken
    BY <1>6, <2>2, ResponseBroken DEF Stop
  <2> QED BY <1>6, <2>1, <2>2 DEF Stop
<1>7. CASE Unauthorized \/ Malformed
  BY <1>0, <1>7, ResponseCleared DEF Unauthorized, Malformed, GiveUp, server, cache
<1>8. CASE TakeSummary
  <2>1. UNCHANGED <<rows, history>>
    BY <1>8 DEF TakeSummary, server
  <2>2. CASE Effect(ask, seen \cup Merged)
    <3>1. PICK j \in 0..rows : seen \cup Merged = Rows(j)
      BY <1>0, MergedRows
    <3> QED BY <2>1, <2>2, <3>1, EffectRuns
  <2>3. CASE UNCHANGED <<response, seen>>
    BY <2>1, <2>3, NothingReceived
  <2> QED BY <1>8, <2>2, <2>3 DEF TakeSummary
<1>9. CASE TakeHistory
  <2>1. rows' = rows /\ history' = rows
    BY <1>9 DEF TakeHistory, server
  <2>2. CASE Effect(summary, seen \cup Rows(rows))
    <3>1. seen \cup Rows(rows) = Rows(rows)
      BY <1>0, <1>z DEF Rows
    <3> QED BY <2>1, <2>2, <3>1, <1>z, EffectRuns
  <2>3. CASE UNCHANGED <<response, seen>>
    BY <2>1, <2>3, NothingReceived
  <2> QED BY <1>9, <2>2, <2>3 DEF TakeHistory
<1>10. CASE OpenPage
  <2>1. UNCHANGED <<rows, history>>
    BY <1>10 DEF OpenPage, server
  <2>2. CASE Effect(summary, Merged)
    <3>1. PICK j \in 0..rows : Merged = Rows(j)
      BY <1>z, MergedRows
    <3> QED BY <2>1, <2>2, <3>1, EffectRuns
  <2>3. CASE UNCHANGED <<response, seen>>
    BY <2>1, <2>3, NothingReceived
  <2> QED BY <1>10, <2>2, <2>3 DEF OpenPage
<1>11. CASE LeavePage
  BY <1>z, <1>11, ResponseCleared DEF LeavePage, server
<1>12. CASE Follow
  <2>1. seen = Rows(0)
    BY <1>12, <1>z DEF Follow, ControlInv, CliPlain
  <2>2. Request(0 + 1)
    BY <1>12 DEF Follow
  <2> QED BY <1>12, <1>z, <2>1, <2>2, RequestMade DEF Follow, server, cache
<1>13. CASE Receive
  <2>1. net # <<>> /\ seen' = seen \cup {Head(net)} /\ UNCHANGED <<rows, history>>
    BY <1>13 DEF Receive, server
  <2>2. CASE NoResponse
    BY <2>1, <2>2, LastRowTaken
  <2>3. CASE net' = Tail(net) /\ UNCHANGED <<handler, cursor, batch>>
    BY <2>1, <2>3, RowTaken
  <2> QED BY <1>13, <2>2, <2>3 DEF Receive
<1>14. CASE Closed \/ Failed
  BY <1>0, <1>14, ResponseCleared DEF Closed, Failed, Quit, Again, server, cache
<1>15. CASE Retry
  <2>1. Cursor(seen) = k
    <3>1. k \in 0..MaxRows
      BY <1>z, EventStreamAssumption DEF RowsInv
    <3> QED BY <1>0, <3>1, CursorOfRows
  <2> QED BY <1>0, <1>15, <2>1, RequestMade DEF Retry, server, cache
<1> QED
  BY <1>1, <1>2, <1>3, <1>4, <1>5, <1>6, <1>7, <1>8, <1>9, <1>10, <1>11, <1>12, <1>13,
     <1>14, <1>15 DEF Next

LEMMA ControlNext ==
  ASSUME RowsInv, ControlInv, [Next]_vars
  PROVE  ControlInv'
<1> USE DEF ControlInv, ControlTyped, FlagsTyped, CliPlain, OverIsTrue
<1>1. CASE AppendRow
  BY <1>1 DEF AppendRow, response, cache, view
<1>2. CASE Restart
  BY <1>2 DEF Restart, response, cache, view
<1>16. CASE Accept \/ PollRead \/ UNCHANGED vars
  <2>1. UNCHANGED <<who, server, fin, pc, seen, cache, view>>
    BY <1>16 DEF Accept, PollRead, vars, response
  <2> QED BY <2>1 DEF server, cache, view
<1>3. CASE PollWrite
  BY <1>3 DEF PollWrite, LastPoll, isActive, server, cache, view
<1>4. CASE Cut
  BY <1>4 DEF Cut, Broken, server, cache, view
<1>17. CASE Stop
  <2>1. /\ up' \in BOOLEAN /\ ask' = (IF ask = "asked" THEN "error" ELSE ask)
        /\ UNCHANGED <<who, ended, pc, seen, summary, histAsk, view>>
    BY <1>17 DEF Stop
  <2>2. fin' \in {fin, "cut"}
    BY <1>17 DEF Stop, Broken, response
  <2> QED BY <2>1, <2>2 DEF view
<1>5. CASE SummaryFails
  BY <1>5 DEF SummaryFails, server, response, view
<1>21. CASE HistoryFails
  <2>1. histAsk' \in BOOLEAN /\ who # "cli"
    BY <1>21 DEF HistoryFails
  <2> QED BY <1>21, <2>1 DEF HistoryFails, server, response, view
<1>18. CASE Focus
  BY <1>18 DEF Focus, Invalidate, Refresh, server, response, view
<1>19. CASE SummaryTimer
  BY ZenonT(60), <1>19 DEF SummaryTimer, Invalidate, Refresh, server, response
<1>6. CASE Unauthorized \/ Malformed
  BY <1>6 DEF Unauthorized, Malformed, GiveUp, NoResponse, server, cache
<1>7. CASE ServeSummary \/ SummaryError
  BY <1>7 DEF ServeSummary, SummaryError, isActive, server, response, cache, view
<1>8. CASE TakeSummary
  BY ZenonT(60), <1>8 DEF TakeSummary, Effect, NoResponse, Request, server, response
<1>9. CASE TakeHistory
  BY ZenonT(60), <1>9 DEF TakeHistory, Effect, NoResponse, Request, server, response
<1>10. CASE OpenPage
  <2>1. histAsk' \in BOOLEAN
    BY <1>10 DEF OpenPage
  <2> QED BY <1>10, <2>1 DEF OpenPage, Effect, NoResponse, Request, server, response
<1>11. CASE LeavePage
  BY <1>11 DEF LeavePage, NoResponse, server
<1>20. CASE Forget
  BY <1>20 DEF Forget, server, response, view
<1>12. CASE Follow \/ Retry
  BY <1>12 DEF Follow, Retry, Request, server, cache, view
<1>13. CASE Opened
  BY <1>13 DEF Opened, server, response, cache
<1>14. CASE Receive
  BY ZenonT(60), <1>14 DEF Receive, LastRow, NoResponse, Finish, Refresh, server
<1>15. CASE Closed \/ Failed
  BY <1>15 DEF Closed, Failed, Quit, Again, NoResponse, Refresh, server, cache, view
<1> QED
  BY <1>1, <1>2, <1>3, <1>4, <1>5, <1>6, <1>7, <1>8, <1>9, <1>10, <1>11, <1>12, <1>13,
     <1>14, <1>15, <1>16, <1>17, <1>18, <1>19, <1>20, <1>21 DEF Next

LEMMA BoundsNext ==
  ASSUME BoundsInv, [Next]_vars
  PROVE  BoundsInv'
<1>1. CASE faults' \in {faults, faults + 1} /\ visits' = visits /\ (faults' # faults => faults < MaxFaults)
  BY <1>1, EventStreamAssumption DEF BoundsInv
<1>2. CASE OpenPage
  BY <1>2, EventStreamAssumption DEF OpenPage, BoundsInv
<1>3. CASE Next /\ ~OpenPage
  BY <1>3, <1>1
     DEF Next, AppendRow, Restart, Accept, PollRead, PollWrite, Cut, Stop, SummaryFails,
         HistoryFails, Unauthorized, Malformed, GiveUp, Focus, ServeSummary, TakeSummary,
         SummaryError, TakeHistory, SummaryTimer, LeavePage, Forget, Follow, Opened, Receive,
         Closed, Failed, Quit, Again, Retry, Disturb
<1> QED BY <1>1, <1>2, <1>3 DEF vars

LEMMA Always == Spec => []IInv
<1>1. IInv /\ [Next]_vars => IInv'
  BY RowsNext, ControlNext, BoundsNext DEF IInv
<1> QED BY <1>1, Initially, PTL DEF Spec

-----------------------------------------------------------------------------
\* What a watcher shows is always a gapless beginning of the log, over any cuts,
\* restarts, reconnections and merges with the history, and what it says of the
\* run's end is true (stream.ts, useRunActivity.ts, the CLI's logs -f).
THEOREM WhatIsShownIsTrue == Spec => []ShownIsTrue
<1>1. RowsInv => NoGap
  <2> SUFFICES ASSUME RowsInv PROVE NoGap
    OBVIOUS
  <2>1. PICK k \in 0..rows : seen = Rows(k)
    BY DEF RowsInv, Follows
  <2>2. k \in 0..MaxRows
    BY EventStreamAssumption DEF RowsInv
  <2> QED BY <2>1, <2>2, CursorOfRows DEF NoGap
<1>2. ControlInv => OverIsOver
  BY DEF ControlInv, OverIsTrue, OverIsOver
<1> QED BY <1>1, <1>2, Always, PTL DEF IInv, ShownIsTrue

\* Every variable keeps its type: in particular the rows under way are rows of the log.
THEOREM TypeCorrect == Spec => []TypeOK
<1>1. RowsInv => seen \subseteq 1..MaxRows /\ history \in 1..MaxRows + 1
  BY EventStreamAssumption DEF RowsInv, Follows, Rows, None
<1>2. IInv => TypeOK
  BY <1>1 DEF IInv, RowsInv, ControlInv, ControlTyped, FlagsTyped, BoundsInv, TypeOK
<1> QED BY <1>2, Always, PTL
=============================================================================
