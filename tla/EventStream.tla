----------------------------- MODULE EventStream -----------------------------
(***************************************************************************)
(* Watching a run: the server's event stream (apps/server/src/http.ts),    *)
(* the web console's run page (apps/web, stream.ts and useRunActivity.ts)  *)
(* and the command line's `logs -f` (apps/cli).  The events of the run are *)
(* its rows 1, 2, ...; the last one may be run.ended.  One watcher looks   *)
(* at the run: watchers do not meet.                                       *)
(*                                                                         *)
(* An action is what one party does between two awaits.  A request that is *)
(* given up closes its response, and the handler of a closed response      *)
(* stops, so only the watcher's last request is kept.                      *)
(***************************************************************************)
EXTENDS Naturals, Sequences, SequencesExt, FiniteSets

CONSTANTS
  MaxRows,      \* bound: rows the run writes
  MaxVisits,    \* bound: times the run page is opened
  MaxFaults     \* bound: cuts, failures, restarts and window focuses

ASSUME EventStreamAssumption ==
  MaxRows \in Nat \ {0} /\ MaxVisits \in Nat /\ MaxFaults \in Nat

VARIABLES
  who,       \* who watches: the page of the "console", or the "cli"
  rows,      \* how many rows the store holds
  ended,     \* the last of them is run.ended
  up,        \* the server runs
  handler,   \* the handler of the stream request: where it is,
  cursor,    \*   the row it reads from next,
  batch,     \*   the last row of its last read
  net,       \* rows written to the response and not yet received
  fin,       \* what follows them: nothing yet, the end, or an error
  pc,        \* where the watcher's loop is
  seen,      \* rows it has got: EventLog, or the lines it has printed
  page,      \* the run page is open
  summary,   \* the summary the console has cached
  ask,       \* the request that refreshes it
  history,   \* rows of the cached history, None if it was never fetched
  histAsk,   \* the history is being fetched
  timer,     \* a refresh of the summary is scheduled
  connection,\* what the page shows of its stream
  visits, faults

server == <<rows, ended, up>>
response == <<handler, cursor, batch, net, fin>>
cache == <<summary, ask, history, histAsk>>
view == <<page, timer, connection>>
vars == <<who, server, response, pc, seen, cache, view, visits, faults>>

None == MaxRows + 1     \* no history
Rows(n) == 1..n
\* EventLog.cursor: the end of the gapless beginning of what was received.
Cursor(s) == CHOOSE n \in 0..MaxRows : Rows(n) \subseteq s /\ n + 1 \notin s
Merged == IF history = None THEN {} ELSE Rows(history)

Init ==
  /\ who \in {"console", "cli"}
  /\ rows = 1 /\ ended = FALSE /\ up = TRUE
  /\ handler = "none" /\ cursor = 1 /\ batch = 0 /\ net = <<>> /\ fin = "open"
  /\ pc = "off" /\ seen = {}
  /\ page = FALSE /\ summary = "none" /\ ask = "idle"
  /\ history = None /\ histAsk = FALSE
  /\ timer = FALSE /\ connection = "loading"
  /\ visits = 0 /\ faults = 0

Disturb == faults < MaxFaults /\ faults' = faults + 1

-----------------------------------------------------------------------------
\* The run.  The handle the server keeps for it takes a row over in the turn that
\* appended it (the SQLite store answers at once), before anything else is served.
AppendRow ==
  /\ up /\ ~ended /\ rows < MaxRows
  /\ rows' = rows + 1
  /\ ended' \in BOOLEAN
  /\ UNCHANGED <<who, up, response, pc, seen, cache, view, visits, faults>>

isActive == ~ended

-----------------------------------------------------------------------------
\* The server's side of the stream: `stream` and its `poll`.
NoResponse == handler' = "none" /\ cursor' = 1 /\ batch' = 0 /\ net' = <<>> /\ fin' = "open"

Request(from) ==
  /\ handler' = "asked" /\ cursor' = from /\ batch' = 0 /\ net' = <<>> /\ fin' = "open"

Accept ==
  /\ up /\ handler = "asked"
  /\ handler' = "poll"
  /\ UNCHANGED <<who, server, cursor, batch, net, fin, pc, seen, cache, view, visits, faults>>

\* await services.readEvents(runId, cursor)
PollRead ==
  /\ up /\ handler = "poll"
  /\ handler' = "read" /\ batch' = rows
  /\ UNCHANGED <<who, server, cursor, net, fin, pc, seen, cache, view, visits, faults>>

\* What was read is written; the cursor follows the last row written, and the
\* response ends behind run.ended, or when the run is no longer active.
Batch == [i \in 1..(batch + 1 - cursor) |-> cursor + i - 1]
\* Mutants: the cursor follows what the store holds by now; it skips a row.
NextCursorAtHead == rows + 1
NextCursorSkips == batch + 2
NextCursor == batch + 1
LastPoll == ~isActive

PollWrite ==
  /\ up /\ handler = "read"
  /\ net' = net \o Batch
  /\ cursor' = NextCursor
  /\ batch' = 0
  /\ IF LastPoll THEN handler' = "none" /\ fin' = "end"
                 ELSE handler' = "poll" /\ fin' = fin
  /\ UNCHANGED <<who, server, pc, seen, cache, view, visits, faults>>

\* The parser gives out a row when all of it has come, wherever the chunks end: of a
\* response that breaks off, whole rows arrive.
WholeRows(n) == SubSeq(net, 1, n)

\* The connection breaks, or a read fails and the response is destroyed; what is
\* under way arrives up to some row, or is lost.
Broken ==
  /\ handler' = "none" /\ fin' = "cut" /\ batch' = 0 /\ cursor' = 1
  /\ \E n \in 0..Len(net) : net' = WholeRows(n)

Cut ==
  /\ Disturb /\ handler \in {"poll", "read"} /\ Broken
  /\ UNCHANGED <<who, server, pc, seen, cache, view, visits>>

\* The server stops, whatever it was doing, and is started again; it opens the run
\* at the end of its log.
Stop ==
  /\ Disturb /\ up /\ up' = FALSE
  /\ IF handler = "none" THEN UNCHANGED response ELSE Broken
  /\ ask' = IF ask = "asked" THEN "error" ELSE ask
  /\ UNCHANGED <<who, rows, ended, pc, seen, summary, history, histAsk, view, visits>>

Restart ==
  /\ ~up /\ up' = TRUE
  /\ UNCHANGED <<who, rows, ended, response, pc, seen, cache, view, visits, faults>>

-----------------------------------------------------------------------------
\* The console's caches.  A refresh of the summary replaces one that is under way,
\* and the answer may be old when it comes.
Refresh == ask' = "asked"

ServeSummary ==
  /\ up /\ ask = "asked"
  /\ ask' = IF isActive THEN "active" ELSE "ended"
  /\ UNCHANGED <<who, server, response, pc, seen, summary, history, histAsk, view, visits, faults>>

SummaryFails ==
  /\ Disturb /\ ask = "asked" /\ ask' = "error"
  /\ UNCHANGED <<who, server, response, pc, seen, summary, history, histAsk, view, visits>>

\* The effect of useRunActivity, run again whenever one of its inputs changed: it
\* ends the old loop, merges the history into what the page has, and connects,
\* unless the summary says that the run ended.
Effect(status, known) ==
  /\ seen' = known
  /\ timer' = FALSE
  /\ IF status = "ended"
     THEN pc' = "off" /\ connection' = "ended" /\ NoResponse
     ELSE pc' = "fetch" /\ connection' = "connecting" /\ Request(Cursor(known) + 1)

\* The refresh settles.  The loop that waited for it goes on to its retry.
TakeSummary ==
  /\ ask \in {"active", "ended"}
  /\ summary' = ask /\ ask' = "idle"
  /\ IF summary # ask
     THEN Effect(ask, seen \cup Merged)
     ELSE /\ pc' = IF pc = "refresh" THEN "wait" ELSE pc
          /\ UNCHANGED <<response, seen, timer, connection>>
  /\ UNCHANGED <<who, server, history, histAsk, page, visits, faults>>

\* A failed refresh leaves the cached summary as it is (and its error on the page).
SummaryError ==
  /\ ask = "error" /\ pc = "refresh"
  /\ pc' = "wait"
  /\ UNCHANGED <<who, server, response, seen, cache, view, visits, faults>>

\* The history comes once for as long as it is cached (its staleTime is infinite).
TakeHistory ==
  /\ histAsk /\ up
  /\ histAsk' = FALSE /\ history' = rows
  /\ IF summary # "none"
     THEN Effect(summary, seen \cup Rows(rows))
     ELSE UNCHANGED <<response, pc, seen, timer, connection>>
  /\ UNCHANGED <<who, server, summary, ask, page, visits, faults>>

HistoryFails ==
  /\ Disturb /\ histAsk /\ histAsk' = FALSE
  /\ UNCHANGED <<who, server, response, pc, seen, summary, ask, history, view, visits>>

-----------------------------------------------------------------------------
\* The page is opened and left; the caches outlive it, for a while.  A cached
\* summary is used at once, and refreshed unless it is fresh.
OpenPage ==
  /\ who = "console" /\ ~page /\ visits < MaxVisits
  /\ page' = TRUE /\ visits' = visits + 1
  /\ ask' \in IF summary = "none" THEN {"asked"} ELSE {"asked", "idle"}
  /\ histAsk' = (history = None)
  /\ IF summary = "none"
     THEN /\ connection' = "loading" /\ timer' = FALSE
          /\ UNCHANGED <<response, pc, seen>>
     ELSE Effect(summary, Merged)
  /\ UNCHANGED <<who, server, summary, history, faults>>

LeavePage ==
  /\ page
  /\ page' = FALSE /\ pc' = "off" /\ seen' = {} /\ NoResponse
  /\ ask' = "idle" /\ histAsk' = FALSE
  /\ timer' = FALSE /\ connection' = "loading"
  /\ UNCHANGED <<who, server, summary, history, visits, faults>>

Forget ==
  /\ ~page /\ visits < MaxVisits /\ summary # "none"
  /\ summary' = "none" /\ history' = None
  /\ UNCHANGED <<who, server, response, pc, seen, ask, histAsk, view, visits, faults>>

\* The window gets the focus: the summary is refreshed.  A refresh the loop waits
\* for is given up, and the wait for it ends.
Invalidate ==
  /\ Refresh
  /\ pc' = IF pc = "refresh" THEN "wait" ELSE pc

Focus ==
  /\ Disturb /\ page /\ Invalidate
  /\ UNCHANGED <<who, server, response, seen, summary, history, histAsk, view, visits>>

\* The refresh that a step, a gate or a checkpoint in the stream scheduled.
SummaryTimer ==
  /\ timer /\ timer' = FALSE /\ Invalidate
  /\ UNCHANGED <<who, server, response, seen, summary, history, histAsk, page, connection, visits, faults>>

-----------------------------------------------------------------------------
\* `logs -f`: one request from the first row on.
Follow ==
  /\ who = "cli" /\ pc = "off"
  /\ pc' = "fetch" /\ Request(1)
  /\ UNCHANGED <<who, server, seen, cache, view, visits, faults>>

\* The response has begun: onOpen.
Opened ==
  /\ pc = "fetch" /\ (handler \in {"poll", "read"} \/ fin = "end" \/ net # <<>>)
  /\ pc' = "read"
  /\ connection' = IF who = "console" THEN "connected" ELSE connection
  /\ UNCHANGED <<who, server, response, seen, cache, page, timer, visits, faults>>

\* Mutant: the loop ends with the stream.
AgainNever ==
  /\ NoResponse
  /\ connection' = "reconnecting" /\ pc' = "off" /\ Refresh
  /\ UNCHANGED <<who, server, seen, summary, history, histAsk, page, timer, visits, faults>>

\* After a stream that was closed or failed, the console looks at the run before it
\* connects again; the command line is done, or fails.
Again ==
  /\ NoResponse
  /\ connection' = "reconnecting" /\ pc' = "refresh" /\ Refresh
  /\ UNCHANGED <<who, server, seen, summary, history, histAsk, page, timer, visits, faults>>

Quit(how) ==
  /\ NoResponse /\ pc' = how
  /\ UNCHANGED <<who, server, seen, cache, view, visits, faults>>

\* A row.  Behind run.ended nothing is read.
LastRow == ended /\ Head(net) = rows

\* run.ended is shown, and the summary fetched once more.
Finish ==
  /\ pc' = "off" /\ timer' = FALSE /\ connection' = "ended" /\ Refresh

Receive ==
  /\ pc = "read" /\ net # <<>>
  /\ seen' = seen \cup {Head(net)}
  /\ \/ /\ LastRow /\ NoResponse
        /\ IF who = "cli"
           THEN pc' = "done" /\ UNCHANGED <<ask, timer, connection>>
           ELSE Finish
     \/ /\ ~LastRow /\ net' = Tail(net)
        /\ \E scheduled \in BOOLEAN :
             timer' = (timer \/ (who = "console" /\ scheduled /\ Head(net) \notin seen))
        /\ UNCHANGED <<handler, cursor, batch, fin, pc, ask, connection>>
  /\ UNCHANGED <<who, server, summary, history, histAsk, page, visits, faults>>

\* The response is at its end, without run.ended.
Closed ==
  /\ pc = "read" /\ net = <<>> /\ fin = "end"
  /\ IF who = "cli" THEN Quit("done") ELSE Again

\* The response breaks off, or never begins.
Failed ==
  /\ \/ pc \in {"fetch", "read"} /\ fin = "cut" /\ net = <<>>
     \/ pc = "fetch" /\ handler = "asked" /\ ~up
  /\ IF who = "cli" THEN Quit("failed") ELSE Again

\* The console gives up.
GiveUp(how) ==
  /\ Disturb /\ who = "console"
  /\ connection' = how /\ pc' = "off" /\ NoResponse
  /\ UNCHANGED <<who, server, seen, cache, page, timer, visits>>

\* The token is refused.
Unauthorized == pc = "fetch" /\ handler = "asked" /\ up /\ GiveUp("unauthorized")

\* What came cannot be read as an event.
Malformed == pc = "read" /\ net # <<>> /\ GiveUp("failed")

\* The backoff is over: from the row after the gapless beginning.
Retry ==
  /\ pc = "wait"
  /\ pc' = "fetch" /\ connection' = "reconnecting" /\ Request(Cursor(seen) + 1)
  /\ UNCHANGED <<who, server, seen, cache, page, timer, visits, faults>>

-----------------------------------------------------------------------------
Serving == Accept \/ PollRead \/ PollWrite
Settling == TakeSummary \/ SummaryError
Reading == Opened \/ Receive \/ Closed \/ Failed \/ Retry

Next ==
  \/ AppendRow \/ Restart
  \/ Accept \/ PollRead \/ PollWrite
  \/ Cut \/ Stop \/ SummaryFails \/ HistoryFails \/ Unauthorized \/ Malformed \/ Focus
  \/ ServeSummary \/ TakeSummary \/ SummaryError \/ TakeHistory \/ SummaryTimer
  \/ OpenPage \/ LeavePage \/ Forget \/ Follow
  \/ Opened \/ Receive \/ Closed \/ Failed \/ Retry

\* The server is started again and answers, timers fire, answers are taken, and the
\* watcher's loop goes on.  Nobody has to write rows, to open a page or to leave it.
Fairness ==
  /\ WF_vars(Restart) /\ WF_vars(Serving) /\ WF_vars(ServeSummary)
  /\ WF_vars(Settling) /\ WF_vars(TakeHistory) /\ WF_vars(SummaryTimer)
  /\ WF_vars(Reading)

Spec == Init /\ [][Next]_vars /\ Fairness

-----------------------------------------------------------------------------
(* Properties *)

TypeOK ==
  /\ who \in {"console", "cli"}
  /\ rows \in 1..MaxRows /\ ended \in BOOLEAN /\ up \in BOOLEAN
  /\ handler \in {"none", "asked", "poll", "read"}
  /\ cursor \in 1..MaxRows + 1 /\ batch \in 0..MaxRows
  /\ net \in Seq(1..MaxRows) /\ fin \in {"open", "end", "cut"}
  /\ pc \in {"off", "fetch", "read", "refresh", "wait", "done", "failed"}
  /\ seen \subseteq 1..MaxRows
  /\ page \in BOOLEAN /\ timer \in BOOLEAN /\ histAsk \in BOOLEAN
  /\ summary \in {"none", "active", "ended"}
  /\ ask \in {"idle", "asked", "active", "ended", "error"}
  /\ history \in 1..MaxRows + 1
  /\ connection \in {"loading", "connecting", "connected", "reconnecting",
                     "unauthorized", "failed", "ended"}
  /\ visits \in 0..MaxVisits /\ faults \in 0..MaxFaults

\* What a watcher shows is always the beginning of the log, without a hole: over
\* cuts, restarts, reconnections and the merge with the history.
NoGap == seen = Rows(Cursor(seen))

\* Neither the console ("Ended") nor `logs -f` (by returning) says that a run is over
\* which goes on: a response that closes is no end, and a cached summary never runs
\* ahead.
OverIsOver == (connection = "ended" \/ summary = "ended" \/ pc = "done") => ended

\* What a watcher is shown is true.
ShownIsTrue == NoGap /\ OverIsOver

\* Nothing more is read for this watcher: there is none, it gave up, or the page
\* could not find out what the run is.
NotReading ==
  IF who = "cli" THEN pc \in {"off", "done", "failed"}
  ELSE \/ ~page
       \/ connection \in {"ended", "unauthorized", "failed"}
       \/ summary = "none" /\ ask = "error"

\* Every row written reaches a watcher that goes on reading, whatever broke off and
\* however often.
RowsArrive == \A n \in 1..MaxRows : rows >= n ~> (n \in seen \/ NotReading)

\* The end of the run reaches the page: its stream and its summary both say so, and
\* no reconnection goes on behind a run that is over.  (Unless the console gave up,
\* or the summary could not be fetched.)
EndIsNoticed ==
  ended ~> IF who = "cli" THEN pc \in {"off", "done", "failed"}
           ELSE \/ ~page
                \/ connection = "ended" /\ summary = "ended"
                \/ connection \in {"unauthorized", "failed"}
                \/ ask = "error"

\* A watcher catches up with the run, and with its end.
WatcherCatchesUp == RowsArrive /\ EndIsNoticed

\* A question no run asks, as this model refutes it (README, section 5): the page of a
\* run that has ended shows the run's whole log, when it is opened as "Ended" and has
\* nothing left to fetch.
EndedPageIsWhole ==
  [][ended /\ ~page /\ page' /\ connection' = "ended" /\ ~histAsk' => seen' = Rows(rows)]_vars
=============================================================================
