------------------------------ MODULE Realtime ------------------------------
(***************************************************************************)
(* How one tab of the dashboard hears of its user's trades: the reconnect- *)
(* ing socket of web/hooks/useSocket.ts, the sockets the server keeps per  *)
(* user (ws/broadcast.ts), and the reports sent through them by the        *)
(* execution engine's notify callback and by the pending-transaction       *)
(* checker (index.ts), with the counter of pending executions both keep.   *)
(*                                                                         *)
(* A connection delivers in order until it breaks; each side notices that  *)
(* on its own, and what is on its way then is lost.  The browser is open   *)
(* before the server has looked the session up.  The server may end and    *)
(* start again at any moment.  Of the trades only those are followed that  *)
(* timed out and have a row for the checker.                               *)
(***************************************************************************)
EXTENDS Naturals, Sequences, FiniteSets

CONSTANTS
  Sockets,      \* connections that can exist at a time
  Txs,          \* trades left pending
  Manual,       \* those of them that no condition led to
  NoSocket,
  MaxBreaks,    \* bound: connections that break
  MaxHiccups,   \* bound: session lookups that fail although the session is valid
  MaxSessions,  \* bound: how often the session changes
  MaxOverlaps,  \* bound: rows settled by a second pass of the checker
  MaxRestarts   \* bound: restarts of the server

ASSUME RealtimeAssumption ==
  /\ NoSocket \notin Sockets
  /\ IsFiniteSet(Txs) /\ Manual \subseteq Txs
  /\ MaxBreaks \in Nat /\ MaxHiccups \in Nat /\ MaxSessions \in Nat
  /\ MaxOverlaps \in Nat /\ MaxRestarts \in Nat

VARIABLES
  current,     \* wsRef: the socket with handlers
  retry,       \* retryTimerRef is set
  connected,   \* what the tab shows
  client,      \* readyState of each socket in the browser
  server,      \* how far the server is with it
  serverOpen,  \* its readyState there
  link,        \* the connection: "up", "broken", or "1008" if closed with that
  wire,        \* messages on their way to the browser
  row,         \* the row of pending_txs of each trade
  reports,     \* messages sent about it, in the order in which they were
  handler,     \* the queue's handler of each trade: "runs", or it ended and has
               \* "counted" the trade, has "failed", or died with the server;
               \* there is "none" for a manual trade
  reporting,   \* passes of the checker that have settled its row and not yet
               \* reported its outcome
  pendingExecutions,
  listed,      \* pendingTxs of the tab
  breaks, hiccups, sessions, overlaps, restarts,
  leaked,      \* history: sockets that closed while their session was looked up
  missed,      \* history: trades whose outcome did not reach the tab
  skewed       \* history: the counter went wrong, see Skews

tabVars    == <<current, retry, connected>>
socketVars == <<client, server, serverOpen, link, leaked>>
tradeVars  == <<row, reports, handler, reporting, pendingExecutions, skewed>>
boundVars  == <<breaks, hiccups, sessions, overlaps, restarts>>
realtimeVars == <<tabVars, socketVars, tradeVars, boundVars, wire, listed, missed>>

Pending(t) == [type |-> "TRADE_PENDING", tx |-> t]
Outcome(t) == [type |-> "TRADE_OUTCOME", tx |-> t]  \* TRADE_CONFIRMED or _FAILED

RealtimeInit ==
  /\ current = NoSocket /\ retry = TRUE /\ connected = FALSE
  /\ client = [s \in Sockets |-> "closed"] /\ server = [s \in Sockets |-> "none"]
  /\ serverOpen = [s \in Sockets |-> FALSE] /\ link = [s \in Sockets |-> "broken"]
  /\ wire = [s \in Sockets |-> <<>>]
  /\ row = [t \in Txs |-> "none"] /\ reports = [t \in Txs |-> <<>>]
  /\ handler = [t \in Txs |-> IF t \in Manual THEN "none" ELSE "runs"]
  /\ reporting = [t \in Txs |-> 0]
  /\ pendingExecutions = 0 /\ listed = {}
  /\ breaks = 0 /\ hiccups = 0 /\ sessions = 0 /\ overlaps = 0 /\ restarts = 0
  /\ leaked = {} /\ missed = {} /\ skewed = FALSE

Outcomes(messages) == {messages[i].tx : i \in {j \in 1 .. Len(messages) :
                                               messages[j].type = "TRADE_OUTCOME"}}

-----------------------------------------------------------------------------
(* The browser: useSocket                                                  *)

\* A connection neither side knows of any more; which of them is of no interest.
IsFree(s) == client[s] = "closed" /\ server[s] = "none"
NextFree  == CHOOSE s \in Sockets : IsFree(s)

\* openSocket, at first and when the timer of scheduleReconnect fires.
OpenSocket(s) ==
  /\ retry /\ IsFree(s) /\ s = NextFree
  /\ retry' = FALSE /\ current' = s
  /\ client' = [client EXCEPT ![s] = "connecting"]
  /\ link' = [link EXCEPT ![s] = "up"]
  /\ UNCHANGED <<connected, server, serverOpen, leaked, tradeVars, boundVars, wire, listed, missed>>

\* The server's part of it, up to the await of lookupSession.
HandleConnection(s) ==
  /\ server' = [server EXCEPT ![s] = "lookup"]
  /\ serverOpen' = [serverOpen EXCEPT ![s] = TRUE]

\* The handshake, onopen.
Connect(s) ==
  /\ client[s] = "connecting" /\ link[s] = "up"
  /\ client' = [client EXCEPT ![s] = "open"]
  /\ connected' = (connected \/ s = current)
  /\ HandleConnection(s)
  /\ UNCHANGED <<current, retry, link, leaked, tradeVars, boundVars, wire, listed, missed>>

\* Mutant: a socket that has been open is not reopened.
Mut_Retries(s) == link[s] # "1008" /\ ~connected

\* onclose: no retry after 1008.
Retries(s) == link[s] # "1008"

ScheduleReconnect(s) == retry' = Retries(s)

\* onclose, or nothing if the handlers have been taken off the socket.
ClientCloses(s) ==
  /\ client[s] # "closed" /\ link[s] # "up" /\ wire[s] = <<>>
  /\ client' = [client EXCEPT ![s] = "closed"]
  /\ IF s = current
     THEN /\ connected' = FALSE
          /\ ScheduleReconnect(s)
     ELSE UNCHANGED <<connected, retry>>
  /\ UNCHANGED <<current, server, serverOpen, link, leaked, tradeVars, boundVars, wire,
                 listed, missed>>

\* The effect's cleanup takes the handlers off the socket and closes it.
AbandonSocket ==
  IF current = NoSocket THEN UNCHANGED <<link, wire, missed>>
  ELSE /\ link' = [link EXCEPT ![current] = "broken"]
       /\ wire' = [wire EXCEPT ![current] = <<>>]
       /\ missed' = missed \cup Outcomes(wire[current])

\* The effect runs again with another session token: the timer is cleared, and
\* a new socket is opened.
NewSession ==
  /\ sessions < MaxSessions
  /\ sessions' = sessions + 1
  /\ connected' = FALSE /\ retry' = TRUE /\ current' = NoSocket
  /\ AbandonSocket
  /\ UNCHANGED <<client, server, serverOpen, leaked, tradeVars, breaks, hiccups, overlaps, restarts,
                 listed>>

\* Mutant: an outcome is shown and the entry kept.
Mut_AfterMessage(m) == IF m.type = "TRADE_PENDING" THEN listed \cup {m.tx} ELSE listed

\* onmessage, of the messages about pending trades.
AfterMessage(m) == IF m.type = "TRADE_PENDING" THEN listed \cup {m.tx} ELSE listed \ {m.tx}

Deliver(s) ==
  /\ client[s] = "open" /\ wire[s] # <<>>
  /\ wire' = [wire EXCEPT ![s] = Tail(@)]
  /\ listed' = IF s = current THEN AfterMessage(Head(wire[s])) ELSE listed
  /\ UNCHANGED <<tabVars, socketVars, tradeVars, boundVars, missed>>

-----------------------------------------------------------------------------
(* The server: BroadcastServer                                             *)

\* lookupSession found the session: the socket is entered, open or not.
Register(s) ==
  /\ server[s] = "lookup"
  /\ server' = [server EXCEPT ![s] = "registered"]
  /\ leaked' = IF serverOpen[s] THEN leaked ELSE leaked \cup {s}
  /\ UNCHANGED <<tabVars, client, serverOpen, link, tradeVars, boundVars, wire, listed, missed>>

\* The query failed, which counts as no session: close(1008).
LookupFails(s) ==
  /\ server[s] = "lookup" /\ hiccups < MaxHiccups
  /\ hiccups' = hiccups + 1
  /\ server' = [server EXCEPT ![s] = "none"]
  /\ serverOpen' = [serverOpen EXCEPT ![s] = FALSE]
  /\ link' = [link EXCEPT ![s] = IF @ = "up" THEN "1008" ELSE @]
  /\ UNCHANGED <<tabVars, client, leaked, tradeVars, breaks, sessions, overlaps, restarts, wire,
                 listed, missed>>

\* Mutant: the close handler leaves the user's last socket in.
Mut_Left(s) == IF Cardinality({r \in Sockets : server[r] = "registered"}) = 1
               THEN "registered" ELSE "none"

\* What the close handler leaves of a socket; one that is being looked up has
\* no such handler yet.
Left(s) == IF server[s] = "registered" THEN "none" ELSE server[s]

ServerCloses(s) ==
  /\ serverOpen[s] /\ link[s] # "up"
  /\ serverOpen' = [serverOpen EXCEPT ![s] = FALSE]
  /\ server' = [server EXCEPT ![s] = Left(s)]
  /\ UNCHANGED <<tabVars, client, link, leaked, tradeVars, boundVars, wire, listed, missed>>

\* The connection breaks or is not made; what is on its way is lost.
Break(s) ==
  /\ breaks < MaxBreaks /\ link[s] = "up"
  /\ breaks' = breaks + 1
  /\ link' = [link EXCEPT ![s] = "broken"]
  /\ wire' = [wire EXCEPT ![s] = <<>>]
  /\ missed' = IF s = current THEN missed \cup Outcomes(wire[s]) ELSE missed
  /\ UNCHANGED <<tabVars, client, server, serverOpen, leaked, tradeVars, hiccups, sessions, overlaps,
                 restarts, listed>>

\* The sockets sendToUser writes to whose message will travel.
Hearing == {s \in Sockets : server[s] = "registered" /\ serverOpen[s] /\ link[s] = "up"}

SendToUser(m) ==
  /\ wire' = [s \in Sockets |-> IF s \in Hearing THEN Append(wire[s], m) ELSE wire[s]]
  /\ reports' = [reports EXCEPT ![m.tx] = Append(@, m.type)]

-----------------------------------------------------------------------------
(* The reports                                                             *)

\* A trade has timed out: its row is there for the checker.  Which trade of its
\* kind is the first is of no interest either.
InsertRow(t) ==
  /\ row[t] = "none" /\ t = CHOOSE u \in Txs : row[u] = "none" /\ (u \in Manual <=> t \in Manual)
  /\ row' = [row EXCEPT ![t] = "PENDING"]
  /\ UNCHANGED <<tabVars, socketVars, reports, handler, reporting, pendingExecutions, skewed,
                 boundVars, wire, listed, missed>>

\* Whether the user was told that the trade is pending.
Told(t) == "TRADE_PENDING" \in {reports[t][i] : i \in 1 .. Len(reports[t])}

\* notify, after the whole action loop, which goes on when the handler has
\* failed by another match; or the manual trade's route.
Notify(t) ==
  /\ row[t] # "none" /\ handler[t] # "died" /\ ~Told(t)
  /\ SendToUser(Pending(t))
  /\ UNCHANGED <<tabVars, socketVars, row, handler, reporting, pendingExecutions, skewed,
                 boundVars, listed, missed>>

\* The handler of the queue, once execute has returned.
CountPending(t) ==
  /\ handler[t] = "runs" /\ Told(t)
  /\ handler' = [handler EXCEPT ![t] = "counted"]
  /\ pendingExecutions' = pendingExecutions + 1
  /\ UNCHANGED <<tabVars, socketVars, row, reports, reporting, skewed, boundVars, wire, listed,
                 missed>>

\* The counter has been lowered for the trade, and is not to be raised for it.
LoweredBefore(t) == row[t] = "settled" /\ reporting[t] = 0

\* execute has rejected, as one of its matches did; or the insertion of the row
\* was answered with an error and the action counts as failed.
HandlerFails(t) ==
  /\ handler[t] = "runs" /\ row[t] # "none"
  /\ handler' = [handler EXCEPT ![t] = "failed"]
  /\ skewed' = (skewed \/ LoweredBefore(t))
  /\ UNCHANGED <<tabVars, socketVars, row, reports, reporting, pendingExecutions, boundVars, wire,
                 listed, missed>>

\* checkPendingTxs has the answer of the chain and updates the row.  Another pass
\* may have done that since this one read its page.
SettleRow(t) ==
  /\ row[t] = "PENDING" \/ (row[t] = "settled" /\ overlaps < MaxOverlaps)
  /\ overlaps' = IF row[t] = "settled" THEN overlaps + 1 ELSE overlaps
  /\ row' = [row EXCEPT ![t] = "settled"]
  /\ reporting' = [reporting EXCEPT ![t] = @ + 1]
  /\ skewed' = (skewed \/ (row[t] = "settled" /\ t \notin Manual))
  /\ UNCHANGED <<tabVars, socketVars, reports, handler, pendingExecutions, breaks, hiccups,
                 sessions, restarts, wire, listed, missed>>

\* Mutant: the counter is lowered for manual trades too.
Mut_Lowers(t) == TRUE

Lowers(t) == t \notin Manual

Lowered(n) == IF n = 0 THEN 0 ELSE n - 1

\* The counter is lowered at zero for a trade that is counted or will be, or is
\* lowered for one that is not.
Skews(t) ==
  /\ t \notin Manual
  /\ IF handler[t] \in {"runs", "counted"} THEN pendingExecutions = 0 ELSE pendingExecutions > 0

Reported(t) == reporting' = [reporting EXCEPT ![t] = @ - 1]

\* The ledger is updated: the checker lowers the counter and tells the user.
ReportOutcome(t) ==
  /\ reporting[t] > 0 /\ Reported(t)
  /\ pendingExecutions' = IF Lowers(t) THEN Lowered(pendingExecutions) ELSE pendingExecutions
  /\ skewed' = (skewed \/ Skews(t))
  /\ SendToUser(Outcome(t))
  /\ missed' = IF current \in Hearing THEN missed ELSE missed \cup {t}
  /\ UNCHANGED <<tabVars, socketVars, row, handler, boundVars, listed>>

\* The row's update was answered with an error, or the ledger's fails: the rest is
\* skipped, and the row is no longer asked for.
LedgerFails(t) ==
  /\ reporting[t] > 0 /\ Reported(t)
  /\ missed' = missed \cup {t}
  /\ skewed' = (skewed \/ handler[t] \in {"runs", "counted"})
  /\ UNCHANGED <<tabVars, socketVars, row, reports, handler, pendingExecutions, boundVars, wire,
                 listed>>

\* The server ends, with its connections, handlers and passes, and starts again
\* with a counter at zero.
Restart ==
  /\ restarts < MaxRestarts
  /\ restarts' = restarts + 1
  /\ server' = [s \in Sockets |-> "none"] /\ serverOpen' = [s \in Sockets |-> FALSE]
  /\ link' = [s \in Sockets |-> IF link[s] = "up" THEN "broken" ELSE link[s]]
  /\ wire' = [s \in Sockets |-> <<>>]
  /\ handler' = [t \in Txs |-> IF row[t] = "none" THEN handler[t] ELSE "died"]
  /\ reporting' = [t \in Txs |-> 0] /\ pendingExecutions' = 0
  /\ missed' = missed \cup {t \in Txs : reporting[t] > 0}
                      \cup (IF current = NoSocket THEN {} ELSE Outcomes(wire[current]))
  /\ leaked' = {} /\ skewed' = FALSE
  /\ UNCHANGED <<tabVars, client, row, reports, breaks, hiccups, sessions, overlaps, listed>>

RealtimeNext ==
  \/ \E s \in Sockets :
       \/ OpenSocket(s) \/ Connect(s) \/ ClientCloses(s) \/ Deliver(s)
       \/ Register(s) \/ LookupFails(s) \/ ServerCloses(s) \/ Break(s)
  \/ NewSession
  \/ Restart
  \/ \E t \in Txs : \/ InsertRow(t) \/ Notify(t) \/ CountPending(t) \/ HandlerFails(t)
                    \/ SettleRow(t) \/ ReportOutcome(t) \/ LedgerFails(t)

\* The browser's timer fires, handshakes and lookups end, and each side notices
\* in the end that a connection is gone.
RealtimeFairness ==
  /\ WF_realtimeVars(\E s \in Sockets : OpenSocket(s))
  /\ \A s \in Sockets :
       /\ WF_realtimeVars(Connect(s)) /\ WF_realtimeVars(Register(s))
       /\ WF_realtimeVars(ClientCloses(s)) /\ WF_realtimeVars(ServerCloses(s))
       /\ WF_realtimeVars(Deliver(s))

RealtimeSpec == RealtimeInit /\ [][RealtimeNext]_realtimeVars /\ RealtimeFairness

-----------------------------------------------------------------------------
(* Properties                                                              *)

RealtimeTypeOK ==
  /\ current \in Sockets \cup {NoSocket} /\ retry \in BOOLEAN /\ connected \in BOOLEAN
  /\ client \in [Sockets -> {"closed", "connecting", "open"}]
  /\ server \in [Sockets -> {"none", "lookup", "registered"}]
  /\ serverOpen \in [Sockets -> BOOLEAN]
  /\ link \in [Sockets -> {"up", "broken", "1008"}]
  /\ row \in [Txs -> {"none", "PENDING", "settled"}]
  /\ handler \in [Txs -> {"none", "runs", "counted", "failed", "died"}]
  /\ reporting \in [Txs -> Nat]
  /\ listed \subseteq Txs /\ missed \subseteq Txs
  /\ leaked \subseteq Sockets /\ skewed \in BOOLEAN
  /\ pendingExecutions \in 0 .. Cardinality(Txs)
  /\ breaks \in 0 .. MaxBreaks /\ hiccups \in 0 .. MaxHiccups /\ sessions \in 0 .. MaxSessions
  /\ overlaps \in 0 .. MaxOverlaps /\ restarts \in 0 .. MaxRestarts

\* The order in which a user hears of a trade may be the wrong one.
Overtaken(t) == reports[t] # <<>> /\ reports[t][1] = "TRADE_OUTCOME"

\* A trade the tab lists as pending is pending, or the checker is about to report
\* its outcome, or that is on its way to the tab.  Otherwise the outcome was
\* reported before the trade was reported pending, or while the tab had no
\* registered connection, or its connection broke under it, or an update failed
\* or the server ended before it was reported: such an entry stays until the page
\* is loaded anew.
ListedIsPending ==
  \A t \in listed :
    \/ row[t] # "settled" \/ reporting[t] > 0
    \/ current # NoSocket /\ t \in Outcomes(wire[current])
    \/ Overtaken(t) \/ t \in missed

\* The sockets of a user are those that are open, or whose end the server has
\* not seen yet (handleConnection, its close handler), but for those that closed
\* while their session was looked up: nothing takes these out again.
RegisteredIsOpen ==
  \A s \in Sockets \ leaked : server[s] = "registered" => serverOpen[s]

\* Trades counted as pending whose outcome the checker has not reported.
Owed == {t \in Txs : handler[t] = "counted" /\ (row[t] = "PENDING" \/ reporting[t] > 0)}

\* When no handler runs for a trade with a row, the counter of this run of the
\* server (index.ts:387, 405, 421, 435) says how many of the trades it counted are
\* not settled or not reported yet, in whatever order it was raised and lowered.
\* It says something else, until the next restart, once
\*   - it was lowered at zero for a trade counted only afterwards,
\*   - it was lowered for a trade whose handler failed or died and never counted it,
\*   - the checker skipped the lowering, as the row's or the ledger's update failed,
\*   - a second pass of the checker settled, and lowered, for the same trade.
\* Manual trades have no part in it, nor have trades counted before a restart.
CounterIsExact ==
  /\ \A t \in Txs : row[t] = "none" \/ handler[t] # "runs"
  /\ ~skewed
  => pendingExecutions = Cardinality(Owed)

\* The tab comes back after every break and every change of the session, unless
\* one failed lookup of the server has told it that its session is not valid.
TabReturns ==
  \/ <>[](connected /\ server[current] = "registered")
  \/ <>(hiccups > 0)
=============================================================================
