---------------------------- MODULE MCRealtime -----------------------------
(* Two instances in one.  A tab that can use three sockets at a time, one    *)
(* break, one failed lookup, one change of the session, one restart of the   *)
(* server, and a trade that is reported pending and settled meanwhile; and a *)
(* tab that is not let in, next to three trades, one of them manual, for the *)
(* counter.                                                                  *)
EXTENDS Realtime

CONSTANTS x1, x2, x3, t1, t2, t3

ThreeSockets == {x1, x2, x3}
ThreeTxs     == {t1, t2, t3}
ManualTx     == {t3}

\* What both start from: the tab has no connection and no outcome is awaited.
Quiet ==
  /\ connected = FALSE /\ client = [s \in Sockets |-> "closed"]
  /\ server = [s \in Sockets |-> "none"] /\ serverOpen = [s \in Sockets |-> FALSE]
  /\ wire = [s \in Sockets |-> <<>>]
  /\ reporting = [t \in Txs |-> 0] /\ pendingExecutions = 0 /\ listed = {}
  /\ restarts = 0 /\ breaks = 0
  /\ leaked = {} /\ missed = {} /\ skewed = FALSE

\* The page is loaded when all trades but one are over, and passes of the checker
\* have overlapped already.
OneTrade ==
  /\ Quiet
  /\ current = NoSocket /\ retry = TRUE
  /\ link = [s \in Sockets |-> "broken"]
  /\ row = [t \in Txs |-> IF t = t1 THEN "none" ELSE "settled"]
  /\ reports = [t \in Txs |-> IF t = t1 THEN <<>> ELSE <<"TRADE_PENDING", "TRADE_OUTCOME">>]
  /\ handler = [t \in Txs |-> IF t \in Manual THEN "none"
                              ELSE IF t = t1 THEN "runs" ELSE "counted"]
  /\ hiccups = 0 /\ sessions = 0 /\ overlaps = MaxOverlaps

\* The session of the tab has changed and it was refused, and has given up; no
\* trade has been made yet.
TabRefused ==
  /\ Quiet
  /\ current = x1 /\ retry = FALSE
  /\ link = [s \in Sockets |-> IF s = x1 THEN "1008" ELSE "broken"]
  /\ row = [t \in Txs |-> "none"] /\ reports = [t \in Txs |-> <<>>]
  /\ handler = [t \in Txs |-> IF t \in Manual THEN "none" ELSE "runs"]
  /\ hiccups = MaxHiccups /\ sessions = MaxSessions /\ overlaps = 0

TabSpec == (OneTrade \/ TabRefused) /\ [][RealtimeNext]_realtimeVars /\ RealtimeFairness
=============================================================================
