----------------------------- MODULE Settlement -----------------------------
(***************************************************************************)
(* The background checker of server/src/index.ts (checkPendingTxs and the  *)
(* cleanup of pending_txs), running next to the execution engine.          *)
(*                                                                         *)
(* Every 15 seconds a pass selects the oldest PENDING rows and, one after  *)
(* the other, asks the chain about each and writes what it learnt first to *)
(* pending_txs and then to trade_executions.  Nothing keeps a pass from    *)
(* starting while an earlier one still runs.  A row unresolved for five    *)
(* minutes is written off; by then its blockhash has expired, so a         *)
(* transaction that was not executed never will be.                        *)
(*                                                                         *)
(* The counters shown by /stats and the balance caches are left out.       *)
(***************************************************************************)
EXTENDS TradeExecution

CONSTANTS
  Passes,      \* passes of the checker that can run at the same time
  PageSize     \* rows one pass selects: getPending(50)

ASSUME SettlementAssumption == PageSize \in Nat \ {0}

VARIABLES
  created,     \* trades in the order of their pending_txs rows
  old,         \* trades whose row is older than five minutes
  passPc,      \* what a pass awaits
  row,         \* the row it is at, or NoDispatch
  todo,        \* the rows it selected that come after
  seen,        \* the chain's answer about its row, then the verdict on it
  contested    \* history: trades that two passes had on their pages at once

passVars   == <<passPc, row, todo, seen>>
settleVars == <<created, old, contested, passVars>>
allVars    == <<tradeVars, settleVars>>

\* What a pass never touches, next to the three things it may.
engineVars == <<pc, runVars, memoryVars, processed, execCount, activity, chain,
                retired, slot, brokenOff, crashes, lockVars>>
rowVars    == <<pendingTx, ledger, inbox>>

\* "status": awaits getSignatureStatus.  "check": markChecked.  "settle": the
\* write to pending_txs.  "ledger": the write to trade_executions.
PassPCs  == {"idle", "status", "check", "settle", "ledger"}
Verdicts == {"CONFIRMED", "FAILED"}

SettleTypeOK ==
  /\ TradeTypeOK
  /\ created \in Seq(Dispatches)
  /\ old \in SUBSET Dispatches
  /\ passPc \in [Passes -> PassPCs]
  /\ row \in [Passes -> Dispatches \cup {NoDispatch}]
  /\ todo \in [Passes -> SUBSET Dispatches]
  /\ seen \in [Passes -> {"nothing", "ok", "err"} \cup Verdicts]
  /\ contested \in SUBSET Dispatches
  /\ \A p \in Passes : /\ passPc[p] # "idle" => row[p] \in Dispatches
                       /\ passPc[p] \in {"settle", "ledger"} => seen[p] \in Verdicts

SettleInit ==
  /\ TradeInit
  /\ created = <<>>
  /\ old = {}
  /\ passPc = [p \in Passes |-> "idle"]
  /\ row = [p \in Passes |-> NoDispatch]
  /\ todo = [p \in Passes |-> {}]
  /\ seen = [p \in Passes |-> "nothing"]
  /\ contested = {}

-----------------------------------------------------------------------------
(* The engine, as it is, next to the checker                               *)

\* A delivery moves; a row it inserts into pending_txs is the youngest.
EngineStep(d) ==
  /\ Deliver(d) \/ Claim(d) \/ RunStep(d)
  /\ created' = IF pendingTx' = pendingTx THEN created ELSE Append(created, Trade(d))
  /\ UNCHANGED <<old, contested, passVars>>

\* The chain moves; after five minutes nothing new is executed.
Land(n) ==
  /\ ChainStep(n)
  /\ n \in old => chain[n] # "sent"
  /\ UNCHANGED settleVars

\* Five minutes pass after a row was inserted.
Grow(n) ==
  /\ pendingTx[n] = "PENDING" /\ n \notin old
  /\ old' = old \cup {n}
  /\ UNCHANGED <<tradeVars, created, contested, passVars>>

-----------------------------------------------------------------------------
(* checkPendingTxs                                                         *)

\* m was inserted before n.
Before(m, n) ==
  \E i, j \in 1..Len(created) : i < j /\ created[i] = m /\ created[j] = n

\* The loop's next row: the oldest of those that are left.
TakeRow(p, rows) ==
  \E n \in rows :
    /\ \A m \in rows : ~Before(m, n)
    /\ row' = [row EXCEPT ![p] = n]
    /\ todo' = [todo EXCEPT ![p] = rows \ {n}]
    /\ passPc' = [passPc EXCEPT ![p] = "status"]

\* The loop's body is done with the row, or skips the rest of it.
NextRow(p) ==
  /\ \/ TakeRow(p, todo[p])
     \/ /\ todo[p] = {}
        /\ row' = [row EXCEPT ![p] = NoDispatch]
        /\ passPc' = [passPc EXCEPT ![p] = "idle"]
        /\ UNCHANGED todo
  /\ seen' = [seen EXCEPT ![p] = "nothing"]

PassGoto(p, next) == passPc' = [passPc EXCEPT ![p] = next] /\ UNCHANGED <<row, todo>>
See(p, what)      == seen' = [seen EXCEPT ![p] = what]

\* Mutant: settled rows are selected again.
Mut_IsPending(n) == pendingTx[n] # "none"

IsPending(n) == pendingTx[n] = "PENDING"

\* getPending: the oldest PENDING rows, at most a page of them.
Selected ==
  {n \in Dispatches : /\ IsPending(n)
                      /\ Cardinality({m \in Dispatches : IsPending(m) /\ Before(m, n)}) < PageSize}

\* The rows a pass has selected and is not done with.
Page(p) == todo[p] \cup ({row[p]} \ {NoDispatch})

\* The timer fires and the query answers; a failed query ends the pass, and so
\* does an empty page.  Rows an earlier pass still has are selected again.
StartPass(p) ==
  /\ passPc[p] = "idle"
  /\ TakeRow(p, Selected)
  /\ contested' = contested \cup (Selected \cap UNION {Page(q) : q \in Passes \ {p}})
  /\ UNCHANGED <<tradeVars, created, old, seen>>

\* Mutant: an executed transaction counts as confirmed whatever its error.
Mut_AnswersAbout(n) ==
  {"nothing"} \cup (IF chain[n] \in {"confirmed", "failed"} THEN {"ok"} ELSE {})

\* What getSignatureStatus may say: `hasErr`, confirmed without an error, or
\* neither; a node that lags or has lost track of the signature says neither.
AnswersAbout(n) ==
  {"nothing"} \cup (IF chain[n] = "confirmed" THEN {"ok"} ELSE {})
              \cup (IF chain[n] \in {"failing", "failed"} THEN {"err"} ELSE {})

ReadStatus(p) ==
  /\ passPc[p] = "status"
  /\ \E a \in AnswersAbout(row[p]) : See(p, a)
  /\ PassGoto(p, "check")
  /\ UNCHANGED <<tradeVars, created, old, contested>>

\* Mutant: a row is never written off.
Mut_TooOld(n) == FALSE

TooOld(n) == n \in old

\* markChecked answers, and the code decides what to write, if anything.
Decide(p) ==
  /\ passPc[p] = "check"
  /\ \/ /\ seen[p] \in {"ok", "err"} \/ TooOld(row[p])
        /\ See(p, IF seen[p] = "ok" THEN "CONFIRMED" ELSE "FAILED")
        /\ PassGoto(p, "settle")
     \/ seen[p] = "nothing" /\ ~TooOld(row[p]) /\ NextRow(p)
  /\ UNCHANGED <<tradeVars, created, old, contested>>

\* updateConfirmed and updateFailed: the UPDATE does not look at the status.
SettleRow(p) ==
  pendingTx' = [pendingTx EXCEPT ![row[p]] = IF @ = "none" THEN @ ELSE seen[p]]

WriteSettled(p) ==
  /\ passPc[p] = "settle"
  /\ SettleRow(p)
  /\ PassGoto(p, "ledger")
  /\ UNCHANGED <<engineVars, ledger, inbox, created, old, seen, contested>>

\* Mutant: the ledger is always told of a failure.
Mut_UpdateLedger(p) == ledger' = [ledger EXCEPT ![row[p]] = "FAILED"]

\* updateStatus, for the row of the same hash.
UpdateLedger(p) == ledger' = [ledger EXCEPT ![row[p]] = seen[p]]

\* The message that goes with a verdict.
Told(verdict) == IF verdict = "CONFIRMED" THEN "TRADE_CONFIRMED" ELSE "TRADE_FAILED"

\* Once the ledger has answered, the user is told.
WriteLedger(p) ==
  /\ passPc[p] = "ledger"
  /\ UpdateLedger(p)
  /\ inbox' = [inbox EXCEPT ![row[p]] = Append(@, Told(seen[p]))]
  /\ NextRow(p)
  /\ UNCHANGED <<engineVars, pendingTx, created, old, contested>>

\* A call throws, its statement perhaps executed; the loop logs the error and
\* goes on with the next row.
CallFails(p) ==
  /\ passPc[p] # "idle"
  /\ \/ passPc[p] = "settle" /\ SettleRow(p) /\ UNCHANGED ledger
     \/ passPc[p] = "ledger" /\ UpdateLedger(p) /\ UNCHANGED pendingTx
     \/ UNCHANGED <<pendingTx, ledger>>
  /\ NextRow(p)
  /\ UNCHANGED <<engineVars, inbox, created, old, contested>>

\* pendingTxRepo.cleanup: settled rows are deleted after a day, when no pass
\* that selected one is still at work.
CleanupPending(n) ==
  /\ n \in old /\ pendingTx[n] \in Verdicts
  /\ \A p \in Passes : passPc[p] = "idle"
  /\ pendingTx' = [pendingTx EXCEPT ![n] = "none"]
  /\ UNCHANGED <<engineVars, ledger, inbox, settleVars>>

\* The process stops: its passes are gone, the rows are not.
SettleCrash ==
  /\ Crash
  /\ passPc' = [p \in Passes |-> "idle"]
  /\ row' = [p \in Passes |-> NoDispatch]
  /\ todo' = [p \in Passes |-> {}]
  /\ seen' = [p \in Passes |-> "nothing"]
  /\ UNCHANGED <<created, old, contested>>

CheckRow(p) == ReadStatus(p) \/ Decide(p) \/ WriteSettled(p) \/ WriteLedger(p)

SettleNext ==
  \/ \E d \in Deliveries : EngineStep(d)
  \/ \E n \in Dispatches : Land(n) \/ Grow(n) \/ CleanupPending(n)
  \/ \E p \in Passes : StartPass(p) \/ CheckRow(p) \/ CallFails(p)
  \/ SettleCrash

SettleSpec == SettleInit /\ [][SettleNext]_allVars

\* The timer keeps starting passes, every call is answered or fails, time goes
\* on; and a call about a row that is made again and again, every 15 seconds,
\* does not fail for ever.
SettleFairSpec ==
  /\ SettleSpec
  /\ \A n \in Dispatches : WF_allVars(Grow(n))
  /\ \A p \in Passes :
       /\ WF_allVars(StartPass(p))
       /\ WF_allVars(CheckRow(p) \/ CallFails(p))
       /\ \A n \in Dispatches :
            /\ SF_allVars(ReadStatus(p) /\ row[p] = n)
            /\ SF_allVars(Decide(p) /\ row[p] = n)
            /\ SF_allVars(WriteSettled(p) /\ row[p] = n)

-----------------------------------------------------------------------------
(* Properties                                                              *)

\* A verdict on a trade is final, in pending_txs and in the ledger, whatever
\* the node answers later, whatever fails and however passes overlap: a settled
\* row is at most deleted.  The one exception the code leaves open is a row that
\* two passes selected before either had settled it.
VerdictIsFinal ==
  [][\A n \in Dispatches \ contested :
       /\ pendingTx[n] \in Verdicts => pendingTx'[n] \in {pendingTx[n], "none"}
       /\ ledger[n] \in Verdicts => ledger'[n] = ledger[n]]_allVars

\* The checker confirms only what the chain confirmed without an error, though
\* it acts on an answer that is two database calls old.
ConfirmedByChecker ==
  \A n \in Dispatches : pendingTx[n] = "CONFIRMED" => chain[n] = "confirmed"

\* The two tables, written one after the other by a pass that may be cut off
\* between them and runs next to other passes: a row still open in pending_txs
\* is open in the ledger, and unless two passes selected the row, the verdicts
\* in the two tables and what the user was told are the same.
TablesAgree ==
  \A n \in Dispatches :
    /\ pendingTx[n] = "PENDING" => ledger[n] = "PENDING"
    /\ n \notin contested =>
         /\ {pendingTx[n], ledger[n]} # Verdicts
         /\ \A i \in 1..Len(inbox[n]) :
              reported[n] = "pending" /\ inbox[n][i] # "TRADE_PENDING"
                => inbox[n][i] = Told(ledger[n])

-----------------------------------------------------------------------------
(* The inductive invariants behind them                                    *)

\* A trade whose delivery has not come to inserting its row into pending_txs.
Untracked(n) == Unbooked(n) \/ At(n, {"activity", "count", "track"})

\* What the chain confirmed without an error stays confirmed, and whoever says
\* "CONFIRMED" has seen it.
SeenOnChain ==
  /\ \A n \in Dispatches :
       /\ Unsent(n) => chain[n] = "none"
       /\ pendingTx[n] = "CONFIRMED" => chain[n] = "confirmed"
  /\ \A p \in Passes :
       /\ passPc[p] = "check" /\ seen[p] = "ok" => chain[row[p]] = "confirmed"
       /\ passPc[p] \in {"settle", "ledger"} /\ seen[p] = "CONFIRMED"
            => chain[row[p]] = "confirmed"

\* A trade is in no table before its rows are inserted in their order, and the
\* tables do not contradict each other about one that is not contested.
Recorded(n) ==
  /\ Unbooked(n) => ledger[n] = "none"
  /\ Untracked(n) => pendingTx[n] = "none"
  /\ At(n, {"activity", "count", "track"}) => ledger[n] = result[n]
  /\ At(n, {"track"}) => result[n] = "PENDING"
  /\ pendingTx[n] = "PENDING" => ledger[n] = "PENDING"
  /\ n \notin contested /\ pendingTx[n] \in Verdicts /\ ledger[n] \in Verdicts
       => pendingTx[n] = ledger[n]

\* Of a pending trade the user is told what the ledger says, once it does.
Announced(n) ==
  /\ Untracked(n) => inbox[n] = <<>> /\ reported[n] = "none"
  /\ n \notin contested /\ reported[n] = "pending" =>
       \A i \in 1..Len(inbox[n]) : inbox[n][i] # "TRADE_PENDING" =>
         ledger[n] \in Verdicts /\ inbox[n][i] = Told(ledger[n])

\* What a pass has selected is in pending_txs, and at "ledger" it is settled
\* there.  Of a row that is not contested it also knows the state: nobody has
\* settled it but this pass, whose verdict it then is.
AtWork(p) ==
  /\ row[p] \notin todo[p]
  /\ passPc[p] = "idle" => Page(p) = {}
  /\ \A n \in Page(p) : pendingTx[n] # "none"
  /\ passPc[p] = "ledger" => pendingTx[row[p]] \in Verdicts
  /\ \A n \in Page(p) \ contested :
       IF n = row[p] /\ passPc[p] = "ledger"
       THEN pendingTx[n] = seen[p] /\ ledger[n] = "PENDING"
       ELSE pendingTx[n] = "PENDING"

\* Only contested rows are on two pages.
PagesApart ==
  \A p, q \in Passes : p # q => Page(p) \cap Page(q) \subseteq contested

PassesInv ==
  /\ \A n \in Dispatches : Recorded(n) /\ Announced(n)
  /\ \A p \in Passes : AtWork(p)
  /\ PagesApart

-----------------------------------------------------------------------------
(* Liveness                                                                *)

\* Every row handed to the checker is settled in the end, whatever the chain
\* does, across failed calls and restarts.
PendingResolved ==
  \A n \in Dispatches : pendingTx[n] = "PENDING" ~> pendingTx[n] # "PENDING"
=============================================================================
