-------------------------- MODULE Settlement_proofs --------------------------
(***************************************************************************)
(* Proofs about Settlement for any number of deliveries, of rows and of    *)
(* passes that overlap, and any page size.  The checker leaves everything  *)
(* of the engine alone but three variables, so TradeInv is kept; the       *)
(* engine and the checker meet in the rows of pending_txs and              *)
(* trade_executions.                                                       *)
(***************************************************************************)
EXTENDS Settlement, TradeExecution_proofs

CheckerStep(p) == StartPass(p) \/ CheckRow(p) \/ CallFails(p)

\* A row taken from a page is of it.
LEMMA TakeRowType ==
  ASSUME SettleTypeOK, NEW p \in Passes, NEW rows \in SUBSET Dispatches, TakeRow(p, rows)
  PROVE  /\ row' \in [Passes -> Dispatches \cup {NoDispatch}] /\ row'[p] \in rows
         /\ todo' \in [Passes -> SUBSET Dispatches] /\ todo'[p] = rows \ {row'[p]}
         /\ passPc' \in [Passes -> PassPCs] /\ passPc'[p] = "status"
         /\ \A q \in Passes : q # p => row'[q] = row[q] /\ todo'[q] = todo[q] /\ passPc'[q] = passPc[q]
BY DEF TakeRow, SettleTypeOK, PassPCs

\* The next row of a page is of it, or the pass is over.
LEMMA NextRowType ==
  ASSUME SettleTypeOK, NEW p \in Passes, NextRow(p)
  PROVE  /\ row' \in [Passes -> Dispatches \cup {NoDispatch}]
         /\ todo' \in [Passes -> SUBSET Dispatches]
         /\ passPc' \in [Passes -> PassPCs]
         /\ seen' = [seen EXCEPT ![p] = "nothing"]
         /\ \/ passPc'[p] = "status" /\ row'[p] \in todo[p] /\ todo'[p] = todo[p] \ {row'[p]}
            \/ passPc'[p] = "idle"
         /\ \A q \in Passes : q # p => row'[q] = row[q] /\ todo'[q] = todo[q] /\ passPc'[q] = passPc[q]
<1>1. todo[p] \in SUBSET Dispatches
  BY DEF SettleTypeOK
<1>2. CASE TakeRow(p, todo[p])
  BY <1>1, <1>2, TakeRowType DEF NextRow
<1>3. CASE ~TakeRow(p, todo[p])
  BY <1>3 DEF NextRow, SettleTypeOK, PassPCs
<1>4. QED
  BY <1>2, <1>3

\* What the checker may do to the engine's variables.
RowsOnly ==
  /\ UNCHANGED engineVars
  /\ ledger' \in [Dispatches -> Statuses \cup {"none"}]
  /\ pendingTx' \in [Dispatches -> {"none", "PENDING", "CONFIRMED", "FAILED"}]
  /\ inbox' \in [Dispatches -> Seq({"TRADE_PENDING", "TRADE_CONFIRMED", "TRADE_FAILED"})]

\* Rows written by the checker are typed.
LEMMA CheckerRows ==
  ASSUME SettleTypeOK, NEW p \in Passes, CheckerStep(p)
  PROVE  RowsOnly
<1> USE DEF RowsOnly, SettleTypeOK, TradeTypeOK, DbTypeOK, WorldTypeOK, Verdicts, Statuses
<1>1. CASE StartPass(p) \/ ReadStatus(p) \/ Decide(p)
  BY <1>1 DEF StartPass, ReadStatus, Decide, engineVars, tradeVars, runVars, memoryVars,
     dbVars, worldVars
<1>2. CASE WriteSettled(p)
  BY <1>2 DEF WriteSettled, SettleRow
<1>3. CASE WriteLedger(p)
  <2>1. Told(seen[p]) \in {"TRADE_PENDING", "TRADE_CONFIRMED", "TRADE_FAILED"}
    BY DEF Told
  <2>2. inbox' \in [Dispatches -> Seq({"TRADE_PENDING", "TRADE_CONFIRMED", "TRADE_FAILED"})]
    BY <1>3, <2>1 DEF WriteLedger
  <2>3. QED
    BY <1>3, <2>2 DEF WriteLedger, UpdateLedger
<1>4. CASE CallFails(p)
  <2>1. UNCHANGED engineVars /\ inbox' = inbox
    BY <1>4 DEF CallFails
  <2>2. CASE passPc[p] = "settle" /\ SettleRow(p) /\ UNCHANGED ledger
    BY <2>1, <2>2 DEF SettleRow
  <2>3. CASE passPc[p] = "ledger" /\ UpdateLedger(p) /\ UNCHANGED pendingTx
    BY <2>1, <2>3 DEF UpdateLedger
  <2>4. CASE UNCHANGED <<pendingTx, ledger>>
    BY <2>1, <2>4
  <2>5. QED
    BY <1>4, <2>2, <2>3, <2>4 DEF CallFails
<1>5. QED
  BY <1>1, <1>2, <1>3, <1>4 DEF CheckerStep, CheckRow

\* A step is one of the engine, or touches the three variables only.
LEMMA EngineOrRows ==
  SettleTypeOK /\ [SettleNext]_allVars => [TradeNext]_tradeVars \/ RowsOnly
<1> SUFFICES ASSUME SettleTypeOK, [SettleNext]_allVars
             PROVE  [TradeNext]_tradeVars \/ RowsOnly
  OBVIOUS
<1>1. ASSUME NEW d \in Deliveries, EngineStep(d)
      PROVE  [TradeNext]_tradeVars
  BY <1>1 DEF EngineStep, TradeNext
<1>2. ASSUME NEW n \in Dispatches, Land(n) \/ Grow(n)
      PROVE  [TradeNext]_tradeVars
  BY <1>2 DEF Land, Grow, TradeNext
<1>3. ASSUME NEW n \in Dispatches, CleanupPending(n)
      PROVE  RowsOnly
  BY <1>3 DEF CleanupPending, RowsOnly, SettleTypeOK, TradeTypeOK, DbTypeOK, WorldTypeOK
<1>4. CASE SettleCrash
  BY <1>4 DEF SettleCrash, TradeNext
<1>5. CASE UNCHANGED allVars
  BY <1>5 DEF allVars
<1>6. QED
  BY <1>1, <1>2, <1>3, <1>4, <1>5, CheckerRows DEF SettleNext, CheckerStep

\* The engine's invariant says nothing of those three variables but their type.
LEMMA RowsKeepTradeInv == TradeInv /\ RowsOnly => TradeInv'
<1> SUFFICES ASSUME TradeInv, RowsOnly
             PROVE  TradeInv'
  OBVIOUS
<1>1. UNCHANGED <<pc, match, act, attempt, reported, result, tradeCache, processed, execCount,
                  activity, chain, retired, slot, brokenOff, crashes, tail, phase, prevLock,
                  lockOf, arrival, clock>>
  BY DEF RowsOnly, engineVars, runVars, memoryVars, lockVars
<1>2. LockInv'
  BY <1>1, LockStepInv DEF TradeInv, lockVars
<1>3. TradeTypeOK'
  BY <1>1, <1>2 DEF TradeInv, RowsOnly, LockInv, TradeTypeOK, RunTypeOK, MemoryTypeOK,
     DbTypeOK, WorldTypeOK
<1>4. AtTradeAction' /\ LockAgrees' /\ ClaimRecorded' /\ ClaimedOnce' /\ SentByClaimed'
  BY <1>1 DEF TradeInv, AtTradeAction, LockAgrees, ClaimRecorded, ClaimedOnce, SentByClaimed,
     HasAction, ActionOf, Cond, Sig, Trade, Sent
<1>5. QED
  BY <1>2, <1>3, <1>4 DEF TradeInv

-----------------------------------------------------------------------------
(* Type correctness                                                        *)

\* A delivery inserts at most its own row.
LEMMA InsertedRow ==
  ASSUME TradeTypeOK, AtTradeAction, NEW d \in Deliveries, EngineStep(d),
         pendingTx' \in [Dispatches -> {"none", "PENDING", "CONFIRMED", "FAILED"}],
         pendingTx' # pendingTx
  PROVE  Trade(d) \in Dispatches
<1>1. PICK n \in Dispatches : pendingTx'[n] # pendingTx[n]
  BY DEF TradeTypeOK, DbTypeOK
<1>2. n = Trade(d)
  BY <1>1, DeliveryMoves DEF EngineStep, DeliveryMove
<1>3. QED
  BY <1>2

\* Every step keeps the checker's state typed.
LEMMA SettleTypeStep ==
  TradeInv /\ TradeInv' /\ SettleTypeOK /\ [SettleNext]_allVars => SettleTypeOK'
<1> SUFFICES ASSUME TradeInv, TradeInv', SettleTypeOK, [SettleNext]_allVars
             PROVE  SettleTypeOK'
  OBVIOUS
<1>1. TradeTypeOK' /\ TradeTypeOK /\ AtTradeAction
  BY DEF TradeInv
<1>2. ASSUME NEW d \in Deliveries, EngineStep(d)
      PROVE  SettleTypeOK'
  <2>1. created' \in Seq(Dispatches)
    <3>1. CASE pendingTx' = pendingTx
      BY <1>2, <3>1 DEF EngineStep, SettleTypeOK
    <3>2. CASE pendingTx' # pendingTx
      <4>1. Trade(d) \in Dispatches
        BY <1>1, <1>2, <3>2, InsertedRow DEF TradeTypeOK, DbTypeOK
      <4>2. created' = Append(created, Trade(d)) /\ created \in Seq(Dispatches)
        BY <1>2, <3>2 DEF EngineStep, SettleTypeOK
      <4>3. QED
        BY <4>1, <4>2, AppendProperties
    <3>3. QED
      BY <3>1, <3>2
  <2>2. QED
    BY <1>1, <1>2, <2>1 DEF EngineStep, SettleTypeOK, passVars
<1>3. ASSUME NEW n \in Dispatches, Land(n) \/ Grow(n) \/ CleanupPending(n)
      PROVE  SettleTypeOK'
  BY <1>1, <1>3 DEF Land, Grow, CleanupPending, SettleTypeOK, settleVars, passVars
<1>4. ASSUME NEW p \in Passes, StartPass(p)
      PROVE  SettleTypeOK'
  <2>1. Selected \in SUBSET Dispatches /\ TakeRow(p, Selected)
    BY <1>4 DEF StartPass, Selected
  <2>2. QED
    BY <1>1, <1>4, <2>1, TakeRowType DEF StartPass, SettleTypeOK
<1>5. ASSUME NEW p \in Passes, NextRow(p), UNCHANGED <<created, old, contested>>
      PROVE  SettleTypeOK'
  <2>1. seen' \in [Passes -> {"nothing", "ok", "err"} \cup Verdicts]
    BY <1>5 DEF NextRow, SettleTypeOK
  <2>2. \A q \in Passes : q # p => seen'[q] = seen[q]
    BY <1>5 DEF NextRow, SettleTypeOK
  <2>3. todo[p] \in SUBSET Dispatches
    BY DEF SettleTypeOK
  <2>4. QED
    BY <1>1, <1>5, <2>1, <2>2, <2>3, NextRowType DEF SettleTypeOK
<1>6. ASSUME NEW p \in Passes, ReadStatus(p) \/ WriteSettled(p)
      PROVE  SettleTypeOK'
  BY <1>1, <1>6 DEF ReadStatus, WriteSettled, AnswersAbout, See, PassGoto, SettleTypeOK, PassPCs
<1>7. ASSUME NEW p \in Passes, Decide(p)
      PROVE  SettleTypeOK'
  BY <1>1, <1>5, <1>7 DEF Decide, See, PassGoto, SettleTypeOK, PassPCs, Verdicts
<1>8. ASSUME NEW p \in Passes, WriteLedger(p) \/ CallFails(p)
      PROVE  SettleTypeOK'
  BY <1>5, <1>8 DEF WriteLedger, CallFails
<1>9. CASE SettleCrash
  BY <1>1, <1>9 DEF SettleCrash, SettleTypeOK, PassPCs
<1>10. CASE UNCHANGED allVars
  BY <1>1, <1>10 DEF allVars, settleVars, passVars, SettleTypeOK
<1>11. QED
  BY <1>2, <1>3, <1>4, <1>6, <1>7, <1>8, <1>9, <1>10 DEF SettleNext, CheckRow

\* Next to the checker the engine still satisfies its invariant, and both are
\* well typed (index.ts:392-448).
THEOREM SettleInvariant == SettleSpec => [](TradeInv /\ SettleTypeOK)
<1>1. SettleInit => TradeInv /\ SettleTypeOK
  <2>1. SettleInit => TradeInv
    BY TradeInitInv DEF SettleInit
  <2>2. SettleInit /\ TradeInv => SettleTypeOK
    BY EmptySeq DEF SettleInit, SettleTypeOK, PassPCs, TradeInv
  <2>3. QED
    BY <2>1, <2>2
<1>2. TradeInv /\ SettleTypeOK /\ [SettleNext]_allVars => TradeInv' /\ SettleTypeOK'
  BY EngineOrRows, TradeStepInv, RowsKeepTradeInv, SettleTypeStep
<1>3. QED
  BY <1>1, <1>2, PTL DEF SettleSpec

-----------------------------------------------------------------------------
(* The promise of trade automation                                         *)

\* The checker sends nothing and gives out no slots.
LEMMA RowsKeepSends ==
  ASSUME RowsOnly
  PROVE  /\ SlotsWithinLimit => SlotsWithinLimit'
         /\ UNCHANGED SendCount
<1>1. UNCHANGED <<pc, match, act, execCount, slot, chain>>
  BY DEF RowsOnly, engineVars, runVars
<1>2. SlotsWithinLimit => SlotsWithinLimit'
  BY <1>1 DEF SlotsWithinLimit, Sent, Cond, Trade
<1>3. \A p \in Conds \X Sigs : SentFor(p)' = SentFor(p)
  BY <1>1 DEF SentFor, Sent
<1>4. QED
  BY <1>2, <1>3 DEF SendCount

\* The checker, whose writes and restarts interleave with the engine's, does not
\* break what the engine promises: one transaction at most for a condition and
\* event, within the condition's limit (executor.ts:86-416, index.ts:392-448).
THEOREM PromiseNextToChecker ==
  ASSUME OneTradePerCondition
  PROVE  SettleSpec => KeepsPromise
<1>1. SettleInit => SlotsWithinLimit /\ Promise!Init
  BY SlotsInit, SendCountInit DEF SettleInit
<1>2. TradeInv /\ SettleTypeOK /\ SlotsWithinLimit /\ [SettleNext]_allVars => SlotsWithinLimit'
  BY EngineOrRows, SlotsStep, RowsKeepSends
<1>3. TradeInv => AtMostOneSend
  BY ClaimSendsOnce, OneTradePerCondition
<1>4. ASSUME TradeInv, TradeInv', SettleTypeOK, SlotsWithinLimit',
             AtMostOneSend, AtMostOneSend', [SettleNext]_allVars
      PROVE  [Promise!Next]_SendCount
  <2>1. CASE [TradeNext]_tradeVars
    BY <1>4, <2>1, OneTradePerCondition, StepRefinesPromise
  <2>2. CASE RowsOnly
    BY <2>2, RowsKeepSends
  <2>3. QED
    BY <1>4, <2>1, <2>2, EngineOrRows
<1>5. QED
  BY <1>1, <1>2, <1>3, <1>4, SettleInvariant, PTL DEF SettleSpec, KeepsPromise, Promise!Spec

-----------------------------------------------------------------------------
(* Confirmed means confirmed on the chain                                  *)

\* A trade not yet sent is not on the chain, what is confirmed there stays so,
\* and the engine itself writes no verdict into pending_txs.
LEMMA ChainKept ==
  ASSUME TradeTypeOK, [TradeNext]_tradeVars, NEW n \in Dispatches,
         Unsent(n) => chain[n] = "none"
  PROVE  /\ Unsent(n)' => chain'[n] = "none"
         /\ chain[n] = "confirmed" => chain'[n] = "confirmed"
         /\ pendingTx'[n] \in {pendingTx[n], "PENDING"}
<1> DEFINE Goal == /\ Unsent(n)' => chain'[n] = "none"
                   /\ chain[n] = "confirmed" => chain'[n] = "confirmed"
                   /\ pendingTx'[n] \in {pendingTx[n], "PENDING"}
<1>1. n = <<n[1], n[2]>> /\ n[1] \in Deliveries /\ n[2] \in Nat
  BY TradeAssumption
<1>2. ASSUME Unsent(n)' => Unsent(n), chain'[n] = chain[n],
             pendingTx'[n] \in {pendingTx[n], "PENDING"}
      PROVE  Goal
  BY <1>2
<1>3. ASSUME NEW d \in Deliveries, Deliver(d) \/ Claim(d) \/ RunStep(d), n # Trade(d)
      PROVE  Goal
  <2>1. /\ chain'[n] = chain[n] /\ pendingTx'[n] = pendingTx[n]
        /\ act'[n[1]] = act[n[1]] \/ (act'[n[1]] = act[n[1]] + 1 /\ pc'[n[1]] = "next")
        /\ n[1] # d => pc'[n[1]] = pc[n[1]] /\ act'[n[1]] = act[n[1]]
    BY <1>1, <1>3, DeliveryMoves DEF DeliveryMove
  <2>2. act[n[1]] \in Nat /\ (n[1] = d => act[d] # n[2])
    BY <1>1, <1>3 DEF Trade, TradeTypeOK, RunTypeOK
  <2>3. Unsent(n)' => Unsent(n)
    BY <1>1, <2>1, <2>2 DEF Unsent, At
  <2>4. QED
    BY <1>2, <2>1, <2>3
<1>4. ASSUME NEW d \in Deliveries, n = Trade(d), RunStep(d)
      PROVE  Goal
  <2>1. n[1] = d /\ n[2] = act[d] /\ act[d] \in Nat
    BY <1>4 DEF Trade, TradeTypeOK, RunTypeOK
  <2> USE <1>4, <2>1 DEF Unsent, At, TradeTypeOK, RunTypeOK, DbTypeOK, WorldTypeOK, Goto,
        Proceed, Leave, runVars, dbVars, worldVars, sectionVars
  <2>2. CASE SkipAction(d) \/ StartWebhook(d) \/ PostWebhook(d) \/ DispatchTrade(d)
    BY <2>2 DEF SkipAction, StartWebhook, PostWebhook, DispatchTrade, Advance
  <2>3. CASE Enter(d) \/ TakeSlot(d) \/ CheckBalance(d) \/ BuildSwap(d) \/ Confirm(d)
    BY <2>3 DEF Enter, TakeSlot, MarkTradeSubmitted, CheckBalance, BuildSwap, Confirm
  <2>4. CASE SendTransaction(d)
    BY <2>4 DEF SendTransaction
  <2>5. CASE RecordTrade(d) \/ RecordActivity(d) \/ CountExecution(d) \/ TrackPending(d)
    BY <2>5 DEF RecordTrade, RecordActivity, CountExecution, TrackPending, AfterActivity,
       AfterCount, BreakOff, Answered, bookVars
  <2>6. CASE LeaveSection(d) \/ AfterSection(d) \/ Notify(d)
    BY <2>6 DEF LeaveSection, AfterSection, Notify, Advance
  <2>7. QED
    BY <2>2, <2>3, <2>4, <2>5, <2>6 DEF RunStep
<1>5. ASSUME NEW d \in Deliveries, n = Trade(d), Deliver(d) \/ Claim(d)
      PROVE  Goal
  BY <1>2, <1>5 DEF Deliver, Claim, Unsent, At, Trade, Goto, TradeTypeOK, RunTypeOK, runVars,
     dbVars, worldVars
<1>6. ASSUME NEW m \in Dispatches, ChainStep(m)
      PROVE  Goal
  BY <1>6 DEF ChainStep, Unsent, At, runVars, dbVars, TradeTypeOK, WorldTypeOK
<1>7. CASE Crash
  BY <1>1, <1>2, <1>7 DEF Crash, Unsent, At, Running, Trading, Holding, runVars, dbVars
<1>8. ASSUME UNCHANGED <<pc, act, chain, pendingTx>>
      PROVE  Goal
  BY <1>2, <1>8 DEF Unsent, At
<1>9. QED
  BY <1>3, <1>4, <1>5, <1>6, <1>7, <1>8 DEF TradeNext, Age, CleanupProcessed, tradeVars,
     runVars, dbVars, worldVars

\* While the engine, the chain and time go on, a pass stays where it is or is
\* lost with the process.
PassesStay == UNCHANGED <<passPc, row, todo, seen>> \/ \A p \in Passes : passPc'[p] = "idle"

\* The checker acts on what it has seen of the chain.
LEMMA SeenOnChainStep ==
  SettleTypeOK /\ SettleTypeOK' /\ SeenOnChain /\ [SettleNext]_allVars => SeenOnChain'
<1> SUFFICES ASSUME SettleTypeOK, SettleTypeOK', SeenOnChain, [SettleNext]_allVars
             PROVE  SeenOnChain'
  OBVIOUS
<1>1. TradeTypeOK
  BY DEF SettleTypeOK
<1>2. ASSUME [TradeNext]_tradeVars, PassesStay
      PROVE  SeenOnChain'
  BY <1>1, <1>2, ChainKept DEF SeenOnChain, PassesStay, SettleTypeOK
<1>3. ASSUME NEW d \in Deliveries, EngineStep(d)
      PROVE  SeenOnChain'
  BY <1>2, <1>3 DEF EngineStep, PassesStay, passVars, TradeNext
<1>4. ASSUME NEW n \in Dispatches, Land(n) \/ Grow(n)
      PROVE  SeenOnChain'
  BY <1>2, <1>4 DEF Land, Grow, PassesStay, settleVars, passVars, TradeNext
<1>5. CASE SettleCrash
  BY <1>2, <1>5 DEF SettleCrash, PassesStay, TradeNext
<1>6. CASE UNCHANGED allVars
  BY <1>2, <1>6 DEF allVars, settleVars, PassesStay, passVars
<1>7. ASSUME UNCHANGED engineVars
      PROVE  /\ chain' = chain
             /\ \A n \in Dispatches : Unsent(n)' <=> Unsent(n)
  BY <1>7 DEF engineVars, runVars, Unsent, At
<1>8. ASSUME NEW n \in Dispatches, CleanupPending(n)
      PROVE  SeenOnChain'
  BY <1>1, <1>7, <1>8 DEF CleanupPending, SeenOnChain, settleVars, passVars, TradeTypeOK, DbTypeOK
<1>9. ASSUME NEW p \in Passes, StartPass(p)
      PROVE  SeenOnChain'
  <2>1. UNCHANGED engineVars /\ pendingTx' = pendingTx /\ seen' = seen
    BY <1>9 DEF StartPass, tradeVars, engineVars, memoryVars, dbVars, worldVars
  <2>2. passPc'[p] = "status" /\ \A q \in Passes : q # p => row'[q] = row[q] /\ passPc'[q] = passPc[q]
    BY <1>9, TakeRowType DEF StartPass, Selected
  <2>3. QED
    BY <1>7, <2>1, <2>2 DEF SeenOnChain
<1>10. ASSUME NEW p \in Passes, ReadStatus(p) \/ (Decide(p) /\ ~NextRow(p))
       PROVE  SeenOnChain'
  <2>1. UNCHANGED engineVars /\ pendingTx' = pendingTx /\ row' = row
    BY <1>10 DEF ReadStatus, Decide, PassGoto, tradeVars, engineVars, memoryVars, dbVars, worldVars
  <2>2. CASE ReadStatus(p)
    BY <1>7, <2>1, <2>2 DEF ReadStatus, AnswersAbout, See, PassGoto, SeenOnChain, SettleTypeOK
  <2>3. CASE Decide(p) /\ ~NextRow(p)
    BY <1>7, <2>1, <2>3 DEF Decide, See, PassGoto, SeenOnChain, SettleTypeOK
  <2>4. QED
    BY <1>10, <2>2, <2>3
<1>11. ASSUME NEW p \in Passes, WriteSettled(p)
       PROVE  SeenOnChain'
  BY <1>1, <1>7, <1>11 DEF WriteSettled, SettleRow, PassGoto, SeenOnChain, SettleTypeOK,
     TradeTypeOK, DbTypeOK
<1>12. ASSUME NEW p \in Passes, NextRow(p), UNCHANGED engineVars,
              \A n \in Dispatches : pendingTx'[n] = pendingTx[n] \/
                /\ n = row[p] /\ pendingTx'[n] = seen[p] /\ passPc[p] = "settle"
       PROVE  SeenOnChain'
  <2>1. \A q \in Passes : q # p => row'[q] = row[q] /\ passPc'[q] = passPc[q] /\ seen'[q] = seen[q]
    BY <1>12, NextRowType DEF SettleTypeOK
  <2>2. passPc'[p] \in {"status", "idle"}
    BY <1>12, NextRowType
  <2>3. QED
    BY <1>7, <1>12, <2>1, <2>2 DEF SeenOnChain
<1>13. ASSUME NEW p \in Passes, WriteLedger(p) \/ CallFails(p) \/ (Decide(p) /\ NextRow(p))
       PROVE  SeenOnChain'
  <2>1. NextRow(p)
    BY <1>13 DEF WriteLedger, CallFails
  <2>2. UNCHANGED engineVars
    BY <1>13 DEF WriteLedger, CallFails, Decide, tradeVars, engineVars, memoryVars, dbVars,
       worldVars
  <2>3. \A n \in Dispatches : pendingTx'[n] = pendingTx[n] \/
          /\ n = row[p] /\ pendingTx'[n] = seen[p] /\ passPc[p] = "settle"
    BY <1>1, <1>13 DEF WriteLedger, CallFails, Decide, SettleRow, tradeVars, dbVars, TradeTypeOK,
       DbTypeOK
  <2>4. QED
    BY <1>12, <2>1, <2>2, <2>3
<1>14. QED
  BY <1>3, <1>4, <1>5, <1>6, <1>8, <1>9, <1>10, <1>11, <1>13 DEF SettleNext, CheckRow

\* A row is CONFIRMED only when the chain confirmed its transaction without an
\* error, though the checker acts on an answer two database calls old, however
\* many passes run at the same time (index.ts:396-404).
THEOREM ConfirmedOnChain == SettleSpec => []ConfirmedByChecker
<1>1. SettleInit => SeenOnChain
  BY DEF SettleInit, TradeInit, SeenOnChain
<1>2. SettleSpec => []SeenOnChain
  BY <1>1, SeenOnChainStep, SettleInvariant, PTL DEF SettleSpec
<1>3. SeenOnChain => ConfirmedByChecker
  BY DEF SeenOnChain, ConfirmedByChecker
<1>4. QED
  BY <1>2, <1>3, PTL

-----------------------------------------------------------------------------
(* Overlapping passes: the tables agree                                    *)

\* A delivery keeps the record of the trade it is at, and settles nothing.
LEMMA OwnTradeRecorded ==
  ASSUME TradeTypeOK, NEW d \in Deliveries, Deliver(d) \/ Claim(d) \/ RunStep(d),
         NEW n \in Dispatches, n = Trade(d), Recorded(n), UNCHANGED contested
  PROVE  /\ Recorded(n)'
         /\ pendingTx[n] # "none" => pendingTx'[n] = pendingTx[n]
         /\ ledger[n] # "none" => ledger'[n] = ledger[n]
<1> DEFINE Goal == /\ Recorded(n)'
                   /\ pendingTx[n] # "none" => pendingTx'[n] = pendingTx[n]
                   /\ ledger[n] # "none" => ledger'[n] = ledger[n]
<1>1. n[1] = d /\ n[2] = act[d] /\ act[d] \in Nat
  BY DEF Trade, TradeTypeOK, RunTypeOK
<1> USE <1>1 DEF Recorded, Untracked, Unbooked, At, Verdicts, TradeTypeOK, RunTypeOK,
      MemoryTypeOK, DbTypeOK, Statuses, Goto, Proceed, Leave, runVars, memoryVars, dbVars,
      sectionVars, PCs, Claimed, Running, Trading, Holding
<1>3. ASSUME Deliver(d) \/ Claim(d) \/ StartWebhook(d) \/ SkipAction(d) \/ PostWebhook(d)
      PROVE  Goal
  BY <1>3 DEF Deliver, Claim, StartWebhook, SkipAction, PostWebhook, Advance
<1>4. CASE DispatchTrade(d)
  BY <1>4 DEF DispatchTrade, Advance
<1>5. CASE Enter(d)
  BY <1>5 DEF Enter, MarkTradeSubmitted
<1>6. CASE TakeSlot(d)
  BY <1>6 DEF TakeSlot, MarkTradeSubmitted
<1>7. CASE CheckBalance(d)
  BY <1>7 DEF CheckBalance
<1>8. CASE BuildSwap(d) \/ SendTransaction(d) \/ Confirm(d)
  BY <1>8 DEF BuildSwap, SendTransaction, Confirm, SetResult
<1>9. CASE RecordTrade(d)
  BY <1>9 DEF RecordTrade, AfterActivity, AfterCount, BreakOff, Answered, bookVars
<1>10. CASE RecordActivity(d)
  BY <1>10 DEF RecordActivity, AfterActivity, AfterCount, BreakOff, Answered, bookVars
<1>11. CASE CountExecution(d)
  BY <1>11 DEF CountExecution, AfterCount, BreakOff, Answered, bookVars
<1>12. CASE TrackPending(d)
  BY <1>12 DEF TrackPending, BreakOff, Answered, bookVars
<1>13. CASE LeaveSection(d) \/ AfterSection(d)
  BY <1>13 DEF LeaveSection, AfterSection, Advance
<1>14. CASE Notify(d)
  BY <1>14 DEF Notify
<1>15. QED
  BY <1>3, <1>4, <1>5, <1>6, <1>7, <1>8, <1>9, <1>10, <1>11, <1>12, <1>13, <1>14 DEF RunStep

\* What a step of a delivery does to what the user is told of a trade.
Tells(n) ==
  /\ Untracked(n)' => Untracked(n) /\ (reported[n] = "none" => reported'[n] = "none")
  /\ reported'[n] = "pending" => reported[n] = "pending" \/ Untracked(n)
  /\ \/ inbox'[n] = inbox[n]
     \/ /\ reported[n] # "none" /\ reported'[n] = reported[n]
        /\ inbox'[n] = Append(inbox[n], MessageFor(reported[n]))

\* A delivery reports the trade it is at, once, when it is done with it.
LEMMA OwnTradeTold ==
  ASSUME TradeTypeOK, NEW d \in Deliveries, Deliver(d) \/ Claim(d) \/ RunStep(d),
         NEW n \in Dispatches, n = Trade(d)
  PROVE  Tells(n)
<1>1. n[1] = d /\ n[2] = act[d] /\ act[d] \in Nat
  BY DEF Trade, TradeTypeOK, RunTypeOK
<1> USE <1>1 DEF Tells, Untracked, Unbooked, At, TradeTypeOK, RunTypeOK, MemoryTypeOK,
      WorldTypeOK, Goto, Proceed, Leave, Report, runVars, memoryVars, worldVars, sectionVars,
      PCs, Claimed, Running, Trading, Holding
<1>2. ASSUME Deliver(d) \/ Claim(d) \/ StartWebhook(d) \/ SkipAction(d) \/ PostWebhook(d)
      PROVE  Tells(n)
  BY <1>2 DEF Deliver, Claim, StartWebhook, SkipAction, PostWebhook, Advance
<1>3. CASE DispatchTrade(d)
  BY <1>3 DEF DispatchTrade, Advance
<1>4. CASE Enter(d)
  BY <1>4 DEF Enter, MarkTradeSubmitted
<1>5. CASE TakeSlot(d)
  BY <1>5 DEF TakeSlot, MarkTradeSubmitted
<1>6. CASE CheckBalance(d)
  BY <1>6 DEF CheckBalance
<1>7. CASE BuildSwap(d) \/ SendTransaction(d) \/ Confirm(d)
  BY <1>7 DEF BuildSwap, SendTransaction, Confirm
<1>8. CASE RecordTrade(d)
  BY <1>8 DEF RecordTrade, AfterActivity, AfterCount, BreakOff, Answered, bookVars
<1>9. CASE RecordActivity(d)
  BY <1>9 DEF RecordActivity, AfterActivity, AfterCount, BreakOff, Answered, bookVars
<1>10. CASE CountExecution(d)
  BY <1>10 DEF CountExecution, AfterCount, BreakOff, Answered, bookVars
<1>11. CASE TrackPending(d)
  BY <1>11 DEF TrackPending, BreakOff, Answered, bookVars
<1>12. CASE LeaveSection(d) \/ AfterSection(d)
  BY <1>12 DEF LeaveSection, AfterSection, Advance
<1>13. CASE Notify(d)
  BY <1>13 DEF Notify
<1>14. QED
  BY <1>2, <1>3, <1>4, <1>5, <1>6, <1>7, <1>8, <1>9, <1>10, <1>11, <1>12, <1>13 DEF RunStep

\* Of the other trades a delivery tells only at its end.
LEMMA OtherTradeTold ==
  ASSUME TradeTypeOK, NEW d \in Deliveries, Deliver(d) \/ Claim(d) \/ RunStep(d),
         NEW n \in Dispatches, n # Trade(d)
  PROVE  Tells(n)
<1>1. Untracked(n)' => Untracked(n)
  BY OneTradeAtATime DEF Untouched, Untracked
<1>2. reported'[n] = reported[n]
  BY OneTradeAtATime DEF Untouched
<1>3. \/ inbox'[n] = inbox[n]
      \/ reported[n] # "none" /\ inbox'[n] = Append(inbox[n], MessageFor(reported[n]))
  <2>1. CASE Notify(d)
    BY <2>1 DEF Notify
  <2>2. CASE ~Notify(d)
    BY <2>2 DEF RunStep, Deliver, Claim, SkipAction, StartWebhook, PostWebhook, DispatchTrade,
       Enter, TakeSlot, CheckBalance, BuildSwap, SendTransaction, Confirm, RecordTrade,
       RecordActivity, CountExecution, TrackPending, LeaveSection, AfterSection, worldVars,
       BreakOff, Answered, bookVars
  <2>3. QED
    BY <2>1, <2>2
<1>4. QED
  BY <1>1, <1>2, <1>3 DEF Tells

\* Of a pending trade the engine announces only that it is pending, and the
\* ledger's verdict stays what the user was told.
LEMMA AnnouncedByEngine ==
  ASSUME NEW n \in Dispatches, Recorded(n), Announced(n), Tells(n),
         ledger[n] # "none" => ledger'[n] = ledger[n], UNCHANGED contested,
         inbox[n] \in Seq({"TRADE_PENDING", "TRADE_CONFIRMED", "TRADE_FAILED"})
  PROVE  Announced(n)'
<1>1. Untracked(n)' => inbox'[n] = <<>> /\ reported'[n] = "none"
  BY DEF Announced, Tells
<1>2. ASSUME n \notin contested', reported'[n] = "pending", NEW i \in 1..Len(inbox'[n]),
             inbox'[n][i] # "TRADE_PENDING"
      PROVE  ledger'[n] \in Verdicts /\ inbox'[n][i] = Told(ledger'[n])
  <2>1. i \in 1..Len(inbox[n]) /\ inbox'[n][i] = inbox[n][i]
    <3>1. CASE inbox'[n] = inbox[n]
      BY <3>1
    <3>2. CASE inbox'[n] = Append(inbox[n], "TRADE_PENDING")
      BY <1>2, <3>2
    <3>3. QED
      BY <1>2, <3>1, <3>2 DEF Tells, MessageFor
  <2>2. ~Untracked(n) /\ reported[n] = "pending"
    BY <1>2, <2>1 DEF Announced, Tells
  <2>3. ledger[n] \in Verdicts /\ inbox[n][i] = Told(ledger[n])
    BY <1>2, <2>1, <2>2 DEF Announced
  <2>4. QED
    BY <2>1, <2>3 DEF Verdicts
<1>3. QED
  BY <1>1, <1>2 DEF Announced, Told

\* A row that is in a table stays as it is, whatever the engine does.
RowStays(n) ==
  /\ pendingTx[n] # "none" => pendingTx'[n] = pendingTx[n]
  /\ ledger[n] # "none" => ledger'[n] = ledger[n]

\* The engine, the chain and the engine's timers keep what is recorded and
\* announced of every trade.
LEMMA EngineKeepsRecords ==
  ASSUME TradeTypeOK, [TradeNext]_tradeVars, UNCHANGED contested,
         NEW n \in Dispatches, Recorded(n), Announced(n)
  PROVE  Recorded(n)' /\ Announced(n)' /\ RowStays(n)
<1>1. inbox[n] \in Seq({"TRADE_PENDING", "TRADE_CONFIRMED", "TRADE_FAILED"})
  BY DEF TradeTypeOK, WorldTypeOK
<1>2. ASSUME NEW d \in Deliveries, Deliver(d) \/ Claim(d) \/ RunStep(d)
      PROVE  Recorded(n)' /\ Announced(n)' /\ RowStays(n)
  <2>1. CASE n = Trade(d)
    <3>1. Recorded(n)' /\ RowStays(n)
      BY <1>2, <2>1, OwnTradeRecorded DEF RowStays
    <3>2. Tells(n)
      BY <1>2, <2>1, OwnTradeTold
    <3>3. QED
      BY <1>1, <3>1, <3>2, AnnouncedByEngine DEF RowStays
  <2>2. CASE n # Trade(d)
    <3>1. Untouched(n)
      BY <1>2, <2>2, OneTradeAtATime
    <3>2. /\ At(n, {"activity", "count", "track"})' => At(n, {"activity", "count", "track"})
          /\ At(n, {"track"})' => At(n, {"track"})
      BY <3>1 DEF Untouched
    <3>3. Recorded(n)' /\ RowStays(n)
      BY <3>1, <3>2 DEF Untouched, Recorded, Untracked, RowStays
    <3>4. Tells(n)
      BY <1>2, <2>2, OtherTradeTold
    <3>5. QED
      BY <1>1, <3>3, <3>4, AnnouncedByEngine DEF RowStays
  <2>3. QED
    BY <2>1, <2>2
<1>3. ASSUME UNCHANGED <<pc, act, reported, result, ledger, pendingTx, inbox>>
      PROVE  Recorded(n)' /\ Announced(n)' /\ RowStays(n)
  BY <1>3 DEF Recorded, Announced, RowStays, Untracked, Unbooked, At
<1>4. CASE Crash
  <2>1. n[1] \in Deliveries
    BY TradeAssumption
  <2>2. UNCHANGED <<act, ledger, pendingTx, inbox>>
    BY <1>4 DEF Crash, runVars, dbVars
  <2>3. reported'[n] \in {reported[n], "none"}
    BY <1>4 DEF Crash
  <2>4. pc'[n[1]] = CASE pc[n[1]] \in Running  -> "lost"
                      [] pc[n[1]] = "claiming" -> "aborted"
                      [] OTHER                 -> pc[n[1]]
    BY <1>4, <2>1 DEF Crash
  <2>5. Untracked(n)' => Untracked(n)
    BY <2>2, <2>4 DEF Untracked, Unbooked, At, PCs, Claimed, Running, Trading, Holding
  <2>6. Recorded(n)' /\ RowStays(n)
    BY <2>1, <2>2, <2>4 DEF Recorded, RowStays, Untracked, Unbooked, At, PCs, Claimed,
       Running, Trading, Holding
  <2>7. QED
    BY <2>2, <2>3, <2>5, <2>6 DEF Announced
<1>5. QED
  BY <1>2, <1>3, <1>4 DEF TradeNext, ChainStep, Age, CleanupProcessed, tradeVars, runVars,
     memoryVars, dbVars, worldVars

\* A verdict on a row that is not contested is written once and stays until the
\* row is deleted.
VerdictStays(n) ==
  n \notin contested =>
    /\ pendingTx[n] \in Verdicts => pendingTx'[n] \in {pendingTx[n], "none"}
    /\ ledger[n] \in Verdicts => ledger'[n] = ledger[n]

Kept == PassesInv' /\ \A n \in Dispatches : VerdictStays(n)

\* What a pass does to the tables and to what the user is told.
RowsMove(p) ==
  /\ UNCHANGED engineVars
  /\ \A n \in Dispatches : n # row[p] \/ passPc[p] \notin {"settle", "ledger"} =>
       pendingTx'[n] = pendingTx[n] /\ ledger'[n] = ledger[n] /\ inbox'[n] = inbox[n]
  /\ passPc[p] = "settle" =>
       /\ pendingTx'[row[p]] \in {pendingTx[row[p]], seen[p]}
       /\ ledger'[row[p]] = ledger[row[p]] /\ inbox'[row[p]] = inbox[row[p]]
  /\ passPc[p] = "ledger" =>
       /\ pendingTx'[row[p]] = pendingTx[row[p]]
       /\ \/ ledger'[row[p]] \in {ledger[row[p]], seen[p]} /\ inbox'[row[p]] = inbox[row[p]]
          \/ /\ ledger'[row[p]] = seen[p]
             /\ inbox'[row[p]] = Append(inbox[row[p]], Told(seen[p]))

\* A step of a pass does no more than that.
LEMMA CheckerRowsMove ==
  ASSUME SettleTypeOK, NEW p \in Passes, CheckerStep(p)
  PROVE  RowsMove(p)
<1> USE DEF RowsMove, SettleTypeOK, TradeTypeOK, DbTypeOK, WorldTypeOK
<1>1. CASE StartPass(p) \/ ReadStatus(p) \/ Decide(p)
  BY <1>1 DEF StartPass, ReadStatus, Decide, engineVars, tradeVars, runVars, memoryVars,
     dbVars, worldVars
<1>2. CASE WriteSettled(p)
  BY <1>2 DEF WriteSettled, SettleRow
<1>3. CASE WriteLedger(p)
  BY <1>3 DEF WriteLedger, UpdateLedger
<1>4. CASE CallFails(p)
  BY <1>4 DEF CallFails, SettleRow, UpdateLedger
<1>5. QED
  BY <1>1, <1>2, <1>3, <1>4 DEF CheckerStep, CheckRow

\* What a pass does to the pages: it leaves those of others alone, and its own
\* only shrinks unless it starts.
PagesMove(p) ==
  /\ contested \subseteq contested'
  /\ \A q \in Passes : q # p =>
       /\ Page(q)' = Page(q)
       /\ row'[q] = row[q] /\ todo'[q] = todo[q] /\ passPc'[q] = passPc[q] /\ seen'[q] = seen[q]
  /\ \/ Page(p)' \subseteq Page(p) /\ contested' = contested
     \/ \A q \in Passes : q # p => Page(p)' \cap Page(q) \subseteq contested'

\* What a pass takes off its page, or adds to it, is of the page.
LEMMA CheckerPages ==
  ASSUME SettleTypeOK, NEW p \in Passes, CheckerStep(p), AtWork(p)
  PROVE  PagesMove(p)
<1>1. CASE StartPass(p)
  <2>1. Selected \in SUBSET Dispatches /\ TakeRow(p, Selected)
    BY <1>1 DEF StartPass, Selected
  <2>2. Page(p)' \subseteq Selected
    BY <2>1, TakeRowType DEF Page
  <2>3. ASSUME NEW q \in Passes, q # p
        PROVE  Page(p)' \cap Page(q) \subseteq contested'
    BY <1>1, <2>2, <2>3 DEF StartPass
  <2>4. \A q \in Passes : q # p =>
          row'[q] = row[q] /\ todo'[q] = todo[q] /\ passPc'[q] = passPc[q] /\ seen'[q] = seen[q]
    BY <1>1, <2>1, TakeRowType DEF StartPass
  <2>5. contested \subseteq contested'
    BY <1>1 DEF StartPass
  <2>6. QED
    BY <2>3, <2>4, <2>5 DEF PagesMove, Page
<1>2. CASE NextRow(p) /\ contested' = contested /\ passPc[p] # "idle"
  <2>1. Page(p)' \subseteq Page(p)
    <3>1. CASE TakeRow(p, todo[p])
      <4>1. todo[p] \in SUBSET Dispatches
        BY DEF SettleTypeOK
      <4>2. QED
        BY <3>1, <4>1, TakeRowType DEF Page
    <3>2. CASE ~TakeRow(p, todo[p])
      BY <1>2, <3>2 DEF NextRow, Page, SettleTypeOK
    <3>3. QED
      BY <3>1, <3>2
  <2>2. \A q \in Passes : q # p =>
          row'[q] = row[q] /\ todo'[q] = todo[q] /\ passPc'[q] = passPc[q] /\ seen'[q] = seen[q]
    BY <1>2, NextRowType DEF SettleTypeOK
  <2>3. QED
    BY <1>2, <2>1, <2>2 DEF PagesMove, Page
<1>3. CASE ReadStatus(p) \/ WriteSettled(p) \/ (Decide(p) /\ ~NextRow(p))
  BY <1>3 DEF ReadStatus, WriteSettled, Decide, PassGoto, See, PagesMove, Page, SettleTypeOK
<1>4. QED
  BY <1>1, <1>2, <1>3 DEF CheckerStep, CheckRow, WriteLedger, CallFails, Decide

\* The row a pass is at is on its page.
LEMMA RowOnPage ==
  ASSUME SettleTypeOK, NEW p \in Passes, passPc[p] # "idle"
  PROVE  row[p] \in Dispatches /\ row[p] \in Page(p)
BY LockAssumption DEF SettleTypeOK, Page

\* A pass settles a row that is not contested in both tables alike, and one that
\* is contested never reopens.
LEMMA PassKeepsRecords ==
  ASSUME SettleTypeOK, NEW p \in Passes, AtWork(p), RowsMove(p), contested \subseteq contested',
         NEW n \in Dispatches, Recorded(n), Announced(n)
  PROVE  Recorded(n)' /\ Announced(n)' /\ VerdictStays(n)
<1>1. /\ reported'[n] = reported[n] /\ result'[n] = result[n]
      /\ Untracked(n)' <=> Untracked(n)
      /\ Unbooked(n)' <=> Unbooked(n)
      /\ At(n, {"activity", "count", "track"})' <=> At(n, {"activity", "count", "track"})
      /\ At(n, {"track"})' <=> At(n, {"track"})
  BY DEF RowsMove, engineVars, runVars, memoryVars, Untracked, Unbooked, At
<1>2. CASE n # row[p] \/ passPc[p] \notin {"settle", "ledger"}
  BY <1>1, <1>2 DEF RowsMove, Recorded, Announced, VerdictStays
<1>3. CASE n = row[p] /\ passPc[p] = "settle"
  <2>1. /\ pendingTx[n] # "none" /\ ~Untracked(n)
        /\ pendingTx'[n] \in {pendingTx[n], seen[p]} /\ ledger'[n] = ledger[n]
        /\ inbox'[n] = inbox[n] /\ seen[p] \in Verdicts
        /\ n \notin contested => pendingTx[n] = "PENDING" /\ ledger[n] = "PENDING"
    BY <1>3, RowOnPage DEF RowsMove, AtWork, Recorded, SettleTypeOK
  <2>2. ~Unbooked(n) /\ ~At(n, {"track"}) /\ ~At(n, {"activity", "count", "track"})
    BY <2>1 DEF Untracked, At
  <2>3. Recorded(n)' /\ VerdictStays(n)
    BY <1>1, <2>1, <2>2 DEF Recorded, VerdictStays, Verdicts
  <2>4. QED
    BY <1>1, <2>1, <2>3 DEF Announced
<1>4. CASE n = row[p] /\ passPc[p] = "ledger"
  <2>1. /\ pendingTx[n] \in Verdicts /\ seen[p] \in Verdicts
        /\ pendingTx'[n] = pendingTx[n]
        /\ \/ ledger'[n] \in {ledger[n], seen[p]} /\ inbox'[n] = inbox[n]
           \/ ledger'[n] = seen[p] /\ inbox'[n] = Append(inbox[n], Told(seen[p]))
        /\ n \notin contested => pendingTx[n] = seen[p] /\ ledger[n] = "PENDING"
    BY <1>4, RowOnPage DEF RowsMove, AtWork, SettleTypeOK
  <2>2. ~Untracked(n) /\ ~Unbooked(n) /\ ~At(n, {"activity", "count", "track"})
    BY <2>1 DEF Recorded, Untracked, Verdicts
  <2>3. Recorded(n)' /\ VerdictStays(n)
    BY <1>1, <2>1, <2>2 DEF Recorded, VerdictStays, Verdicts, At
  <2>4. ASSUME n \notin contested', reported'[n] = "pending", NEW i \in 1..Len(inbox'[n]),
               inbox'[n][i] # "TRADE_PENDING"
        PROVE  ledger'[n] = seen[p] /\ inbox'[n][i] = Told(seen[p])
    <3>1. inbox[n] \in Seq({"TRADE_PENDING", "TRADE_CONFIRMED", "TRADE_FAILED"})
      BY DEF SettleTypeOK, TradeTypeOK, WorldTypeOK
    <3>2. \A j \in 1..Len(inbox[n]) : inbox[n][j] = "TRADE_PENDING"
      BY <1>1, <2>1, <2>4 DEF Announced, Verdicts
    <3>3. inbox'[n] # inbox[n]
      BY <2>4, <3>2
    <3>4. ledger'[n] = seen[p] /\ inbox'[n] = Append(inbox[n], Told(seen[p]))
      BY <2>1, <3>3
    <3>5. i = Len(inbox[n]) + 1
      BY <2>4, <3>1, <3>2, <3>4
    <3>6. QED
      BY <3>1, <3>4, <3>5
  <2>5. Announced(n)'
    BY <1>1, <2>1, <2>2, <2>4 DEF Announced, Told
  <2>6. QED
    BY <2>3, <2>5
<1>5. QED
  BY <1>2, <1>3, <1>4

\* A pass stays at work on the rows of its page.
LEMMA PassStaysAtWork ==
  ASSUME SettleTypeOK, NEW p \in Passes, AtWork(p), CheckerStep(p),
         \A n \in Dispatches : Recorded(n)
  PROVE  AtWork(p)'
<1>1. RowsMove(p)
  BY CheckerRowsMove
<1>2. ASSUME NEW n \in todo[p], passPc[p] # "idle"
      PROVE  /\ n \in Dispatches /\ n \in Page(p) /\ n # row[p] /\ n # NoDispatch
             /\ pendingTx'[n] # "none"
             /\ n \notin contested => pendingTx'[n] = "PENDING"
  BY <1>1, <1>2, LockAssumption DEF AtWork, RowsMove, SettleTypeOK, Page
<1>3. CASE NextRow(p) /\ passPc[p] # "idle" /\ contested' = contested
  <2>1. CASE TakeRow(p, todo[p])
    <3>1. todo[p] \in SUBSET Dispatches
      BY DEF SettleTypeOK
    <3>2. /\ passPc'[p] = "status" /\ row'[p] \in todo[p] /\ todo'[p] = todo[p] \ {row'[p]}
          /\ Page(p)' \subseteq todo[p]
      BY <2>1, <3>1, TakeRowType DEF Page
    <3>3. QED
      BY <1>2, <1>3, <3>2 DEF AtWork
  <2>2. CASE ~TakeRow(p, todo[p])
    <3>1. todo'[p] = {} /\ passPc'[p] = "idle" /\ row'[p] = NoDispatch
      BY <1>3, <2>2 DEF NextRow, SettleTypeOK
    <3>2. QED
      BY <3>1 DEF AtWork, Page
  <2>3. QED
    BY <2>1, <2>2
<1>4. CASE StartPass(p)
  <2>1. /\ Selected \in SUBSET Dispatches /\ TakeRow(p, Selected) /\ pendingTx' = pendingTx
        /\ ledger' = ledger
    BY <1>4 DEF StartPass, Selected, tradeVars, dbVars
  <2>2. \A n \in Selected : pendingTx[n] = "PENDING"
    BY DEF Selected, IsPending
  <2>3. /\ passPc'[p] = "status" /\ row'[p] \in Selected /\ todo'[p] = Selected \ {row'[p]}
        /\ Page(p)' \subseteq Selected
    BY <2>1, TakeRowType DEF Page
  <2>4. QED
    BY <2>1, <2>2, <2>3 DEF AtWork
<1>5. CASE ReadStatus(p) \/ (Decide(p) /\ ~NextRow(p))
  <2>1. /\ UNCHANGED <<row, todo, contested, pendingTx, ledger>>
        /\ passPc[p] \in {"status", "check"} /\ passPc'[p] \in {"check", "settle"}
    BY <1>5 DEF ReadStatus, Decide, PassGoto, SettleTypeOK, tradeVars, dbVars
  <2>2. Page(p)' = Page(p)
    BY <2>1 DEF Page
  <2>3. QED
    BY <2>1, <2>2 DEF AtWork
<1>6. CASE WriteSettled(p)
  <2>1. /\ passPc[p] = "settle" /\ passPc'[p] = "ledger"
        /\ UNCHANGED <<row, todo, seen, contested, ledger>>
        /\ row[p] \in Dispatches /\ row[p] \notin todo[p] /\ seen[p] \in Verdicts
        /\ pendingTx[row[p]] # "none"
        /\ row[p] \notin contested => pendingTx[row[p]] = "PENDING"
    BY <1>6, RowOnPage DEF WriteSettled, PassGoto, AtWork, SettleTypeOK
  <2>2. pendingTx'[row[p]] = seen[p]
    BY <1>6, <2>1 DEF WriteSettled, SettleRow, SettleTypeOK, TradeTypeOK, DbTypeOK
  <2>3. Page(p)' = Page(p) /\ Page(p) = todo[p] \cup {row[p]}
    BY <2>1, LockAssumption DEF Page
  <2>4. row[p] \notin contested => ledger[row[p]] = "PENDING"
    BY <2>1 DEF Recorded
  <2>5. \A n \in Page(p) : pendingTx'[n] # "none"
    BY <1>2, <2>1, <2>2, <2>3 DEF Verdicts
  <2>6. \A n \in todo[p] : n # row[p] /\ (n \notin contested => pendingTx'[n] = "PENDING")
    BY <1>2, <2>1
  <2>7. QED
    BY <2>1, <2>2, <2>3, <2>4, <2>5, <2>6 DEF AtWork
<1>7. QED
  BY <1>3, <1>4, <1>5, <1>6 DEF CheckerStep, CheckRow, WriteLedger, CallFails, Decide

\* A pass does not disturb what another knows of its page.
LEMMA OthersStayAtWork ==
  ASSUME SettleTypeOK, NEW p \in Passes, AtWork(p), RowsMove(p), PagesMove(p),
         NEW q \in Passes, q # p, AtWork(q), PagesApart
  PROVE  AtWork(q)'
<1>1. /\ Page(q)' = Page(q) /\ row'[q] = row[q] /\ todo'[q] = todo[q]
      /\ passPc'[q] = passPc[q] /\ seen'[q] = seen[q]
      /\ contested \subseteq contested'
  BY DEF PagesMove
<1>2. \A n \in Page(q) : n \in Dispatches
  BY DEF Page, SettleTypeOK
<1>3. ASSUME NEW n \in Page(q)
      PROVE  /\ pendingTx'[n] # "none"
             /\ pendingTx[n] \in Verdicts => pendingTx'[n] \in Verdicts
  <2>1. pendingTx[n] # "none"
    BY DEF AtWork
  <2>2. n # row[p] \/ passPc[p] # "settle" => pendingTx'[n] = pendingTx[n]
    BY <1>2, <1>3 DEF RowsMove
  <2>3. n = row[p] /\ passPc[p] = "settle" =>
          pendingTx'[n] \in {pendingTx[n], seen[p]} /\ seen[p] \in Verdicts
    BY DEF RowsMove, SettleTypeOK
  <2>4. QED
    BY <2>1, <2>2, <2>3 DEF Verdicts
<1>4. ASSUME NEW n \in Page(q), n \notin contested
      PROVE  pendingTx'[n] = pendingTx[n] /\ ledger'[n] = ledger[n]
  <2>1. n \notin Page(p)
    BY <1>4 DEF PagesApart
  <2>2. n # row[p] \/ passPc[p] \notin {"settle", "ledger"}
    BY <2>1, RowOnPage
  <2>3. QED
    BY <1>2, <1>4, <2>2 DEF RowsMove
<1>5. passPc[q] = "ledger" => row[q] \in Page(q)
  BY RowOnPage
<1>6. passPc[q] = "ledger" => pendingTx'[row[q]] \in Verdicts
  BY <1>3, <1>5 DEF AtWork
<1>7. QED
  BY <1>1, <1>3, <1>4, <1>6 DEF AtWork

\* No step makes the tables contradict each other or takes back a verdict, but
\* on a contested row.
LEMMA PassesStep ==
  SettleTypeOK /\ SettleTypeOK' /\ PassesInv /\ [SettleNext]_allVars => Kept
<1> SUFFICES ASSUME SettleTypeOK, SettleTypeOK', PassesInv, [SettleNext]_allVars
             PROVE  Kept
  OBVIOUS
<1>1. TradeTypeOK /\ \A n \in Dispatches : Recorded(n) /\ Announced(n)
  BY DEF SettleTypeOK, PassesInv
<1>2. ASSUME [TradeNext]_tradeVars, UNCHANGED contested,
             \/ UNCHANGED <<passPc, row, todo, seen>>
             \/ \A p \in Passes : passPc'[p] = "idle" /\ row'[p] = NoDispatch /\ todo'[p] = {}
      PROVE  Kept
  <2>1. \A n \in Dispatches : Recorded(n)' /\ Announced(n)' /\ RowStays(n)
    BY <1>1, <1>2, EngineKeepsRecords
  <2>2. CASE UNCHANGED <<passPc, row, todo, seen>>
    <3>1. \A p \in Passes : Page(p)' = Page(p) /\ Page(p) \subseteq Dispatches
      BY <2>2 DEF Page, SettleTypeOK
    <3>2. ASSUME NEW p \in Passes
          PROVE  AtWork(p)'
      <4>1. AtWork(p)
        BY DEF PassesInv
      <4>2. \A n \in Page(p) : pendingTx'[n] = pendingTx[n]
        BY <2>1, <3>1, <4>1 DEF AtWork, RowStays
      <4>3. \A n \in Page(p) : ledger[n] = "PENDING" => ledger'[n] = "PENDING"
        BY <2>1, <3>1 DEF RowStays
      <4>4. passPc[p] = "ledger" => row[p] \in Page(p)
        BY RowOnPage
      <4>5. QED
        BY <1>2, <2>2, <3>1, <4>1, <4>2, <4>3, <4>4 DEF AtWork
    <3>3. PagesApart'
      BY <1>2, <3>1 DEF PassesInv, PagesApart
    <3>4. QED
      BY <2>1, <3>2, <3>3 DEF Kept, PassesInv, RowStays, VerdictStays, Verdicts
  <2>3. CASE \A p \in Passes : passPc'[p] = "idle" /\ row'[p] = NoDispatch /\ todo'[p] = {}
    <3>1. \A p \in Passes : Page(p)' = {}
      BY <2>3 DEF Page
    <3>2. (\A p \in Passes : AtWork(p)') /\ PagesApart'
      BY <2>3, <3>1 DEF AtWork, PagesApart
    <3>3. QED
      BY <2>1, <3>2 DEF Kept, PassesInv, RowStays, VerdictStays, Verdicts
  <2>4. QED
    BY <1>2, <2>2, <2>3
<1>3. ASSUME NEW d \in Deliveries, EngineStep(d)
      PROVE  Kept
  BY <1>2, <1>3 DEF EngineStep, passVars, TradeNext
<1>4. ASSUME NEW n \in Dispatches, Land(n) \/ Grow(n)
      PROVE  Kept
  BY <1>2, <1>4 DEF Land, Grow, settleVars, passVars, TradeNext
<1>5. CASE SettleCrash
  BY <1>2, <1>5 DEF SettleCrash, TradeNext
<1>6. CASE UNCHANGED allVars
  BY <1>2, <1>6 DEF allVars, settleVars, passVars
<1>7. ASSUME NEW m \in Dispatches, CleanupPending(m)
      PROVE  Kept
  <2>1. /\ UNCHANGED <<engineVars, ledger, inbox, passPc, row, todo, seen, contested>>
        /\ \A p \in Passes : passPc[p] = "idle"
        /\ \A n \in Dispatches : pendingTx'[n] \in {pendingTx[n], "none"}
    BY <1>1, <1>7 DEF CleanupPending, settleVars, passVars, TradeTypeOK, DbTypeOK
  <2>2. \A n \in Dispatches : Recorded(n)' /\ Announced(n)' /\ VerdictStays(n)
    BY <1>1, <2>1 DEF engineVars, runVars, memoryVars, Recorded, Announced, VerdictStays,
       Untracked, Unbooked, At, Verdicts
  <2>3. \A p \in Passes : Page(p) = {} /\ Page(p)' = {} /\ AtWork(p)
    BY <2>1 DEF PassesInv, AtWork, Page
  <2>4. (\A p \in Passes : AtWork(p)') /\ PagesApart'
    BY <2>1, <2>3 DEF AtWork, PagesApart
  <2>5. QED
    BY <2>2, <2>4 DEF Kept, PassesInv
<1>8. ASSUME NEW p \in Passes, CheckerStep(p)
      PROVE  Kept
  <2>1. AtWork(p) /\ RowsMove(p) /\ PagesMove(p)
    BY <1>8, CheckerRowsMove, CheckerPages DEF PassesInv
  <2>2. \A n \in Dispatches : Recorded(n)' /\ Announced(n)' /\ VerdictStays(n)
    BY <1>1, <2>1, PassKeepsRecords DEF PagesMove
  <2>3. AtWork(p)'
    BY <1>1, <1>8, <2>1, PassStaysAtWork
  <2>4. \A q \in Passes : q # p => AtWork(q)'
    BY <2>1, OthersStayAtWork DEF PassesInv
  <2>5. PagesApart'
    BY <2>1 DEF PassesInv, PagesApart, PagesMove
  <2>6. QED
    BY <2>2, <2>3, <2>4, <2>5 DEF Kept, PassesInv
<1>9. QED
  BY <1>3, <1>4, <1>5, <1>6, <1>7, <1>8 DEF SettleNext, CheckerStep

\* Before anything happened no table has a row and nobody was told anything.
LEMMA PassesInit == SettleInit => PassesInv
<1> SUFFICES ASSUME SettleInit
             PROVE  PassesInv
  OBVIOUS
<1>1. \A n \in Dispatches : Recorded(n) /\ Announced(n)
  <2>1. ASSUME NEW n \in Dispatches
        PROVE  /\ pendingTx[n] = "none" /\ ledger[n] = "none" /\ inbox[n] = <<>>
               /\ reported[n] = "none" /\ ~At(n, {"activity", "count", "track"})
               /\ ~At(n, {"track"})
    <3>1. n[1] \in Deliveries
      BY TradeAssumption
    <3>2. QED
      BY <3>1 DEF SettleInit, TradeInit, At
  <2>2. QED
    BY <2>1 DEF Recorded, Announced, Verdicts
<1>2. \A p \in Passes : Page(p) = {}
  BY DEF SettleInit, Page
<1>3. (\A p \in Passes : AtWork(p)) /\ PagesApart
  BY <1>2 DEF SettleInit, AtWork, PagesApart
<1>4. QED
  BY <1>1, <1>3 DEF PassesInv

\* However passes overlap, whatever call fails and wherever the process stops, a
\* row open in pending_txs is open in the ledger; and of a row that no two passes
\* selected at once, pending_txs, the ledger and the user's messages give the
\* same verdict (index.ts:392-449).
THEOREM TablesAlwaysAgree == SettleSpec => []TablesAgree
<1>1. ASSUME PassesInv
      PROVE  TablesAgree
  <2>1. ASSUME NEW n \in Dispatches, n \notin contested, {pendingTx[n], ledger[n]} = Verdicts
        PROVE  FALSE
    <3>1. pendingTx[n] \in Verdicts /\ ledger[n] \in Verdicts
      BY <2>1
    <3>2. pendingTx[n] = ledger[n]
      BY <1>1, <2>1, <3>1 DEF PassesInv, Recorded
    <3>3. "CONFIRMED" = pendingTx[n] /\ "FAILED" = pendingTx[n]
      BY <2>1, <3>2 DEF Verdicts
    <3>4. QED
      BY <3>3
  <2>2. QED
    BY <1>1, <2>1 DEF PassesInv, Recorded, Announced, TablesAgree
<1>2. SettleTypeOK /\ SettleTypeOK' /\ PassesInv /\ [SettleNext]_allVars => PassesInv'
  BY PassesStep DEF Kept
<1>3. QED
  BY <1>1, <1>2, PassesInit, SettleInvariant, PTL DEF SettleSpec

\* However passes overlap, a verdict in either table is final, a settled row is
\* at most deleted, unless two passes selected the row before either settled it
\* (index.ts:392-449, pendingTxRepo.ts:55-79).
THEOREM VerdictsAreFinal == SettleSpec => VerdictIsFinal
<1>1. /\ SettleTypeOK /\ SettleTypeOK' /\ PassesInv /\ [SettleNext]_allVars
      => /\ PassesInv'
         /\ [\A n \in Dispatches \ contested :
               /\ pendingTx[n] \in Verdicts => pendingTx'[n] \in {pendingTx[n], "none"}
               /\ ledger[n] \in Verdicts => ledger'[n] = ledger[n]]_allVars
  BY PassesStep DEF Kept, VerdictStays
<1>2. QED
  BY <1>1, PassesInit, SettleInvariant, PTL DEF SettleSpec, VerdictIsFinal
=============================================================================
