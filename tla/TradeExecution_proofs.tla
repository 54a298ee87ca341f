----------------------- MODULE TradeExecution_proofs -----------------------
(***************************************************************************)
(* Proofs about TradeExecution for any number of deliveries, conditions,   *)
(* signatures, wallets and restarts.  TradeInv is inductive.  The lock     *)
(* part of it is inherited: every step of the engine is a step of          *)
(* WalletLock or leaves the lock alone.                                    *)
(***************************************************************************)
EXTENDS TradeExecution, WalletLock_proofs, SequenceTheorems, FiniteSetTheorems

\* A delivery at a TRADE action is at a dispatch the lock knows.
LEMMA TradeInDispatches ==
  ASSUME TradeTypeOK, AtTradeAction, NEW d \in Deliveries,
         pc[d] \in Trading \/ (HasAction(d) /\ ActionOf(d) = "TRADE")
  PROVE  Trade(d) \in Dispatches
<1>1. HasAction(d)
  BY DEF AtTradeAction
<1>2. Cond(d) \in Conds /\ act[d] \in Nat \ {0}
  BY DEF TradeTypeOK, RunTypeOK, Cond
<1>3. act[d] \in 1..MaxActions
  BY <1>1, <1>2, TradeAssumption DEF HasAction
<1>4. QED
  BY <1>3, TradeAssumption DEF Trade

\* Every step of the engine is a step of the lock, or does not touch it.
LEMMA StepRefinesLock ==
  TradeTypeOK /\ AtTradeAction /\ [TradeNext]_tradeVars => [LockNext]_lockVars
<1> SUFFICES ASSUME TradeTypeOK, AtTradeAction, [TradeNext]_tradeVars
             PROVE  [LockNext]_lockVars
  OBVIOUS
<1>1. ASSUME NEW d \in Deliveries, DispatchTrade(d)
      PROVE  [LockNext]_lockVars
  <2>1. Trade(d) \in Dispatches /\ WalletOf[Cond(d)] \in Wallets
    BY <1>1, TradeInDispatches, TradeAssumption DEF DispatchTrade, TradeTypeOK, RunTypeOK, Cond
  <2>2. Request(Trade(d), WalletOf[Cond(d)]) \/ UNCHANGED lockVars
    BY <1>1 DEF DispatchTrade
  <2>3. QED
    BY <2>1, <2>2 DEF LockNext
<1>2. ASSUME NEW d \in Deliveries, Enter(d) \/ LeaveSection(d) \/ AfterSection(d)
      PROVE  [LockNext]_lockVars
  <2>1. Trade(d) \in Dispatches
    BY <1>2, TradeInDispatches DEF Enter, LeaveSection, AfterSection, Trading, Holding
  <2>2. Acquire(Trade(d)) \/ Settle(Trade(d)) \/ Release(Trade(d))
    BY <1>2 DEF Enter, LeaveSection, AfterSection
  <2>3. QED
    BY <2>1, <2>2 DEF LockNext
<1>3. ASSUME NEW d \in Deliveries,
             \/ Deliver(d) \/ Claim(d) \/ SkipAction(d) \/ StartWebhook(d)
             \/ PostWebhook(d) \/ Notify(d)
      PROVE  [LockNext]_lockVars
  BY <1>3 DEF Deliver, Claim, SkipAction, StartWebhook, PostWebhook, Notify
<1>4. ASSUME NEW d \in Deliveries,
             \/ TakeSlot(d) \/ CheckBalance(d) \/ BuildSwap(d) \/ SendTransaction(d)
             \/ Confirm(d) \/ RecordTrade(d) \/ RecordActivity(d)
             \/ CountExecution(d) \/ TrackPending(d)
      PROVE  [LockNext]_lockVars
  BY <1>4 DEF TakeSlot, CheckBalance, BuildSwap, SendTransaction, Confirm,
     RecordTrade, RecordActivity, CountExecution, TrackPending, sectionVars,
     BreakOff, Answered, bookVars
<1>5. ASSUME NEW n \in Dispatches, ChainStep(n)
      PROVE  [LockNext]_lockVars
  BY <1>5 DEF ChainStep
<1>6. ASSUME NEW s \in Sigs, Age(s)
      PROVE  [LockNext]_lockVars
  BY <1>6 DEF Age
<1>7. CASE CleanupProcessed
  BY <1>7 DEF CleanupProcessed
<1>8. CASE Crash
  BY <1>8 DEF Crash, LockNext
<1>9. CASE UNCHANGED tradeVars
  BY <1>9 DEF tradeVars
<1>10. QED
  BY <1>1, <1>2, <1>3, <1>4, <1>5, <1>6, <1>7, <1>8, <1>9 DEF TradeNext, RunStep

-----------------------------------------------------------------------------
(* Type correctness                                                        *)

\* The submission cache holds keys before and after a trim.
LEMMA TrimmedType ==
  ASSUME NEW s \in Seq(Conds \X Sigs), TradeCacheMax \in Nat
  PROVE  Trimmed(s) \in Seq(Conds \X Sigs)
<1>1. CASE Len(s) > TradeCacheMax
  <2> DEFINE m == (Len(s) \div 2) + 1
  <2>1. Len(s) \in Nat /\ m \in Int /\ m >= 1
    OBVIOUS
  <2>2. \A i \in m..Len(s) : s[i] \in Conds \X Sigs
    BY <2>1
  <2> HIDE DEF m
  <2>4. SubSeq(s, m, Len(s)) \in Seq(Conds \X Sigs)
    BY <2>1, <2>2, SubSeqProperties
  <2>3. QED
    BY <1>1, <2>4 DEF Trimmed, m
<1>2. CASE ~(Len(s) > TradeCacheMax)
  BY <1>2 DEF Trimmed
<1>3. QED
  BY <1>1, <1>2

\* markTradeSubmitted leaves the cache, the progress and the report typed.
LEMMA MarkType ==
  ASSUME TradeTypeOK, NEW d \in Deliveries, MarkTradeSubmitted(d)
  PROVE  /\ pc' \in [Deliveries -> PCs]
         /\ reported' \in [Dispatches -> {"none", "success", "pending", "failed"}]
         /\ tradeCache' \in Seq(Conds \X Sigs)
<1>1. match[d] \in Conds \X Sigs /\ tradeCache \in Seq(Conds \X Sigs)
  BY DEF TradeTypeOK, RunTypeOK, MemoryTypeOK
<1>2. TradeCacheMax \in Nat
  BY TradeAssumption
<1>3. Append(tradeCache, match[d]) \in Seq(Conds \X Sigs)
  BY <1>1, AppendProperties
<1>4. tradeCache' \in Seq(Conds \X Sigs)
  BY <1>1, <1>2, <1>3, TrimmedType DEF MarkTradeSubmitted
<1>5. pc' \in [Deliveries -> PCs]
  BY DEF MarkTradeSubmitted, TradeTypeOK, RunTypeOK, Proceed, Leave, Goto, PCs,
     Claimed, Running, Trading, Holding
<1>6. reported' \in [Dispatches -> {"none", "success", "pending", "failed"}]
  BY DEF MarkTradeSubmitted, TradeTypeOK, MemoryTypeOK, Proceed, Leave, Report
<1>7. QED
  BY <1>4, <1>5, <1>6

\* The action loop moves on to an action that exists or past the last one.
LEMMA AdvanceType ==
  ASSUME RunTypeOK, NEW d \in Deliveries, Advance(d)
  PROVE  pc' \in [Deliveries -> PCs] /\ act' \in [Deliveries -> Nat \ {0}]
<1>1. act[d] + 1 \in Nat \ {0}
  BY DEF RunTypeOK
<1>2. act' \in [Deliveries -> Nat \ {0}]
  BY <1>1 DEF RunTypeOK, Advance
<1>3. pc' \in [Deliveries -> PCs]
  BY DEF RunTypeOK, Advance, Goto, PCs, Claimed, Running
<1>4. QED
  BY <1>2, <1>3

\* Every step keeps what a delivery remembers of itself typed.
LEMMA RunTypeStep == TradeTypeOK /\ [TradeNext]_tradeVars => RunTypeOK'
<1> SUFFICES ASSUME TradeTypeOK, [TradeNext]_tradeVars
             PROVE  RunTypeOK'
  OBVIOUS
<1> USE DEF TradeTypeOK, RunTypeOK, Goto, Proceed, Leave, PCs, Claimed, Running,
      Trading, Holding, runVars, sectionVars
<1>1. ASSUME NEW d \in Deliveries, Deliver(d) \/ Claim(d)
      PROVE  RunTypeOK'
  BY <1>1 DEF Deliver, Claim
<1>2. ASSUME NEW d \in Deliveries, StartWebhook(d)
      PROVE  RunTypeOK'
  BY <1>2 DEF StartWebhook
<1>3. ASSUME NEW d \in Deliveries, PostWebhook(d)
      PROVE  RunTypeOK'
  BY <1>3, AdvanceType DEF PostWebhook, MaxAttempts
<1>4. ASSUME NEW d \in Deliveries, SkipAction(d) \/ AfterSection(d)
      PROVE  RunTypeOK'
  BY <1>4, AdvanceType DEF SkipAction, AfterSection
<1>5. ASSUME NEW d \in Deliveries, DispatchTrade(d)
      PROVE  RunTypeOK'
  BY <1>5, AdvanceType DEF DispatchTrade
<1>6. ASSUME NEW d \in Deliveries, Notify(d) \/ LeaveSection(d)
      PROVE  RunTypeOK'
  BY <1>6 DEF Notify, LeaveSection
<1>7. ASSUME NEW d \in Deliveries, Enter(d) \/ TakeSlot(d)
      PROVE  RunTypeOK'
  BY <1>7, MarkType DEF Enter, TakeSlot
<1>8. ASSUME NEW d \in Deliveries,
             \/ CheckBalance(d) \/ BuildSwap(d) \/ SendTransaction(d)
             \/ Confirm(d)
      PROVE  RunTypeOK'
  BY <1>8 DEF CheckBalance, BuildSwap, SendTransaction, Confirm
<1>9. ASSUME NEW d \in Deliveries, RecordTrade(d) \/ RecordActivity(d)
      PROVE  RunTypeOK'
  BY <1>9 DEF RecordTrade, RecordActivity, AfterActivity, AfterCount,
     BreakOff, Answered, bookVars
<1>10. ASSUME NEW d \in Deliveries, CountExecution(d) \/ TrackPending(d)
       PROVE  RunTypeOK'
  BY <1>10 DEF CountExecution, TrackPending, AfterCount, BreakOff, Answered, bookVars
<1>11. ASSUME NEW n \in Dispatches, ChainStep(n)
       PROVE  RunTypeOK'
  BY <1>11 DEF ChainStep
<1>12. ASSUME NEW s \in Sigs, Age(s)
       PROVE  RunTypeOK'
  BY <1>12 DEF Age
<1>13. CASE CleanupProcessed
  BY <1>13 DEF CleanupProcessed
<1>14. CASE Crash
  BY <1>14 DEF Crash
<1>15. CASE UNCHANGED tradeVars
  BY <1>15 DEF tradeVars
<1>16. QED
  BY <1>1, <1>2, <1>3, <1>4, <1>5, <1>6, <1>7, <1>8, <1>9, <1>10, <1>11, <1>12,
     <1>13, <1>14, <1>15 DEF TradeNext, RunStep

\* Every step keeps results, reports and the submission cache typed.
LEMMA MemoryTypeStep == TradeTypeOK /\ [TradeNext]_tradeVars => MemoryTypeOK'
<1> SUFFICES ASSUME TradeTypeOK, [TradeNext]_tradeVars
             PROVE  MemoryTypeOK'
  OBVIOUS
<1> USE DEF TradeTypeOK, MemoryTypeOK, Statuses, Proceed, Leave, Report, memoryVars
<1>1. ASSUME NEW d \in Deliveries,
             \/ Deliver(d) \/ Claim(d) \/ StartWebhook(d) \/ PostWebhook(d)
             \/ SkipAction(d)
      PROVE  MemoryTypeOK'
  BY <1>1 DEF Deliver, Claim, StartWebhook, PostWebhook, SkipAction
<1>2. ASSUME NEW d \in Deliveries, AfterSection(d) \/ LeaveSection(d) \/ Notify(d)
      PROVE  MemoryTypeOK'
  BY <1>2 DEF AfterSection, LeaveSection, Notify
<1>3. ASSUME NEW d \in Deliveries, DispatchTrade(d)
      PROVE  MemoryTypeOK'
  BY <1>3 DEF DispatchTrade
<1>4. ASSUME NEW d \in Deliveries, Enter(d) \/ TakeSlot(d)
      PROVE  MemoryTypeOK'
  BY <1>4, MarkType DEF Enter, TakeSlot
<1>5. ASSUME NEW d \in Deliveries,
             CheckBalance(d) \/ BuildSwap(d) \/ SendTransaction(d)
      PROVE  MemoryTypeOK'
  BY <1>5 DEF CheckBalance, BuildSwap, SendTransaction, SetResult
<1>6. ASSUME NEW d \in Deliveries, Confirm(d)
      PROVE  MemoryTypeOK'
  BY <1>6 DEF Confirm, SetResult
<1>7. ASSUME NEW d \in Deliveries, RecordTrade(d) \/ RecordActivity(d)
      PROVE  MemoryTypeOK'
  BY <1>7 DEF RecordTrade, RecordActivity, AfterActivity, AfterCount,
     BreakOff, Answered, bookVars
<1>8. ASSUME NEW d \in Deliveries, CountExecution(d) \/ TrackPending(d)
      PROVE  MemoryTypeOK'
  BY <1>8 DEF CountExecution, TrackPending, AfterCount, BreakOff, Answered, bookVars
<1>9. ASSUME NEW n \in Dispatches, ChainStep(n)
      PROVE  MemoryTypeOK'
  BY <1>9 DEF ChainStep
<1>10. ASSUME NEW s \in Sigs, Age(s)
       PROVE  MemoryTypeOK'
  BY <1>10 DEF Age
<1>11. CASE CleanupProcessed
  BY <1>11 DEF CleanupProcessed
<1>12. CASE Crash
  BY <1>12, EmptySeq DEF Crash
<1>13. CASE UNCHANGED tradeVars
  BY <1>13 DEF tradeVars
<1>14. QED
  BY <1>1, <1>2, <1>3, <1>4, <1>5, <1>6, <1>7, <1>8, <1>9, <1>10, <1>11, <1>12,
     <1>13 DEF TradeNext, RunStep

\* A delivery that writes its activity row is at a trade of the model.
LEMMA StepTradeInDispatches ==
  ASSUME TradeTypeOK, AtTradeAction, NEW d \in Deliveries, pc[d] \in Holding
  PROVE  Trade(d) \in Dispatches
BY TradeInDispatches DEF Trading

\* Every step, failed database calls included, keeps the tables typed.
LEMMA DbTypeStep == TradeTypeOK /\ AtTradeAction /\ [TradeNext]_tradeVars => DbTypeOK'
<1> SUFFICES ASSUME TradeTypeOK, AtTradeAction, [TradeNext]_tradeVars
             PROVE  DbTypeOK'
  OBVIOUS
<1> USE DEF TradeTypeOK, DbTypeOK, dbVars
<1>1. ASSUME NEW d \in Deliveries,
             \/ Deliver(d) \/ StartWebhook(d) \/ PostWebhook(d) \/ SkipAction(d)
             \/ DispatchTrade(d)
      PROVE  DbTypeOK'
  BY <1>1 DEF Deliver, StartWebhook, PostWebhook, SkipAction, DispatchTrade
<1>2. ASSUME NEW d \in Deliveries,
             AfterSection(d) \/ LeaveSection(d) \/ Notify(d) \/ Enter(d)
      PROVE  DbTypeOK'
  BY <1>2 DEF AfterSection, LeaveSection, Notify, Enter
<1>3. ASSUME NEW d \in Deliveries,
             \/ CheckBalance(d) \/ BuildSwap(d) \/ SendTransaction(d)
             \/ Confirm(d)
      PROVE  DbTypeOK'
  BY <1>3 DEF CheckBalance, BuildSwap, SendTransaction, Confirm
<1>4. ASSUME NEW d \in Deliveries, Claim(d)
      PROVE  DbTypeOK'
  BY <1>4 DEF Claim, RunTypeOK
<1>5. ASSUME NEW d \in Deliveries, TakeSlot(d)
      PROVE  DbTypeOK'
  BY <1>5 DEF TakeSlot, Increment
<1>6. ASSUME NEW d \in Deliveries, RecordTrade(d)
      PROVE  DbTypeOK'
  BY <1>6 DEF RecordTrade, MemoryTypeOK, BreakOff, Answered, bookVars
<1>7. ASSUME NEW d \in Deliveries, RecordActivity(d)
      PROVE  DbTypeOK'
  BY <1>7, StepTradeInDispatches DEF RecordActivity, Holding, BreakOff, Answered, bookVars
<1>8. ASSUME NEW d \in Deliveries, CountExecution(d)
      PROVE  DbTypeOK'
  BY <1>8 DEF CountExecution, Increment, BreakOff, Answered, bookVars
<1>9. ASSUME NEW d \in Deliveries, TrackPending(d)
      PROVE  DbTypeOK'
  BY <1>9 DEF TrackPending, BreakOff, Answered, bookVars
<1>10. ASSUME NEW n \in Dispatches, ChainStep(n)
       PROVE  DbTypeOK'
  BY <1>10 DEF ChainStep
<1>11. ASSUME NEW s \in Sigs, Age(s)
       PROVE  DbTypeOK'
  BY <1>11 DEF Age
<1>12. CASE CleanupProcessed
  BY <1>12 DEF CleanupProcessed
<1>13. CASE Crash
  BY <1>13 DEF Crash
<1>14. CASE UNCHANGED tradeVars
  BY <1>14 DEF tradeVars
<1>15. QED
  BY <1>1, <1>2, <1>3, <1>4, <1>5, <1>6, <1>7, <1>8, <1>9, <1>10, <1>11, <1>12,
     <1>13, <1>14 DEF TradeNext, RunStep

\* The value returned by incrementIfUnderLimit is a number.
LEMMA SlotType ==
  ASSUME TradeTypeOK, NEW d \in Deliveries
  PROVE  execCount[Cond(d)] + 1 \in Nat
<1>1. Cond(d) \in Conds
  BY DEF TradeTypeOK, RunTypeOK, Cond
<1>2. QED
  BY <1>1 DEF TradeTypeOK, DbTypeOK

\* Every step keeps the chain, the inbox and the histories typed.
LEMMA WorldTypeStep ==
  TradeTypeOK /\ AtTradeAction /\ [TradeNext]_tradeVars => WorldTypeOK'
<1> SUFFICES ASSUME TradeTypeOK, AtTradeAction, [TradeNext]_tradeVars
             PROVE  WorldTypeOK'
  OBVIOUS
<1> USE DEF TradeTypeOK, WorldTypeOK, Chain, worldVars
<1>1. ASSUME NEW d \in Deliveries,
             \/ Deliver(d) \/ Claim(d) \/ StartWebhook(d) \/ PostWebhook(d)
             \/ SkipAction(d) \/ DispatchTrade(d)
      PROVE  WorldTypeOK'
  BY <1>1 DEF Deliver, Claim, StartWebhook, PostWebhook, SkipAction, DispatchTrade
<1>2. ASSUME NEW d \in Deliveries,
             \/ AfterSection(d) \/ LeaveSection(d) \/ Enter(d) \/ CheckBalance(d)
             \/ BuildSwap(d) \/ Confirm(d)
      PROVE  WorldTypeOK'
  BY <1>2 DEF AfterSection, LeaveSection, Enter, CheckBalance, BuildSwap, Confirm
<1>3. ASSUME NEW d \in Deliveries,
             \/ RecordTrade(d) \/ RecordActivity(d) \/ CountExecution(d)
             \/ TrackPending(d)
      PROVE  WorldTypeOK'
  <2>1. Trade(d) \in Dispatches
    BY <1>3, StepTradeInDispatches DEF RecordTrade, RecordActivity, CountExecution,
       TrackPending, Holding
  <2>2. QED
    BY <1>3, <2>1 DEF RecordTrade, RecordActivity, CountExecution, TrackPending,
       BreakOff, Answered, bookVars
<1>4. ASSUME NEW d \in Deliveries, Notify(d)
      PROVE  WorldTypeOK'
  BY <1>4 DEF Notify, MessageFor
<1>5. ASSUME NEW d \in Deliveries, TakeSlot(d)
      PROVE  WorldTypeOK'
  BY <1>5, SlotType DEF TakeSlot
<1>6. ASSUME NEW d \in Deliveries, SendTransaction(d)
      PROVE  WorldTypeOK'
  BY <1>6 DEF SendTransaction
<1>7. ASSUME NEW n \in Dispatches, ChainStep(n)
      PROVE  WorldTypeOK'
  BY <1>7 DEF ChainStep
<1>8. ASSUME NEW s \in Sigs, Age(s)
      PROVE  WorldTypeOK'
  BY <1>8 DEF Age
<1>9. CASE CleanupProcessed
  BY <1>9 DEF CleanupProcessed
<1>10. CASE Crash
  BY <1>10 DEF Crash
<1>11. CASE UNCHANGED tradeVars
  BY <1>11 DEF tradeVars
<1>12. QED
  BY <1>1, <1>2, <1>3, <1>4, <1>5, <1>6, <1>7, <1>8, <1>9, <1>10, <1>11 DEF
     TradeNext, RunStep

-----------------------------------------------------------------------------
(* How a delivery moves                                                    *)

\* A delivery enters the TRADE case only at a TRADE action, and stays at that
\* action while inside; it becomes claimed only by inserting its match; it is
\* only delivered while its signature is recent.
Moves(e) ==
  /\ match'[e] = match[e]
  /\ pc'[e] \in Trading =>
       /\ act'[e] = act[e]
       /\ pc[e] \in Trading \/ (HasAction(e) /\ ActionOf(e) = "TRADE")
  /\ pc'[e] \in Claimed => pc[e] \in Claimed \/ Claim(e)
  /\ pc[e] \in Claimed => pc'[e] \in Claimed
  /\ pc'[e] = "claiming" => pc[e] = "claiming" \/ Sig(e) \notin retired

\* A delivery changes its place in executeMatch only in these ways.
LEMMA MovesStep == TradeTypeOK /\ [TradeNext]_tradeVars => \A e \in Deliveries : Moves(e)
<1> SUFFICES ASSUME TradeTypeOK, [TradeNext]_tradeVars, NEW e \in Deliveries
             PROVE  Moves(e)
  OBVIOUS
<1> USE DEF TradeTypeOK, RunTypeOK, Moves, Goto, Proceed, Leave, Claimed, Running,
      Trading, Holding, runVars, sectionVars
<1>1. ASSUME NEW d \in Deliveries, Deliver(d)
      PROVE  Moves(e)
  BY <1>1 DEF Deliver
<1>2. ASSUME NEW d \in Deliveries, Claim(d)
      PROVE  Moves(e)
  BY <1>2 DEF Claim
<1>3. ASSUME NEW d \in Deliveries,
             SkipAction(d) \/ StartWebhook(d) \/ PostWebhook(d)
      PROVE  Moves(e)
  BY <1>3 DEF SkipAction, StartWebhook, PostWebhook, Advance
<1>4. ASSUME NEW d \in Deliveries, DispatchTrade(d)
      PROVE  Moves(e)
  BY <1>4 DEF DispatchTrade, Advance
<1>5. ASSUME NEW d \in Deliveries, Enter(d) \/ TakeSlot(d)
      PROVE  Moves(e)
  BY <1>5 DEF Enter, TakeSlot, MarkTradeSubmitted
<1>6. ASSUME NEW d \in Deliveries,
             \/ CheckBalance(d) \/ BuildSwap(d) \/ SendTransaction(d)
             \/ Confirm(d)
      PROVE  Moves(e)
  BY <1>6 DEF CheckBalance, BuildSwap, SendTransaction, Confirm
<1>7. ASSUME NEW d \in Deliveries, RecordTrade(d) \/ RecordActivity(d)
      PROVE  Moves(e)
  BY <1>7 DEF RecordTrade, RecordActivity, AfterActivity, AfterCount,
     BreakOff, Answered, bookVars
<1>8. ASSUME NEW d \in Deliveries, CountExecution(d) \/ TrackPending(d)
      PROVE  Moves(e)
  BY <1>8 DEF CountExecution, TrackPending, AfterCount, BreakOff, Answered, bookVars
<1>9. ASSUME NEW d \in Deliveries, LeaveSection(d) \/ AfterSection(d) \/ Notify(d)
      PROVE  Moves(e)
  BY <1>9 DEF LeaveSection, AfterSection, Notify, Advance
<1>10. ASSUME NEW n \in Dispatches, ChainStep(n)
       PROVE  Moves(e)
  BY <1>10 DEF ChainStep
<1>11. ASSUME NEW s \in Sigs, Age(s)
       PROVE  Moves(e)
  BY <1>11 DEF Age
<1>12. CASE CleanupProcessed
  BY <1>12 DEF CleanupProcessed
<1>13. CASE Crash
  BY <1>13 DEF Crash
<1>14. CASE UNCHANGED tradeVars
  BY <1>14 DEF tradeVars
<1>15. QED
  BY <1>1, <1>2, <1>3, <1>4, <1>5, <1>6, <1>7, <1>8, <1>9, <1>10, <1>11, <1>12,
     <1>13, <1>14 DEF TradeNext, RunStep

\* A delivery stays at its TRADE action while it is in the TRADE case.
LEMMA AtTradeActionStep ==
  TradeTypeOK /\ AtTradeAction /\ [TradeNext]_tradeVars => AtTradeAction'
BY MovesStep DEF Moves, AtTradeAction, HasAction, ActionOf, Cond

-----------------------------------------------------------------------------
(* Claims                                                                  *)

\* processed_events loses only rows of retired signatures, and a signature
\* retires only when none of its deliveries is being claimed.
ClaimsKept ==
  /\ \A q \in processed : q \in processed' \/ q[2] \in retired
  /\ retired \subseteq retired'
  /\ \A d \in Deliveries :
       Sig(d) \in retired' /\ Sig(d) \notin retired => pc[d] # "claiming" /\ pc' = pc

\* A row of processed_events goes only when its signature is retired.
LEMMA ClaimsKeptStep == TradeTypeOK /\ [TradeNext]_tradeVars => ClaimsKept
<1> SUFFICES ASSUME TradeTypeOK, [TradeNext]_tradeVars
             PROVE  ClaimsKept
  OBVIOUS
<1> USE DEF ClaimsKept, dbVars, worldVars
<1>1. ASSUME NEW d \in Deliveries, Claim(d)
      PROVE  ClaimsKept
  BY <1>1 DEF Claim
<1>2. ASSUME NEW d \in Deliveries,
             \/ Deliver(d) \/ SkipAction(d) \/ StartWebhook(d) \/ PostWebhook(d)
             \/ DispatchTrade(d)
      PROVE  ClaimsKept
  BY <1>2 DEF Deliver, SkipAction, StartWebhook, PostWebhook, DispatchTrade
<1>3. ASSUME NEW d \in Deliveries,
             \/ Enter(d) \/ TakeSlot(d) \/ CheckBalance(d) \/ BuildSwap(d)
             \/ SendTransaction(d) \/ Confirm(d)
      PROVE  ClaimsKept
  BY <1>3 DEF Enter, TakeSlot, CheckBalance, BuildSwap, SendTransaction, Confirm
<1>4. ASSUME NEW d \in Deliveries,
             \/ RecordTrade(d) \/ RecordActivity(d) \/ CountExecution(d)
             \/ TrackPending(d)
      PROVE  ClaimsKept
  BY <1>4 DEF RecordTrade, RecordActivity, CountExecution, TrackPending,
     BreakOff, Answered, bookVars
<1>5. ASSUME NEW d \in Deliveries, LeaveSection(d) \/ AfterSection(d) \/ Notify(d)
      PROVE  ClaimsKept
  BY <1>5 DEF LeaveSection, AfterSection, Notify
<1>6. ASSUME NEW n \in Dispatches, ChainStep(n)
      PROVE  ClaimsKept
  BY <1>6 DEF ChainStep
<1>7. ASSUME NEW s \in Sigs, Age(s)
      PROVE  ClaimsKept
  BY <1>7 DEF Age
<1>8. CASE CleanupProcessed
  BY <1>8 DEF CleanupProcessed, Expired
<1>9. CASE Crash
  BY <1>9 DEF Crash
<1>10. CASE UNCHANGED tradeVars
  BY <1>10 DEF tradeVars
<1>11. QED
  BY <1>1, <1>2, <1>3, <1>4, <1>5, <1>6, <1>7, <1>8, <1>9, <1>10 DEF TradeNext,
     RunStep

\* A claimed match stays recorded until it is no longer delivered.
LEMMA ClaimRecordedStep ==
  TradeTypeOK /\ ClaimRecorded /\ [TradeNext]_tradeVars => ClaimRecorded'
<1> SUFFICES ASSUME TradeTypeOK, ClaimRecorded, [TradeNext]_tradeVars,
                    NEW d \in Deliveries
             PROVE  /\ pc'[d] \in Claimed => match'[d] \in processed' \/ Sig(d)' \in retired'
                    /\ pc'[d] = "claiming" => Sig(d)' \notin retired'
  BY DEF ClaimRecorded
<1>1. Moves(d) /\ ClaimsKept
  BY MovesStep, ClaimsKeptStep
<1>2. match'[d] = match[d] /\ Sig(d)' = Sig(d)
  BY <1>1 DEF Moves, Sig
<1>3. CASE Claim(d) /\ pc'[d] \in Claimed
  BY <1>2, <1>3 DEF Claim, IsNew, Goto, Claimed, Running, Trading, Holding, TradeTypeOK,
     RunTypeOK
<1>4. CASE pc[d] \in Claimed /\ pc'[d] \in Claimed
  BY <1>1, <1>2, <1>4 DEF ClaimRecorded, ClaimsKept, Sig, Claimed, Running, Trading, Holding
<1>5. CASE pc'[d] \notin Claimed
  BY <1>1, <1>2, <1>5 DEF Moves, ClaimRecorded, ClaimsKept
<1>6. QED
  BY <1>1, <1>3, <1>4, <1>5 DEF Moves

\* Only the delivery that inserts a match becomes its owner.
LEMMA ClaimedOnceStep ==
  TradeTypeOK /\ ClaimRecorded /\ ClaimedOnce /\ [TradeNext]_tradeVars => ClaimedOnce'
<1> SUFFICES ASSUME TradeTypeOK, ClaimRecorded, ClaimedOnce, [TradeNext]_tradeVars,
                    NEW d \in Deliveries, NEW e \in Deliveries,
                    pc'[d] \in Claimed, pc'[e] \in Claimed, match'[d] = match'[e], d # e
             PROVE  FALSE
  BY DEF ClaimedOnce
<1>1. Moves(d) /\ Moves(e) /\ match[d] = match[e]
  BY MovesStep DEF Moves
<1>2. ASSUME NEW x \in Deliveries, NEW y \in Deliveries, x # y, Claim(x),
             pc'[x] \in Claimed, pc[y] \in Claimed, match[x] = match[y]
      PROVE  FALSE
  BY <1>2 DEF Claim, IsNew, Goto, ClaimRecorded, Sig, TradeTypeOK, RunTypeOK, Claimed,
     Running, Trading, Holding
<1>3. ~(Claim(d) /\ pc[e] \notin Claimed)
  BY DEF Claim, Goto, TradeTypeOK, RunTypeOK
<1>4. QED
  BY <1>1, <1>2, <1>3 DEF Moves, ClaimedOnce

-----------------------------------------------------------------------------
(* Sends                                                                   *)

\* A transaction appears on the chain, and none disappears, only by a delivery
\* that is sending, which adds its own.
SentBySender ==
  \/ \A n \in Dispatches : Sent(n)' <=> Sent(n)
  \/ \E d \in Deliveries :
       /\ pc[d] = "send"
       /\ \A n \in Dispatches : Sent(n)' <=> Sent(n) \/ n = Trade(d)

\* The chain learns of a transaction only from a delivery at `send`.
LEMMA SentStep == TradeTypeOK /\ [TradeNext]_tradeVars => SentBySender
<1> SUFFICES ASSUME TradeTypeOK, [TradeNext]_tradeVars
             PROVE  SentBySender
  OBVIOUS
<1> USE DEF SentBySender, Sent, worldVars
<1>1. ASSUME NEW d \in Deliveries,
             \/ Deliver(d) \/ Claim(d) \/ SkipAction(d) \/ StartWebhook(d)
             \/ PostWebhook(d) \/ DispatchTrade(d)
      PROVE  SentBySender
  BY <1>1 DEF Deliver, Claim, SkipAction, StartWebhook, PostWebhook, DispatchTrade
<1>2. ASSUME NEW d \in Deliveries,
             \/ Enter(d) \/ TakeSlot(d) \/ CheckBalance(d) \/ BuildSwap(d)
             \/ Confirm(d)
      PROVE  SentBySender
  BY <1>2 DEF Enter, TakeSlot, CheckBalance, BuildSwap, Confirm
<1>3. ASSUME NEW d \in Deliveries, SendTransaction(d)
      PROVE  SentBySender
  BY <1>3 DEF SendTransaction, TradeTypeOK, WorldTypeOK
<1>4. ASSUME NEW d \in Deliveries,
             \/ RecordTrade(d) \/ RecordActivity(d) \/ CountExecution(d)
             \/ TrackPending(d)
      PROVE  SentBySender
  BY <1>4 DEF RecordTrade, RecordActivity, CountExecution, TrackPending,
     BreakOff, Answered, bookVars
<1>5. ASSUME NEW d \in Deliveries, LeaveSection(d) \/ AfterSection(d) \/ Notify(d)
      PROVE  SentBySender
  BY <1>5 DEF LeaveSection, AfterSection, Notify
<1>6. ASSUME NEW n \in Dispatches, ChainStep(n)
      PROVE  SentBySender
  BY <1>6 DEF ChainStep, TradeTypeOK, WorldTypeOK
<1>7. ASSUME NEW s \in Sigs, Age(s)
      PROVE  SentBySender
  BY <1>7 DEF Age
<1>8. CASE CleanupProcessed
  BY <1>8 DEF CleanupProcessed
<1>9. CASE Crash
  BY <1>9 DEF Crash
<1>10. CASE UNCHANGED tradeVars
  BY <1>10 DEF tradeVars
<1>11. QED
  BY <1>1, <1>2, <1>3, <1>4, <1>5, <1>6, <1>7, <1>8, <1>9, <1>10 DEF TradeNext,
     RunStep

\* Whoever sent a transaction was claimed and at a TRADE action.
LEMMA SentByClaimedStep ==
  TradeTypeOK /\ AtTradeAction /\ SentByClaimed /\ [TradeNext]_tradeVars => SentByClaimed'
<1> SUFFICES ASSUME TradeTypeOK, AtTradeAction, SentByClaimed, [TradeNext]_tradeVars,
                    NEW n \in Dispatches, Sent(n)'
             PROVE  /\ pc'[n[1]] \in Claimed
                    /\ n[2] <= Len(Actions[Cond(n[1])'])
                    /\ Actions[Cond(n[1])'][n[2]] = "TRADE"
  BY DEF SentByClaimed
<1>1. n[1] \in Deliveries
  BY TradeAssumption
<1>2. Moves(n[1]) /\ SentBySender
  BY <1>1, MovesStep, SentStep
<1>3. Cond(n[1])' = Cond(n[1])
  BY <1>2 DEF Moves, Cond
<1>4. CASE Sent(n)
  BY <1>2, <1>3, <1>4 DEF SentByClaimed, Moves
<1>5. ASSUME NEW d \in Deliveries, n = Trade(d), pc[d] = "send"
      PROVE  /\ pc[n[1]] \in Claimed
             /\ n[2] <= Len(Actions[Cond(n[1])])
             /\ Actions[Cond(n[1])][n[2]] = "TRADE"
  BY <1>5 DEF AtTradeAction, HasAction, ActionOf, Trade, Claimed, Running, Trading, Holding
<1>6. QED
  BY <1>2, <1>3, <1>4, <1>5 DEF SentBySender, Moves

-----------------------------------------------------------------------------
(* The lock                                                                *)

\* Steps inside the section leave the lock alone and stay inside.
LEMMA LockAgreesStep ==
  TradeTypeOK /\ AtTradeAction /\ LockAgrees /\ [TradeNext]_tradeVars => LockAgrees'
<1> SUFFICES ASSUME TradeTypeOK, AtTradeAction, LockAgrees, [TradeNext]_tradeVars,
                    NEW e \in Deliveries
             PROVE  /\ pc'[e] = "queued" => phase'[Trade(e)'] = "waiting"
                    /\ pc'[e] \in Holding => phase'[Trade(e)'] = "held"
                    /\ pc'[e] = "resolved" => phase'[Trade(e)'] = "settled"
                    /\ pc'[e] \in Trading => lockOf'[Trade(e)'] = WalletOf[Cond(e)']
  BY DEF LockAgrees
<1> DEFINE Goal == /\ pc'[e] = "queued" => phase'[Trade(e)'] = "waiting"
                   /\ pc'[e] \in Holding => phase'[Trade(e)'] = "held"
                   /\ pc'[e] = "resolved" => phase'[Trade(e)'] = "settled"
                   /\ pc'[e] \in Trading => lockOf'[Trade(e)'] = WalletOf[Cond(e)']
<1>1. /\ Cond(e)' = Cond(e)
      /\ pc'[e] \in Trading => Trade(e)' = Trade(e)
  BY MovesStep DEF Moves, Cond, Trade
<1>2. ASSUME UNCHANGED lockVars,
             pc'[e] = pc[e] \/ (pc[e] \in Holding /\ pc'[e] \in Holding)
                            \/ pc'[e] \notin Trading
      PROVE  Goal
  BY <1>1, <1>2 DEF LockAgrees, lockVars, Trading, Holding
<1> USE DEF TradeTypeOK, RunTypeOK, Goto, Proceed, Leave
<1>3. ASSUME NEW d \in Deliveries,
             \/ Deliver(d) \/ Claim(d) \/ SkipAction(d) \/ StartWebhook(d)
             \/ PostWebhook(d) \/ Notify(d)
      PROVE  Goal
  BY <1>2, <1>3 DEF Deliver, Claim, SkipAction, StartWebhook, PostWebhook, Notify,
     Advance, Trading, Holding
<1>4. ASSUME NEW d \in Deliveries,
             \/ TakeSlot(d) \/ CheckBalance(d) \/ BuildSwap(d) \/ SendTransaction(d)
             \/ Confirm(d)
      PROVE  Goal
  BY <1>2, <1>4 DEF TakeSlot, CheckBalance, BuildSwap, SendTransaction, Confirm,
     MarkTradeSubmitted, sectionVars, Holding
<1>5. ASSUME NEW d \in Deliveries,
             \/ RecordTrade(d) \/ RecordActivity(d) \/ CountExecution(d) \/ TrackPending(d)
      PROVE  Goal
  BY <1>2, <1>5 DEF RecordTrade, RecordActivity, CountExecution, TrackPending,
     AfterActivity, AfterCount, sectionVars, Holding, BreakOff, Answered, bookVars
<1>6. ASSUME NEW d \in Deliveries, d # e,
             DispatchTrade(d) \/ Enter(d) \/ LeaveSection(d) \/ AfterSection(d)
      PROVE  Goal
  <2>1. pc'[e] = pc[e] /\ act'[e] = act[e] /\ Trade(d) # Trade(e)
    BY <1>6 DEF DispatchTrade, Enter, LeaveSection, AfterSection, MarkTradeSubmitted,
       Advance, Trade, runVars
  <2>2. ASSUME Trade(e) \in Dispatches
        PROVE  phase'[Trade(e)] = phase[Trade(e)] /\ lockOf'[Trade(e)] = lockOf[Trade(e)]
    <3>1. CASE DispatchTrade(d)
      BY <2>1, <2>2, <3>1 DEF DispatchTrade, Request, lockVars, LockTypeOK
    <3>2. CASE Enter(d)
      BY <2>1, <2>2, <3>2 DEF Enter, Acquire, LockTypeOK
    <3>3. CASE LeaveSection(d)
      BY <2>1, <2>2, <3>3 DEF LeaveSection, Settle, LockTypeOK
    <3>4. CASE AfterSection(d)
      BY <2>1, <2>2, <3>4 DEF AfterSection, Release, LockTypeOK
    <3>5. QED
      BY <1>6, <3>1, <3>2, <3>3, <3>4
  <2>3. pc[e] \in Trading => Trade(e) \in Dispatches
    BY TradeInDispatches
  <2>4. QED
    BY <1>1, <2>1, <2>2, <2>3 DEF LockAgrees, Trading, Holding
<1>7. CASE DispatchTrade(e)
  <2>1. Trade(e) \in Dispatches
    BY <1>7, TradeInDispatches DEF DispatchTrade
  <2>2. QED
    BY <1>1, <1>7, <2>1 DEF DispatchTrade, Request, Advance, Trading, Holding, LockTypeOK
<1>8. CASE Enter(e)
  <2>1. Trade(e) \in Dispatches
    BY <1>8, TradeInDispatches DEF Enter, Trading
  <2>2. /\ pc'[e] \in Holding /\ phase'[Trade(e)] = "held"
        /\ lockOf'[Trade(e)] = WalletOf[Cond(e)]
    BY <1>8, <2>1 DEF Enter, Acquire, MarkTradeSubmitted, LockAgrees, Trading, Holding,
       LockTypeOK
  <2>3. QED
    BY <1>1, <2>2 DEF Trading, Holding
<1>9. CASE LeaveSection(e)
  <2>1. Trade(e) \in Dispatches
    BY <1>9, TradeInDispatches DEF LeaveSection, Trading, Holding
  <2>2. QED
    BY <1>1, <1>9, <2>1 DEF LeaveSection, Settle, LockAgrees, Trading, Holding, LockTypeOK
<1>10. CASE AfterSection(e)
  BY <1>10 DEF AfterSection, Advance, Trading, Holding
<1>11. CASE Crash
  BY <1>11 DEF Crash, Running, Trading, Holding
<1>12. CASE (\E n \in Dispatches : ChainStep(n)) \/ (\E s \in Sigs : Age(s))
            \/ CleanupProcessed \/ UNCHANGED tradeVars
  BY <1>2, <1>12 DEF ChainStep, Age, CleanupProcessed, tradeVars
<1>13. QED
  BY <1>3, <1>4, <1>5, <1>6, <1>7, <1>8, <1>9, <1>10, <1>11, <1>12
     DEF TradeNext, RunStep

-----------------------------------------------------------------------------
(* The theorems                                                            *)

\* A process with empty tables satisfies the invariant.
LEMMA TradeInitInv == TradeInit => TradeInv
<1> SUFFICES ASSUME TradeInit
             PROVE  TradeInv
  OBVIOUS
<1>1. LockInv
  BY LockInitInv DEF TradeInit
<1>2. TradeTypeOK
  BY <1>1, TradeAssumption DEF LockInv, TradeInit, TradeTypeOK, RunTypeOK, MemoryTypeOK,
     DbTypeOK, WorldTypeOK, PCs, Claimed, Running, Trading, Holding, Statuses, Chain
<1>3. AtTradeAction /\ LockAgrees /\ ClaimRecorded /\ ClaimedOnce /\ SentByClaimed
  BY DEF TradeInit, AtTradeAction, LockAgrees, ClaimRecorded, ClaimedOnce, SentByClaimed,
     Sent, Claimed, Running, Trading, Holding
<1>4. QED
  BY <1>1, <1>2, <1>3 DEF TradeInv

\* Every step preserves the invariant.
LEMMA TradeStepInv == TradeInv /\ [TradeNext]_tradeVars => TradeInv'
<1> SUFFICES ASSUME TradeInv, [TradeNext]_tradeVars
             PROVE  TradeInv'
  OBVIOUS
<1> USE DEF TradeInv
<1>1. LockInv'
  BY StepRefinesLock, LockStepInv
<1>2. TradeTypeOK'
  BY <1>1, RunTypeStep, MemoryTypeStep, DbTypeStep, WorldTypeStep DEF LockInv, TradeTypeOK
<1>3. QED
  BY <1>1, <1>2, AtTradeActionStep, LockAgreesStep, ClaimRecordedStep, ClaimedOnceStep,
     SentByClaimedStep

\* Type correctness, one owner per match, and agreement of every delivery with
\* the lock, in every reachable state of the engine (executor.ts:86-416).
THEOREM TradeInvariant == TradeSpec => []TradeInv
<1>1. QED
  BY TradeInitInv, TradeStepInv, PTL DEF TradeSpec

\* The engine uses its wallet locks as WalletLock specifies: whatever holds of
\* LockSpec holds of the lock inside the engine (executor.ts:257-410).
THEOREM EngineImplementsLock == TradeSpec => LockSpec
<1>1. TradeInit => LockInit
  BY DEF TradeInit
<1>2. TradeInv /\ [TradeNext]_tradeVars => [LockNext]_lockVars
  BY StepRefinesLock DEF TradeInv
<1>3. QED
  BY <1>1, <1>2, TradeInvariant, PTL DEF TradeSpec, LockSpec

\* From its guards to its last bookkeeping a trade is alone on its wallet
\* (executor.ts:263-404), for any number of concurrent deliveries.
THEOREM SerializedPerWallet == TradeSpec => []OneTradePerWallet
<1>1. TradeInv => OneTradePerWallet
  <2> SUFFICES ASSUME TradeInv, NEW d \in Deliveries, NEW e \in Deliveries,
                      pc[d] \in Holding, pc[e] \in Holding,
                      WalletOf[Cond(d)] = WalletOf[Cond(e)]
               PROVE  d = e
    BY DEF OneTradePerWallet
  <2>1. Trade(d) \in Dispatches /\ Trade(e) \in Dispatches
    BY TradeInDispatches DEF TradeInv, Trading
  <2>2. /\ phase[Trade(d)] = "held" /\ phase[Trade(e)] = "held"
        /\ lockOf[Trade(d)] = lockOf[Trade(e)]
    BY DEF TradeInv, LockAgrees, Trading
  <2>3. Trade(d) = Trade(e)
    BY <2>1, <2>2, LockInvMutex DEF TradeInv, WalletMutex
  <2>4. QED
    BY <2>3 DEF Trade
<1>2. QED
  BY <1>1, TradeInvariant, PTL

\* A match is claimed once, and the claimed delivery has one TRADE action.
LEMMA ClaimSendsOnce ==
  ASSUME OneTradePerCondition, TradeInv
  PROVE  AtMostOneSend
<1> SUFFICES ASSUME NEW n \in Dispatches, NEW m \in Dispatches,
                    Sent(n), Sent(m), match[n[1]] = match[m[1]]
             PROVE  n = m
  BY DEF AtMostOneSend
<1>1. n = <<n[1], n[2]>> /\ m = <<m[1], m[2]>> /\ n[1] \in Deliveries /\ m[1] \in Deliveries
      /\ n[2] \in 1..MaxActions /\ m[2] \in 1..MaxActions
  BY TradeAssumption
<1>2. n[1] = m[1]
  BY <1>1 DEF TradeInv, SentByClaimed, ClaimedOnce
<1>3. Cond(n[1]) \in Conds
  BY <1>1 DEF TradeInv, TradeTypeOK, RunTypeOK, Cond
<1>4. n[2] = m[2]
  BY <1>1, <1>2, <1>3, OneTradePerCondition, TradeAssumption
     DEF OneTradePerCondition, TradeInv, SentByClaimed
<1>5. QED
  BY <1>1, <1>2, <1>4

\* However often a match is delivered, concurrently or after restarts, and
\* whatever fails, at most one transaction is sent for it, as long as no
\* condition has two TRADE actions (executor.ts:88-102).
THEOREM IdempotentTrading ==
  ASSUME OneTradePerCondition
  PROVE  TradeSpec => []AtMostOneSend
<1>1. TradeInv => AtMostOneSend
  BY ClaimSendsOnce, OneTradePerCondition
<1>2. QED
  BY <1>1, TradeInvariant, PTL

-----------------------------------------------------------------------------
(* The execution limit                                                     *)

\* What a step that neither counts nor takes a slot does to the bookkeeping.
Quiet ==
  /\ UNCHANGED <<execCount, slot>>
  /\ \A e \in Deliveries :
       pc'[e] \in {"balance", "build", "send"} =>
         /\ pc[e] \in {"balance", "build", "send"} \/ ~Limited(Cond(e))
         /\ act'[e] = act[e]
  /\ \A e \in Deliveries : pc'[e] = "count" => pc[e] = "count" \/ ~Limited(Cond(e))

\* Steps other than the two increments leave counts and slots alone.
LEMMA QuietStep ==
  /\ TradeTypeOK /\ [TradeNext]_tradeVars
  /\ \A d \in Deliveries : ~TakeSlot(d) /\ ~CountExecution(d)
  => Quiet
<1> SUFFICES ASSUME TradeTypeOK, [TradeNext]_tradeVars,
                    \A d \in Deliveries : ~TakeSlot(d) /\ ~CountExecution(d)
             PROVE  Quiet
  OBVIOUS
<1> USE DEF TradeTypeOK, RunTypeOK, Quiet, Goto, Proceed, Leave, dbVars, worldVars,
      runVars, sectionVars
<1>1. ASSUME NEW d \in Deliveries, Deliver(d) \/ Claim(d) \/ StartWebhook(d)
      PROVE  Quiet
  BY <1>1 DEF Deliver, Claim, StartWebhook
<1>2. ASSUME NEW d \in Deliveries, SkipAction(d) \/ PostWebhook(d)
      PROVE  Quiet
  BY <1>2 DEF SkipAction, PostWebhook, Advance
<1>3. ASSUME NEW d \in Deliveries, DispatchTrade(d)
      PROVE  Quiet
  BY <1>3 DEF DispatchTrade, Advance
<1>4. ASSUME NEW d \in Deliveries, Enter(d)
      PROVE  Quiet
  BY <1>4 DEF Enter, MarkTradeSubmitted
<1>5. ASSUME NEW d \in Deliveries,
             \/ CheckBalance(d) \/ BuildSwap(d) \/ SendTransaction(d)
             \/ Confirm(d)
      PROVE  Quiet
  BY <1>5 DEF CheckBalance, BuildSwap, SendTransaction, Confirm
<1>6. ASSUME NEW d \in Deliveries, RecordTrade(d) \/ RecordActivity(d)
      PROVE  Quiet
  BY <1>6 DEF RecordTrade, RecordActivity, AfterActivity, AfterCount,
     BreakOff, Answered, bookVars
<1>7. ASSUME NEW d \in Deliveries, TrackPending(d)
      PROVE  Quiet
  BY <1>7 DEF TrackPending, BreakOff, Answered, bookVars
<1>8. ASSUME NEW d \in Deliveries, LeaveSection(d) \/ AfterSection(d) \/ Notify(d)
      PROVE  Quiet
  BY <1>8 DEF LeaveSection, AfterSection, Notify, Advance
<1>9. ASSUME NEW n \in Dispatches, ChainStep(n)
      PROVE  Quiet
  BY <1>9 DEF ChainStep
<1>10. ASSUME NEW s \in Sigs, Age(s)
       PROVE  Quiet
  BY <1>10 DEF Age
<1>11. CASE CleanupProcessed
  BY <1>11 DEF CleanupProcessed
<1>12. CASE Crash
  BY <1>12 DEF Crash, Running, Trading, Holding
<1>13. CASE UNCHANGED tradeVars
  BY <1>13 DEF tradeVars
<1>14. QED
  BY <1>1, <1>2, <1>3, <1>4, <1>5, <1>6, <1>7, <1>8, <1>9, <1>10, <1>11, <1>12,
     <1>13 DEF TradeNext, RunStep

\* Condition, count and slot of a delivery are of the right type.
LEMMA SlotFacts ==
  ASSUME TradeTypeOK, NEW d \in Deliveries
  PROVE  /\ Cond(d) \in Conds /\ execCount[Cond(d)] \in Nat
         /\ Limited(Cond(d)) => Limit[Cond(d)] \in Nat
<1>1. Cond(d) \in Conds
  BY DEF TradeTypeOK, RunTypeOK, Cond
<1>2. QED
  BY <1>1, TradeAssumption DEF TradeTypeOK, DbTypeOK, Limited

\* A slot taken below the limit is new, and within the limit.
LEMMA TakeSlotLimit ==
  ASSUME TradeInv, SlotsWithinLimit, NEW d \in Deliveries, TakeSlot(d)
  PROVE  SlotsWithinLimit'
<1> USE DEF TradeInv, TradeTypeOK
<1> DEFINE c == Cond(d)  t == Trade(d)
<1>1. /\ t \in Dispatches /\ c \in Conds /\ execCount[c] \in Nat
      /\ Limited(c) => Limit[c] \in Nat
  BY SlotFacts, StepTradeInDispatches DEF TakeSlot, Holding
<1>2. /\ match' = match /\ act' = act /\ chain' = chain
      /\ \A e \in Deliveries : Cond(e)' = Cond(e) /\ Trade(e)' = Trade(e)
      /\ \A e \in Deliveries : e # d => pc'[e] = pc[e] /\ Trade(e) # t
      /\ pc'[d] # "count"
  BY DEF TakeSlot, MarkTradeSubmitted, Proceed, Leave, Goto, sectionVars, runVars, Cond,
     Trade, RunTypeOK
<1>3. \A n \in Dispatches : n[1] \in Deliveries /\ Cond(n[1]) \in Conds
  BY SlotFacts, TradeAssumption
<1>4. slot \in [Dispatches -> Nat] /\ execCount \in [Conds -> Nat]
  BY DEF WorldTypeOK, DbTypeOK
<1> HIDE DEF c, t
<1>5. CASE /\ UnderLimit(c) /\ execCount' = [execCount EXCEPT ![c] = @ + 1]
           /\ slot' = [slot EXCEPT ![t] = execCount[c] + 1]
  <2>1. \A k \in Conds : Limited(k) => execCount'[k] <= Limit[k]
    BY <1>1, <1>4, <1>5 DEF SlotsWithinLimit, UnderLimit
  <2>2. c = Cond(t[1])
    BY DEF c, t, Trade
  <2>3. \A n \in Dispatches : slot'[n] <= execCount'[Cond(n[1])]
    BY <1>1, <1>3, <1>4, <1>5, <2>2 DEF SlotsWithinLimit
  <2>4. \A n, m \in Dispatches :
          slot'[n] # 0 /\ slot'[n] = slot'[m] /\ Cond(n[1]) = Cond(m[1]) => n = m
    BY <1>1, <1>3, <1>4, <1>5, <2>2 DEF SlotsWithinLimit
  <2>5. \A n \in Dispatches : slot[n] # 0 => slot'[n] # 0
    BY <1>1, <1>4, <1>5
  <2>6. slot'[t] # 0
    BY <1>1, <1>4, <1>5
  <2>7. \A e \in Deliveries :
          pc'[e] \in {"balance", "build", "send"} /\ Limited(Cond(e)) => slot'[Trade(e)] # 0
    <3> SUFFICES ASSUME NEW e \in Deliveries, pc'[e] \in {"balance", "build", "send"},
                        Limited(Cond(e))
                 PROVE  slot'[Trade(e)] # 0
      OBVIOUS
    <3>1. CASE e = d
      BY <2>6, <3>1 DEF t
    <3>2. CASE e # d
      BY <1>2, <2>5, <3>2, StepTradeInDispatches DEF SlotsWithinLimit, Holding
    <3>3. QED
      BY <3>1, <3>2
  <2>8. QED
    BY <1>2, <1>3, <2>1, <2>3, <2>4, <2>5, <2>7 DEF SlotsWithinLimit, Sent
<1>6. CASE /\ UnderLimit(c) /\ execCount' = [execCount EXCEPT ![c] = @ + 1]
           /\ slot' = slot /\ pc'[d] = "leaving"
  <2>1. \A k \in Conds : Limited(k) => execCount'[k] <= Limit[k]
    BY <1>1, <1>4, <1>6 DEF SlotsWithinLimit, UnderLimit
  <2>2. \A n \in Dispatches : slot'[n] <= execCount'[Cond(n[1])]
    BY <1>1, <1>3, <1>4, <1>6 DEF SlotsWithinLimit
  <2>3. QED
    BY <1>2, <1>3, <1>6, <2>1, <2>2 DEF SlotsWithinLimit, Sent
<1>7. CASE execCount' = execCount /\ slot' = slot /\ pc'[d] = "leaving"
  BY <1>2, <1>3, <1>7 DEF SlotsWithinLimit, Sent
<1>8. QED
  BY <1>5, <1>6, <1>7 DEF TakeSlot, Increment, Leave, Goto, RunTypeOK, c, t

\* Counting an unlimited execution says nothing about limited ones.
LEMMA CountExecutionLimit ==
  ASSUME TradeInv, SlotsWithinLimit, NEW d \in Deliveries, CountExecution(d)
  PROVE  SlotsWithinLimit'
<1> USE DEF TradeInv, TradeTypeOK
<1>1. /\ match' = match /\ act' = act /\ chain' = chain /\ slot' = slot
      /\ \A e \in Deliveries : Cond(e)' = Cond(e) /\ Trade(e)' = Trade(e)
      /\ \A e \in Deliveries :
           pc'[e] \in {"balance", "build", "send", "count"} => pc'[e] = pc[e]
  BY DEF CountExecution, AfterCount, Proceed, Leave, Goto, sectionVars, runVars, worldVars,
     Cond, Trade, RunTypeOK, BreakOff, Answered, bookVars
<1>2. ~Limited(Cond(d)) /\ Cond(d) \in Conds
  BY SlotFacts DEF CountExecution, SlotsWithinLimit, BreakOff, Answered, bookVars
<1>3. slot \in [Dispatches -> Nat] /\ execCount \in [Conds -> Nat]
  BY DEF WorldTypeOK, DbTypeOK
<1>4. \A n \in Dispatches : n[1] \in Deliveries /\ Cond(n[1]) \in Conds
  BY SlotFacts, TradeAssumption
<1>5. execCount' = execCount \/ execCount' = [execCount EXCEPT ![Cond(d)] = @ + 1]
  BY DEF CountExecution, Increment, BreakOff, Answered, bookVars
<1>6. /\ \A k \in Conds : Limited(k) => execCount'[k] = execCount[k]
      /\ \A k \in Conds : execCount[k] <= execCount'[k] /\ execCount'[k] \in Nat
  BY <1>2, <1>3, <1>5
<1>7. \A n \in Dispatches : slot[n] <= execCount'[Cond(n[1])]
  BY <1>3, <1>4, <1>6 DEF SlotsWithinLimit
<1>8. QED
  BY <1>1, <1>4, <1>6, <1>7 DEF SlotsWithinLimit, Sent

\* Every other step carries the slots along.
LEMMA QuietLimit ==
  ASSUME TradeInv, SlotsWithinLimit, [TradeNext]_tradeVars, Quiet
  PROVE  SlotsWithinLimit'
<1> USE DEF TradeInv
<1>1. /\ \A e \in Deliveries : Cond(e)' = Cond(e)
      /\ \A n \in Dispatches : n[1] \in Deliveries
  BY MovesStep, TradeAssumption DEF Moves, Cond
<1>2. SentBySender
  BY SentStep
<1>3. ASSUME NEW d \in Deliveries, pc'[d] \in {"balance", "build", "send"}, Limited(Cond(d))
      PROVE  slot'[Trade(d)'] # 0
  BY <1>3 DEF Quiet, SlotsWithinLimit, Trade
<1>4. ASSUME NEW n \in Dispatches, Sent(n)', Limited(Cond(n[1]))
      PROVE  slot'[n] # 0
  BY <1>2, <1>4 DEF SentBySender, SlotsWithinLimit, Quiet, Trade
<1>5. QED
  BY <1>1, <1>3, <1>4 DEF Quiet, SlotsWithinLimit

\* Every step keeps the slots of a condition distinct and within its limit.
LEMMA SlotsStep == TradeInv /\ SlotsWithinLimit /\ [TradeNext]_tradeVars => SlotsWithinLimit'
BY TakeSlotLimit, CountExecutionLimit, QuietLimit, QuietStep DEF TradeInv

\* At first no slot is taken.
LEMMA SlotsInit == TradeInit => SlotsWithinLimit
<1> SUFFICES ASSUME TradeInit
             PROVE  SlotsWithinLimit
  OBVIOUS
<1>1. \A n \in Dispatches : n[1] \in Deliveries /\ Cond(n[1]) \in Conds
  BY TradeAssumption DEF TradeInit, Cond
<1>2. \A c \in Conds : Limited(c) => Limit[c] \in Nat
  BY TradeAssumption DEF Limited
<1>3. QED
  BY <1>1, <1>2 DEF TradeInit, SlotsWithinLimit, Sent

\* Slots are distinct and within the limit in every reachable state.
LEMMA SlotsInvariant == TradeSpec => []SlotsWithinLimit
BY SlotsInit, SlotsStep, TradeInvariant, PTL DEF TradeSpec

\* The slots handed out by incrementIfUnderLimit number the sends of a limited
\* condition without repetition, from 1 up to its limit.
LEMMA SendsFromSlots ==
  ASSUME TradeInv, SlotsWithinLimit, NEW c \in Conds, Limited(c)
  PROVE  IsFiniteSet(SendsOf(c)) /\ Cardinality(SendsOf(c)) <= Limit[c]
<1> DEFINE f == [n \in SendsOf(c) |-> slot[n]]
<1>1. Limit[c] \in Nat
  BY TradeAssumption DEF Limited
<1>2. ASSUME NEW n \in SendsOf(c)
      PROVE  slot[n] \in 1..Limit[c] /\ n \in Dispatches /\ Cond(n[1]) = c
  <2>1. n \in Dispatches /\ Sent(n) /\ Cond(n[1]) = c
    BY DEF SendsOf, Cond
  <2>2. slot[n] \in Nat /\ slot[n] # 0 /\ slot[n] <= execCount[c] /\ execCount[c] <= Limit[c]
        /\ execCount[c] \in Nat
    BY <2>1 DEF SlotsWithinLimit, TradeInv, TradeTypeOK, WorldTypeOK, DbTypeOK
  <2>3. QED
    BY <1>1, <2>1, <2>2
<1>3. f \in [SendsOf(c) -> 1..Limit[c]]
  BY <1>2
<1>4. \A n, m \in SendsOf(c) : f[n] = f[m] => n = m
  BY <1>2 DEF SlotsWithinLimit
<1>5. f \in Injection(SendsOf(c), 1..Limit[c])
  BY <1>3, <1>4 DEF Injection, IsInjective
<1>6. IsFiniteSet(1..Limit[c]) /\ Cardinality(1..Limit[c]) = Limit[c]
  BY <1>1, FS_Interval
<1> HIDE DEF f
<1>7. QED
  BY <1>5, <1>6, FS_Injection

\* Distinct slots within the limit keep the number of sends within it.
LEMMA LimitFromSlots == TradeInv /\ SlotsWithinLimit => LimitRespected
BY SendsFromSlots DEF LimitRespected

\* A condition with an execution limit is never traded on more often than
\* that, whatever interleaves, fails or restarts (executor.ts:271-281,
\* conditionRepo.ts:56-65); no assumption on its actions is needed.
THEOREM ExecutionLimit == TradeSpec => []LimitRespected
BY SlotsInvariant, TradeInvariant, LimitFromSlots, PTL

-----------------------------------------------------------------------------
(* The engine implements TradeOnce                                         *)

\* The number of trades sent for a match, and whether there are any.
OnceOrNever ==
  /\ SendCount \in [Conds \X Sigs -> {0, 1}]
  /\ \A p \in Conds \X Sigs : SendCount[p] # 0 <=> SentFor(p) # {}

\* A match has been traded on once or not at all.
LEMMA SentForOnce == AtMostOneSend => OnceOrNever
<1> SUFFICES ASSUME AtMostOneSend, NEW p \in Conds \X Sigs
             PROVE  /\ Cardinality(SentFor(p)) \in {0, 1}
                    /\ Cardinality(SentFor(p)) # 0 <=> SentFor(p) # {}
  BY DEF OnceOrNever, SendCount
<1>1. CASE SentFor(p) = {}
  BY <1>1, FS_EmptySet
<1>2. ASSUME NEW n \in SentFor(p)
      PROVE  Cardinality(SentFor(p)) = 1
  <2>1. SentFor(p) = {n}
    BY <1>2 DEF SentFor, AtMostOneSend
  <2>2. QED
    BY <2>1, FS_Singleton
<1>3. QED
  BY <1>1, <1>2

\* Nothing is sent at first.
LEMMA SendCountInit == TradeInit => Promise!Init
<1> SUFFICES ASSUME TradeInit
             PROVE  SendCount = [p \in Conds \X Sigs |-> 0]
  BY DEF Promise!Init
<1>1. \A p \in Conds \X Sigs : SentFor(p) = {}
  BY DEF TradeInit, SentFor, Sent
<1>2. QED
  BY <1>1, FS_EmptySet DEF SendCount

\* TradeOnce counts as this module does.
LEMMA SameCardinality == \A S : Promise!Cardinality(S) = Cardinality(S)
BY DEF Promise!Cardinality, Cardinality

\* One more match of a limited condition is traded on only while fewer than
\* its limit are: the trades sent for it cover the matches traded on.
LEMMA RoomUnderLimit ==
  ASSUME TradeInv', SlotsWithinLimit',
         NEW c \in Conds, NEW s \in Sigs, Limited(c),
         OnceOrNever, OnceOrNever', SendCount[<<c, s>>] = 0,
         SendCount' = [SendCount EXCEPT ![<<c, s>>] = 1]
  PROVE  Cardinality(Promise!SentFor(c)) < Limit[c]
<1> DEFINE Sends == SendsOf(c)'
           Traded == Promise!SentFor(c) \cup {s}
           sigOf == [n \in Sends |-> match'[n[1]][2]]
<1>1. /\ IsFiniteSet(Sends) /\ Cardinality(Sends) <= Limit[c]
      /\ Limit[c] \in Nat
  <2>1. (IsFiniteSet(SendsOf(c)) /\ Cardinality(SendsOf(c)) <= Limit[c])'
    BY SendsFromSlots, PTL
  <2>2. QED
    BY <2>1, TradeAssumption DEF Limited
<1>2. \A t \in Sigs : t \in Traded <=> SentFor(<<c, t>>)' # {}
  BY DEF Promise!SentFor, OnceOrNever
<1>3. ASSUME NEW n \in Sends
      PROVE  sigOf[n] \in Traded
  <2>1. PICK t \in Sigs : match'[n[1]] = <<c, t>>
    BY TradeAssumption DEF SendsOf, TradeInv, TradeTypeOK, RunTypeOK
  <2>2. n \in SentFor(<<c, t>>)' /\ sigOf[n] = t
    BY <2>1 DEF SendsOf, SentFor
  <2>3. QED
    BY <1>2, <2>2
<1>5. ASSUME NEW t \in Traded
      PROVE  \E n \in Sends : sigOf[n] = t
  <2>1. t \in Sigs
    BY DEF Promise!SentFor
  <2>2. PICK n \in SentFor(<<c, t>>)' : TRUE
    BY <1>2, <2>1
  <2>3. n \in Sends /\ sigOf[n] = t
    BY <2>2 DEF SentFor, SendsOf
  <2>4. QED
    BY <2>3
<1>6. sigOf \in Surjection(Sends, Traded)
  BY <1>3, <1>5 DEF Surjection
<1> HIDE DEF Sends, sigOf
<1>7. IsFiniteSet(Traded) /\ Cardinality(Traded) <= Limit[c] /\ Cardinality(Traded) \in Nat
  BY <1>1, <1>6, FS_Surjection, FS_CardinalityType
<1>8. s \notin Promise!SentFor(c)
  BY DEF Promise!SentFor
<1>9. IsFiniteSet(Promise!SentFor(c))
  BY <1>7, FS_Subset
<1>10. Cardinality(Traded) = Cardinality(Promise!SentFor(c)) + 1
  BY <1>8, <1>9, FS_AddElement
<1>11. Cardinality(Promise!SentFor(c)) \in Nat
  BY <1>9, FS_CardinalityType
<1> HIDE DEF Traded
<1>12. QED
  BY <1>1, <1>7, <1>10, <1>11

\* A step that sends a transaction is a Send of the promise; any other leaves
\* the counts alone.
LEMMA StepRefinesPromise ==
  ASSUME OneTradePerCondition, TradeInv, TradeInv', SlotsWithinLimit',
         AtMostOneSend, AtMostOneSend', [TradeNext]_tradeVars
  PROVE  [Promise!Next]_SendCount
<1> DEFINE Pairs == Conds \X Sigs
<1>1. /\ SentBySender
      /\ \A n \in Dispatches : match'[n[1]] = match[n[1]]
  BY SentStep, MovesStep, TradeAssumption DEF TradeInv, Moves
<1>2. CASE \A n \in Dispatches : Sent(n)' <=> Sent(n)
  <2>1. \A p \in Pairs : SentFor(p)' = SentFor(p)
    BY <1>1, <1>2 DEF SentFor
  <2>2. SendCount' = SendCount
    BY <2>1 DEF SendCount
  <2>3. QED
    BY <2>2
<1>3. ASSUME NEW d \in Deliveries, pc[d] = "send", ~Sent(Trade(d)),
             \A n \in Dispatches : Sent(n)' <=> Sent(n) \/ n = Trade(d)
      PROVE  Promise!Next
  <2>1. Trade(d) \in Dispatches /\ Trade(d)[1] = d
    BY <1>3, StepTradeInDispatches DEF TradeInv, Holding, Trade
  <2>2. PICK c \in Conds, s \in Sigs : match[d] = <<c, s>>
    BY DEF TradeInv, TradeTypeOK, RunTypeOK
  <2>3. \A p \in Pairs : p # <<c, s>> => SentFor(p)' = SentFor(p)
    BY <1>1, <1>3, <2>1, <2>2 DEF SentFor
  <2>4. /\ Trade(d) \in SentFor(<<c, s>>)' /\ Trade(d) \notin SentFor(<<c, s>>)
        /\ SentFor(<<c, s>>) \subseteq SentFor(<<c, s>>)'
    BY <1>1, <1>3, <2>1, <2>2 DEF SentFor
  <2>5. OnceOrNever /\ OnceOrNever'
    BY SentForOnce, PTL
  <2>6. SentFor(<<c, s>>) = {}
    <3> SUFFICES ASSUME NEW n \in SentFor(<<c, s>>)
                 PROVE  FALSE
      OBVIOUS
    <3>1. n \in SentFor(<<c, s>>)' /\ n # Trade(d)
      BY <2>4
    <3>2. QED
      BY <2>4, <3>1 DEF SentFor, AtMostOneSend
  <2>7. SendCount[<<c, s>>] = 0 /\ SendCount'[<<c, s>>] = 1
    BY <2>4, <2>5, <2>6 DEF OnceOrNever
  <2>8. \A p \in Pairs : p # <<c, s>> => SendCount'[p] = SendCount[p]
    BY <2>3 DEF SendCount
  <2>9. SendCount' = [SendCount EXCEPT ![<<c, s>>] = 1]
    BY <2>5, <2>7, <2>8 DEF OnceOrNever
  <2>10. Limited(c) => Cardinality(Promise!SentFor(c)) < Limit[c]
    BY <2>5, <2>7, <2>9, RoomUnderLimit
  <2>11. QED
    BY <2>7, <2>9, <2>10, SameCardinality DEF Promise!Next, Promise!Send, Limited
<1>4. QED
  BY <1>1, <1>2, <1>3 DEF SentBySender

\* Whatever is delivered again, interleaves, fails or restarts, the engine as a
\* whole does what TradeOnce promises: one transaction at most for a condition
\* and event, and no more than the limit for a condition, as long as no
\* condition has two TRADE actions (executor.ts:86-416).
THEOREM EngineKeepsPromise ==
  ASSUME OneTradePerCondition
  PROVE  TradeSpec => KeepsPromise
<1>1. TradeInit => Promise!Init
  BY SendCountInit
<1>2. ASSUME TradeInv, TradeInv', SlotsWithinLimit', AtMostOneSend, AtMostOneSend',
             [TradeNext]_tradeVars
      PROVE  [Promise!Next]_SendCount
  BY <1>2, OneTradePerCondition, StepRefinesPromise
<1>3. QED
  BY <1>1, <1>2, OneTradePerCondition, TradeInvariant, SlotsInvariant, IdempotentTrading, PTL
     DEF TradeSpec, KeepsPromise, Promise!Spec

-----------------------------------------------------------------------------
(* Bookkeeping                                                             *)

\* What a step says of a trade it is not about: its rows stay, and it is no
\* further from or nearer to its bookkeeping.
Untouched(n) ==
  /\ ledger'[n] = ledger[n] /\ pendingTx'[n] = pendingTx[n]
  /\ reported'[n] = reported[n] /\ result'[n] = result[n]
  /\ n \in activity' <=> n \in activity
  /\ n \in brokenOff' <=> n \in brokenOff
  /\ Sent(n)' <=> Sent(n)
  /\ Unbooked(n)' => Unbooked(n)
  /\ Unsent(n)' => Unsent(n)
  /\ \A places \in SUBSET {"activity", "count", "track"} : At(n, places)' => At(n, places)

\* A step of a delivery moves it at its action or on to the next, and writes
\* about the trade it is at.
DeliveryMove(d) ==
  /\ \A e \in Deliveries :
       /\ act'[e] = act[e] \/ (act'[e] = act[e] + 1 /\ pc'[e] = "next")
       /\ e # d => pc'[e] = pc[e] /\ act'[e] = act[e]
  /\ \A n \in Dispatches : n # Trade(d) =>
       /\ ledger'[n] = ledger[n] /\ pendingTx'[n] = pendingTx[n]
       /\ reported'[n] = reported[n] /\ result'[n] = result[n]
       /\ n \in activity' <=> n \in activity
       /\ n \in brokenOff' <=> n \in brokenOff
       /\ chain'[n] = chain[n]

\* Every step of a delivery is of that kind.
LEMMA DeliveryMoves ==
  ASSUME TradeTypeOK, NEW d \in Deliveries, Deliver(d) \/ Claim(d) \/ RunStep(d)
  PROVE  DeliveryMove(d)
<1> USE DEF DeliveryMove, TradeTypeOK, RunTypeOK, MemoryTypeOK, DbTypeOK, WorldTypeOK, Goto,
      Proceed, Leave, Report, runVars, memoryVars, dbVars, worldVars, sectionVars
<1>1. ASSUME Deliver(d) \/ Claim(d) \/ StartWebhook(d) \/ SkipAction(d) \/ PostWebhook(d)
      PROVE  DeliveryMove(d)
  BY <1>1 DEF Deliver, Claim, StartWebhook, SkipAction, PostWebhook, Advance
<1>2. CASE DispatchTrade(d)
  BY <1>2 DEF DispatchTrade, Advance
<1>3. CASE Enter(d) \/ TakeSlot(d)
  BY <1>3 DEF Enter, TakeSlot, MarkTradeSubmitted
<1>4. CASE CheckBalance(d) \/ BuildSwap(d) \/ SendTransaction(d) \/ Confirm(d)
  BY <1>4 DEF CheckBalance, BuildSwap, SendTransaction, Confirm, SetResult
<1>5. CASE RecordTrade(d)
  BY <1>5 DEF RecordTrade, AfterActivity, AfterCount, BreakOff, Answered, bookVars
<1>6. CASE RecordActivity(d)
  BY <1>6 DEF RecordActivity, AfterActivity, AfterCount, BreakOff, Answered, bookVars
<1>7. CASE CountExecution(d) \/ TrackPending(d)
  BY <1>7 DEF CountExecution, TrackPending, AfterCount, BreakOff, Answered, bookVars
<1>8. CASE LeaveSection(d) \/ AfterSection(d) \/ Notify(d)
  BY <1>8 DEF LeaveSection, AfterSection, Notify, Advance
<1>9. QED
  BY <1>1, <1>2, <1>3, <1>4, <1>5, <1>6, <1>7, <1>8 DEF RunStep

\* A delivery works on one trade at a time, and moves on to later ones.
LEMMA OneTradeAtATime ==
  ASSUME TradeTypeOK, NEW d \in Deliveries, Deliver(d) \/ Claim(d) \/ RunStep(d),
         NEW n \in Dispatches, n # Trade(d)
  PROVE  Untouched(n)
<1>1. n = <<n[1], n[2]>> /\ n[1] \in Deliveries /\ n[2] \in Nat
  BY TradeAssumption
<1>2. /\ act[n[1]] \in Nat
      /\ act'[n[1]] = act[n[1]] \/ (act'[n[1]] = act[n[1]] + 1 /\ pc'[n[1]] = "next")
      /\ n[1] # d => pc'[n[1]] = pc[n[1]] /\ act'[n[1]] = act[n[1]]
  BY <1>1, DeliveryMoves DEF DeliveryMove, TradeTypeOK, RunTypeOK
<1>3. n[1] = d => act[d] # n[2]
  BY <1>1 DEF Trade
<1>4. /\ Unbooked(n)' => Unbooked(n)
      /\ Unsent(n)' => Unsent(n)
      /\ \A places \in SUBSET {"activity", "count", "track"} : At(n, places)' => At(n, places)
  <2>1. CASE n[1] = d
    BY <1>1, <1>2, <1>3, <2>1 DEF Unbooked, Unsent, At
  <2>2. CASE n[1] # d
    BY <1>2, <2>2 DEF Unbooked, Unsent, At
  <2>3. QED
    BY <2>1, <2>2
<1>5. /\ ledger'[n] = ledger[n] /\ pendingTx'[n] = pendingTx[n]
      /\ reported'[n] = reported[n] /\ result'[n] = result[n]
      /\ n \in activity' <=> n \in activity
      /\ n \in brokenOff' <=> n \in brokenOff
      /\ Sent(n)' <=> Sent(n)
  BY <1>1, DeliveryMoves DEF DeliveryMove, Sent
<1>6. QED
  BY <1>4, <1>5 DEF Untouched

\* A delivery keeps the rows of the trade it is at in order.
LEMMA OwnTradeBooked ==
  ASSUME TradeTypeOK, NEW d \in Deliveries, Deliver(d) \/ Claim(d) \/ RunStep(d),
         NEW n \in Dispatches, n = Trade(d), Booked(n)
  PROVE  Booked(n)'
<1>1. n[1] = d /\ n[2] = act[d] /\ act[d] \in Nat
  BY DEF Trade, TradeTypeOK, RunTypeOK
<1> USE <1>1 DEF Booked, Unbooked, Unsent, At, FailureRecorded, Sent, TradeTypeOK, RunTypeOK,
      MemoryTypeOK, DbTypeOK, WorldTypeOK, Goto, Proceed, Leave, Report, runVars, memoryVars,
      dbVars, worldVars, sectionVars,
      PCs, Claimed, Running, Trading, Holding
<1>3. ASSUME Deliver(d) \/ Claim(d) \/ StartWebhook(d) \/ SkipAction(d) \/ PostWebhook(d)
      PROVE  Booked(n)'
  BY <1>3 DEF Deliver, Claim, StartWebhook, SkipAction, PostWebhook, Advance
<1>4. CASE DispatchTrade(d)
  BY <1>4 DEF DispatchTrade, Advance
<1>5. CASE Enter(d)
  BY <1>5 DEF Enter, MarkTradeSubmitted
<1>6. CASE TakeSlot(d)
  BY <1>6 DEF TakeSlot, MarkTradeSubmitted
<1>7. CASE CheckBalance(d)
  BY <1>7 DEF CheckBalance
<1>8. CASE BuildSwap(d) \/ SendTransaction(d) \/ Confirm(d)
  BY <1>8 DEF BuildSwap, SendTransaction, Confirm, SetResult
<1>9. CASE RecordTrade(d)
  BY <1>9 DEF RecordTrade, AfterActivity, AfterCount, BreakOff, Answered, bookVars
<1>10. CASE RecordActivity(d)
  BY <1>10 DEF RecordActivity, AfterActivity, AfterCount, BreakOff, Answered, bookVars
<1>11. CASE CountExecution(d)
  BY <1>11 DEF CountExecution, AfterCount, BreakOff, Answered, bookVars
<1>12. CASE TrackPending(d)
  BY <1>12 DEF TrackPending, BreakOff, Answered, bookVars
<1>13. CASE LeaveSection(d) \/ AfterSection(d) \/ Notify(d)
  BY <1>13 DEF LeaveSection, AfterSection, Notify, Advance
<1>14. QED
  BY <1>3, <1>4, <1>5, <1>6, <1>7, <1>8, <1>9, <1>10, <1>11, <1>12, <1>13 DEF RunStep

\* Nothing about a trade changes for the worse while others move.
LEMMA UntouchedBooked ==
  ASSUME NEW n \in Dispatches, Booked(n), Untouched(n)
  PROVE  Booked(n)'
<1>1. /\ At(n, {"activity", "count", "track"})' => At(n, {"activity", "count", "track"})
      /\ At(n, {"count", "track"})' => At(n, {"count", "track"})
      /\ At(n, {"track"})' => At(n, {"track"})
  BY DEF Untouched
<1>2. QED
  BY <1>1 DEF Booked, Untouched, FailureRecorded, Sent

\* Every step keeps the rows of every trade in order.
LEMMA BookedStep == TradeInv /\ BookedInOrder /\ [TradeNext]_tradeVars => BookedInOrder'
<1> SUFFICES ASSUME TradeTypeOK, [TradeNext]_tradeVars, NEW n \in Dispatches, Booked(n)
             PROVE  Booked(n)'
  BY DEF BookedInOrder, TradeInv
<1>1. ASSUME NEW d \in Deliveries, Deliver(d) \/ Claim(d) \/ RunStep(d)
      PROVE  Booked(n)'
  BY <1>1, OwnTradeBooked, OneTradeAtATime, UntouchedBooked
<1>2. ASSUME UNCHANGED <<pc, act, reported, result, ledger, pendingTx, activity, brokenOff>>,
             Sent(n)' <=> Sent(n)
      PROVE  Booked(n)'
  BY <1>2, UntouchedBooked DEF Untouched, Unbooked, Unsent, At
<1>3. CASE Crash
  <2>1. n[1] \in Deliveries
    BY TradeAssumption
  <2>2. UNCHANGED <<act, ledger, pendingTx, activity, chain, brokenOff>>
    BY <1>3 DEF Crash, runVars, dbVars
  <2>3. reported'[n] \in {reported[n], "none"}
    BY <1>3 DEF Crash
  <2>4. pc'[n[1]] = CASE pc[n[1]] \in Running  -> "lost"
                      [] pc[n[1]] = "claiming" -> "aborted"
                      [] OTHER                 -> pc[n[1]]
    BY <1>3, <2>1 DEF Crash
  <2>5. QED
    BY <2>1, <2>2, <2>3, <2>4 DEF Booked, Unbooked, Unsent, At, FailureRecorded, Sent, PCs,
       Claimed, Running, Trading, Holding
<1>4. ASSUME NEW m \in Dispatches, ChainStep(m)
      PROVE  Booked(n)'
  <2>1. Sent(n)' <=> Sent(n)
    BY <1>4 DEF ChainStep, Sent, TradeTypeOK, WorldTypeOK
  <2>2. QED
    BY <1>2, <1>4, <2>1 DEF ChainStep, runVars, memoryVars, dbVars
<1>5. CASE (\E s \in Sigs : Age(s)) \/ CleanupProcessed \/ UNCHANGED tradeVars
  BY <1>2, <1>5 DEF Age, CleanupProcessed, tradeVars, runVars, memoryVars, dbVars, worldVars,
     Sent
<1>6. QED
  BY <1>1, <1>3, <1>4, <1>5 DEF TradeNext

\* Rows and reports of every trade agree in every reachable state.
LEMMA BookedInvariant == TradeSpec => []BookedInOrder
<1>1. TradeInit => BookedInOrder
  BY TradeAssumption DEF TradeInit, BookedInOrder, Booked, At
<1>2. QED
  BY <1>1, BookedStep, TradeInvariant, PTL DEF TradeSpec

\* What the notification says of a trade, be it that it succeeded, is pending
\* or failed, is what the ledger says, and a trade announced as pending is known
\* to the checker, for any interleaving and restart (executor.ts:327-395).  Only
\* a trade one of whose own bookkeeping calls threw may be announced as failed
\* and stand in the ledger as something else.
THEOREM NotificationMatchesLedger == TradeSpec => []ReportedIsRecorded
<1>1. BookedInOrder => ReportedIsRecorded
  BY DEF BookedInOrder, Booked, ReportedIsRecorded
<1>2. QED
  BY <1>1, BookedInvariant, PTL

\* The checker never finds a pending_txs row without its PENDING ledger row
\* and its activity row (executor.ts:348-392), for any interleaving, failed
\* insert or restart.
THEOREM PendingIsBooked == TradeSpec => []PendingRowsAreInLedger
<1>1. BookedInOrder => PendingRowsAreInLedger
  BY DEF BookedInOrder, Booked, PendingRowsAreInLedger
<1>2. QED
  BY <1>1, BookedInvariant, PTL
=============================================================================
