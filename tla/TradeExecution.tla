--------------------------- MODULE TradeExecution ---------------------------
(***************************************************************************)
(* The execution engine of server/src/execution/executor.ts with what a    *)
(* trade touches on its way: the idempotency table and the execution count *)
(* in Postgres, the trade-submission cache and the wallet locks in memory, *)
(* the Solana chain, and the ledger the user reads (trade_executions,      *)
(* pending_txs, wallet_activity).                                          *)
(*                                                                         *)
(* A delivery is one call of executeMatch: a condition matched by an       *)
(* event's signature.  The same pair can be delivered again, concurrently  *)
(* or after a restart.  An action ends at an await of the code; every      *)
(* database call may fail before or after its statement took effect, and   *)
(* the process may stop at any await, which loses what is in memory and    *)
(* keeps what is in the database and on the chain.                         *)
(*                                                                         *)
(* Amounts, quotes and guards' arithmetic are abstracted to their verdict. *)
(***************************************************************************)
EXTENDS WalletLock, Sequences, FiniteSets

CONSTANTS
  Deliveries,     \* calls of executeMatch
  Conds,          \* conditions
  Sigs,           \* signatures of the events that match them
  MaxActions,     \* longest list of actions of a condition
  Actions,        \* the actions of each condition, in order
  WalletOf,       \* the trading wallet of each condition's user
  Limit,          \* effectiveMax of each condition
  Unlimited,      \* effectiveMax === undefined
  TradeCacheMax,  \* TRADE_CACHE_MAX
  MaxCrashes,     \* bound on restarts
  MaxRetired      \* bound on signatures that grow old

ActionTypes == {"NOTIFY", "WEBHOOK", "LOG", "TRADE"}

ASSUME TradeAssumption ==
  /\ Dispatches = Deliveries \X (1..MaxActions)
  /\ MaxActions \in Nat
  /\ Actions \in [Conds -> Seq(ActionTypes)]
  /\ \A c \in Conds : Len(Actions[c]) <= MaxActions
  /\ WalletOf \in [Conds -> Wallets]
  /\ Unlimited \notin Nat
  /\ Limit \in [Conds -> Nat \cup {Unlimited}]
  /\ TradeCacheMax \in Nat \ {0}
  /\ MaxCrashes \in Nat
  /\ MaxRetired \in Nat

VARIABLES
  \* executeMatch, in memory
  pc,          \* where a delivery is
  match,       \* the <<condition, signature>> it was called with
  act,         \* the action it is at
  attempt,     \* attempt of that action
  reported,    \* ActionResult.status of a trade
  result,      \* what executeTrade returned for it
  tradeCache,  \* WalletManager.tradeCache, oldest first
  \* Postgres
  processed,   \* processed_events
  execCount,   \* conditions.execution_count
  ledger,      \* trade_executions, the row of each trade
  activity,    \* wallet_activity: trades with a TRADE_EXECUTED row
  pendingTx,   \* pending_txs, the status of each trade's row
  \* outside
  chain,       \* what became of a trade's transaction
  inbox,       \* TRADE_* messages sent to the user about a trade, in order
  retired,     \* signatures notified more than two hours ago
  slot,        \* history: RETURNING execution_count of incrementIfUnderLimit
  brokenOff,   \* history: trades whose bookkeeping ended with a call that threw
  crashes      \* restarts so far

runVars    == <<match, act, attempt>>
memoryVars == <<reported, result, tradeCache>>
dbVars     == <<processed, execCount, ledger, activity, pendingTx>>
worldVars  == <<chain, inbox, retired, slot, brokenOff, crashes>>
tradeVars  == <<pc, runVars, memoryVars, dbVars, worldVars, lockVars>>

(***************************************************************************)
(* "claiming": awaiting insertIfAbsent.  "next": at the head of the action *)
(* loop.  "posting": awaiting a webhook.  "queued": chained behind the     *)
(* wallet lock.  "limit" to "track": awaiting, inside the lock, the calls  *)
(* of the same name.  "leaving": the section has returned or thrown.       *)
(* "resolved": its promise has.  "lost": stopped with the process.         *)
(***************************************************************************)
Holding == {"limit", "balance", "build", "send", "confirm", "record", "activity",
            "count", "track", "leaving"}
Trading == Holding \cup {"queued", "resolved"}
Running == Trading \cup {"next", "posting"}
Claimed == Running \cup {"done", "lost"}
PCs     == Claimed \cup {"new", "claiming", "skipped", "aborted"}

\* NOT_SENT: status FAILED and no txHash.
Statuses == {"PENDING", "CONFIRMED", "FAILED", "NOT_SENT"}
Chain    == {"none", "sent", "processed", "failing", "confirmed", "failed"}

Cond(d)  == match[d][1]
Sig(d)   == match[d][2]
Trade(d) == <<d, act[d]>>
Sent(n)  == chain[n] # "none"
Limited(c) == Limit[c] # Unlimited

\* The trades whose transaction was handed to the chain for a condition.
SendsOf(c) == {n \in Dispatches : Sent(n) /\ match[n[1]][1] = c}

RunTypeOK ==
  /\ pc \in [Deliveries -> PCs]
  /\ match \in [Deliveries -> Conds \X Sigs]
  /\ act \in [Deliveries -> Nat \ {0}]
  /\ attempt \in [Deliveries -> 1..3]

MemoryTypeOK ==
  /\ reported \in [Dispatches -> {"none", "success", "pending", "failed"}]
  /\ result \in [Dispatches -> Statuses \cup {"none"}]
  /\ tradeCache \in Seq(Conds \X Sigs)

DbTypeOK ==
  /\ processed \in SUBSET (Conds \X Sigs)
  /\ execCount \in [Conds -> Nat]
  /\ ledger \in [Dispatches -> Statuses \cup {"none"}]
  /\ activity \in SUBSET Dispatches
  /\ pendingTx \in [Dispatches -> {"none", "PENDING", "CONFIRMED", "FAILED"}]

WorldTypeOK ==
  /\ chain \in [Dispatches -> Chain]
  /\ inbox \in [Dispatches -> Seq({"TRADE_PENDING", "TRADE_CONFIRMED", "TRADE_FAILED"})]
  /\ retired \in SUBSET Sigs
  /\ slot \in [Dispatches -> Nat]
  /\ brokenOff \in SUBSET Dispatches
  /\ crashes \in Nat

TradeTypeOK == LockTypeOK /\ RunTypeOK /\ MemoryTypeOK /\ DbTypeOK /\ WorldTypeOK

TradeInit ==
  /\ LockInit
  /\ pc = [d \in Deliveries |-> "new"]
  /\ match \in [Deliveries -> Conds \X Sigs]
  /\ act = [d \in Deliveries |-> 1]
  /\ attempt = [d \in Deliveries |-> 1]
  /\ reported = [n \in Dispatches |-> "none"]
  /\ result = [n \in Dispatches |-> "none"]
  /\ tradeCache = <<>>
  /\ processed = {}
  /\ execCount = [c \in Conds |-> 0]
  /\ ledger = [n \in Dispatches |-> "none"]
  /\ activity = {}
  /\ pendingTx = [n \in Dispatches |-> "none"]
  /\ chain = [n \in Dispatches |-> "none"]
  /\ inbox = [n \in Dispatches |-> <<>>]
  /\ retired = {}
  /\ slot = [n \in Dispatches |-> 0]
  /\ brokenOff = {}
  /\ crashes = 0

-----------------------------------------------------------------------------
(* Helpers                                                                 *)

Goto(d, p)   == pc' = [pc EXCEPT ![d] = p]
Report(d, r) == reported' = [reported EXCEPT ![Trade(d)] = r]

\* The section goes on to its next await, or ends with a result.
Proceed(d, p) == Goto(d, p) /\ UNCHANGED reported
Leave(d, r)   == Goto(d, "leaving") /\ Report(d, r)

\* Back to the head of the action loop, at the next action.
Advance(d) ==
  /\ Goto(d, "next")
  /\ act' = [act EXCEPT ![d] = @ + 1]

ActionOf(d) == Actions[Cond(d)][act[d]]
HasAction(d) == act[d] <= Len(Actions[Cond(d)])

\* trimTradeCache: above the limit, only the newer half is kept.
Trimmed(s) == IF Len(s) > TradeCacheMax THEN SubSeq(s, (Len(s) \div 2) + 1, Len(s)) ELSE s

\* Mutant: the submission cache is never consulted.
Mut_Cached(key) == FALSE

Cached(key) == \E i \in 1..Len(tradeCache) : tradeCache[i] = key

\* markTradeSubmitted: the key is new and remembered, or the trade is refused.
MarkTradeSubmitted(d) ==
  \/ /\ ~Cached(match[d])
     /\ tradeCache' = Trimmed(Append(tradeCache, match[d]))
     /\ Proceed(d, "balance")
  \/ /\ Cached(match[d])
     /\ Leave(d, "failed")
     /\ UNCHANGED tradeCache

-----------------------------------------------------------------------------
(* executeMatch                                                            *)

\* The queue handler passes a match on; signatures older than two hours are
\* no longer delivered by the provider.
Deliver(d) ==
  /\ pc[d] = "new"
  /\ Sig(d) \notin retired
  /\ Goto(d, "claiming")
  /\ UNCHANGED <<runVars, memoryVars, dbVars, worldVars, lockVars>>

\* Mutant: the row count of the insert is not looked at.
Mut_IsNew(d) == TRUE

IsNew(d) == match[d] \notin processed

\* insertIfAbsent: one INSERT ... ON CONFLICT DO NOTHING.
Claim(d) ==
  /\ pc[d] = "claiming"
  /\ \/ /\ IsNew(d)
        /\ processed' = processed \cup {match[d]}
        /\ Goto(d, "next")
     \/ /\ ~IsNew(d)
        /\ Goto(d, "skipped")
        /\ UNCHANGED processed
     \/ /\ Goto(d, "aborted")      \* the call fails, perhaps after the insert
        /\ processed' \in {processed, processed \cup {match[d]}}
  /\ UNCHANGED <<runVars, memoryVars, execCount, ledger, activity, pendingTx,
                 worldVars, lockVars>>

\* NOTIFY is left to the end; LOG writes a line and succeeds; a webhook
\* without a usable URL is not tried.
SkipAction(d) ==
  /\ pc[d] = "next" /\ HasAction(d)
  /\ ActionOf(d) \in {"NOTIFY", "LOG", "WEBHOOK"}
  /\ Advance(d)
  /\ UNCHANGED <<match, attempt, memoryVars, dbVars, worldVars, lockVars>>

StartWebhook(d) ==
  /\ pc[d] = "next" /\ HasAction(d)
  /\ ActionOf(d) = "WEBHOOK"
  /\ Goto(d, "posting")
  /\ attempt' = [attempt EXCEPT ![d] = 1]
  /\ UNCHANGED <<match, act, memoryVars, dbVars, worldVars, lockVars>>

MaxAttempts == 3

\* The request succeeds or fails for good, or fails in a way that is retried.
PostWebhook(d) ==
  /\ pc[d] = "posting"
  /\ \/ Advance(d) /\ UNCHANGED attempt
     \/ /\ attempt[d] < MaxAttempts
        /\ attempt' = [attempt EXCEPT ![d] = @ + 1]
        /\ UNCHANGED <<pc, act>>
  /\ UNCHANGED <<match, memoryVars, dbVars, worldVars, lockVars>>

\* The case TRADE up to `await nextLock`: without direction, mint or a usable
\* wallet it throws before the lock.
DispatchTrade(d) ==
  /\ pc[d] = "next" /\ HasAction(d)
  /\ ActionOf(d) = "TRADE"
  /\ \/ /\ Advance(d)
        /\ Report(d, "failed")
        /\ UNCHANGED lockVars
     \/ /\ Request(Trade(d), WalletOf[Cond(d)])
        /\ Goto(d, "queued")
        /\ UNCHANGED <<act, reported>>
  /\ UNCHANGED <<match, attempt, result, tradeCache, dbVars, worldVars>>

\* The TRADE_* message for a trade's ActionResult.
MessageFor(r) == CASE r = "pending" -> "TRADE_PENDING"
                   [] r = "success" -> "TRADE_CONFIRMED"
                   [] OTHER         -> "TRADE_FAILED"

\* All actions are done: notify the user of them, trades included.
Notify(d) ==
  /\ pc[d] = "next" /\ ~HasAction(d)
  /\ Goto(d, "done")
  /\ inbox' = [n \in Dispatches |->
                 IF n[1] = d /\ reported[n] # "none"
                 THEN Append(inbox[n], MessageFor(reported[n]))
                 ELSE inbox[n]]
  /\ UNCHANGED <<runVars, memoryVars, dbVars, chain, retired, slot, brokenOff, crashes, lockVars>>

-----------------------------------------------------------------------------
(* The critical section of a trade                                         *)

sectionVars == <<runVars, lockVars>>

\* The callback starts: rate limit and mint format, then either the awaited
\* slot of a limited condition or straight on to the submission cache.
Enter(d) ==
  /\ pc[d] = "queued"
  /\ Acquire(Trade(d))
  /\ \/ Leave(d, "failed") /\ UNCHANGED tradeCache
     \/ Limited(Cond(d)) /\ Proceed(d, "limit") /\ UNCHANGED tradeCache
     \/ ~Limited(Cond(d)) /\ MarkTradeSubmitted(d)
  /\ UNCHANGED <<runVars, result, dbVars, worldVars>>

\* Mutant: the limit is compared with <=.
Mut_UnderLimit(c) == execCount[c] <= Limit[c]

UnderLimit(c) == execCount[c] < Limit[c]

Increment(c) == execCount' = [execCount EXCEPT ![c] = @ + 1]

\* incrementIfUnderLimit: one UPDATE ... WHERE execution_count < limit.
TakeSlot(d) ==
  LET c == Cond(d) IN
  /\ pc[d] = "limit"
  /\ \/ /\ UnderLimit(c)
        /\ Increment(c)
        /\ slot' = [slot EXCEPT ![Trade(d)] = execCount[c] + 1]
        /\ MarkTradeSubmitted(d)
     \/ /\ ~UnderLimit(c)
        /\ Leave(d, "failed")
        /\ UNCHANGED <<execCount, slot, tradeCache>>
     \/ /\ Leave(d, "failed")         \* the call fails, perhaps after the update
        /\ UNCHANGED execCount \/ (UnderLimit(c) /\ Increment(c))
        /\ UNCHANGED <<slot, tradeCache>>
  /\ UNCHANGED <<sectionVars, result, processed, ledger, activity, pendingTx,
                 chain, inbox, retired, brokenOff, crashes>>

\* checkBalance or checkTokenBalance, with the checks on the amount.
CheckBalance(d) ==
  /\ pc[d] = "balance"
  /\ Proceed(d, "build") \/ Leave(d, "failed")
  /\ UNCHANGED <<sectionVars, result, tradeCache, dbVars, worldVars>>

SetResult(d, r) == result' = [result EXCEPT ![Trade(d)] = r]

\* executeTrade up to the signature: quote, freshness, swap transaction.  Any
\* error there is returned as FAILED without a hash.
BuildSwap(d) ==
  /\ pc[d] = "build"
  /\ \/ Proceed(d, "send") /\ UNCHANGED result
     \/ Proceed(d, "record") /\ SetResult(d, "NOT_SENT")
  /\ UNCHANGED <<sectionVars, tradeCache, dbVars, worldVars>>

\* sendRawTransaction: accepted, or refused, or accepted with the answer lost;
\* the last two look the same to the caller.
SendTransaction(d) ==
  LET accepted == chain' = [chain EXCEPT ![Trade(d)] = "sent"] IN
  /\ pc[d] = "send"
  /\ \/ accepted /\ Proceed(d, "confirm") /\ UNCHANGED result
     \/ /\ accepted \/ UNCHANGED chain
        /\ Proceed(d, "record")
        /\ SetResult(d, "NOT_SENT")
  /\ UNCHANGED <<sectionVars, tradeCache, dbVars, inbox, retired, slot, brokenOff, crashes>>

\* Mutant: the poll has no deadline.
Mut_Confirm(d) ==
  /\ pc[d] = "confirm"
  /\ \/ chain[Trade(d)] \in {"confirmed", "failed"} /\ SetResult(d, "CONFIRMED")
     \/ chain[Trade(d)] = "failing" /\ SetResult(d, "FAILED")
  /\ Proceed(d, "record")
  /\ UNCHANGED <<sectionVars, tradeCache, dbVars, worldVars>>

\* confirmWithTimeout: the poll that ends the loop.  The confirmation status
\* is looked at before the error; at the deadline the trade is PENDING.
Confirm(d) ==
  /\ pc[d] = "confirm"
  /\ \/ chain[Trade(d)] \in {"confirmed", "failed"} /\ SetResult(d, "CONFIRMED")
     \/ chain[Trade(d)] = "failing" /\ SetResult(d, "FAILED")
     \/ SetResult(d, "PENDING")
  /\ Proceed(d, "record")
  /\ UNCHANGED <<sectionVars, tradeCache, dbVars, worldVars>>

-----------------------------------------------------------------------------
(* Bookkeeping, still inside the section                                   *)

bookVars == <<chain, inbox, retired, slot, crashes>>

\* The awaited call answers; or it throws, perhaps after its statement took
\* effect, and the section with it: the trade is reported as failed.
Answered    == UNCHANGED brokenOff
BreakOff(d) == Leave(d, "failed") /\ brokenOff' = brokenOff \cup {Trade(d)}

\* Mutant: a pending trade is reported without being handed to the checker.
Mut_AfterCount(d) ==
  Leave(d, IF result[Trade(d)] = "PENDING" THEN "pending" ELSE "success")

\* A PENDING trade is handed to the background checker, then the section
\* returns its result.
AfterCount(d) ==
  \/ result[Trade(d)] = "PENDING" /\ Proceed(d, "track")
  \/ result[Trade(d)] = "CONFIRMED" /\ Leave(d, "success")

\* After the activity row: a failed trade throws, only a condition without a
\* limit still has to be counted.
AfterActivity(d) ==
  \/ result[Trade(d)] \in {"FAILED", "NOT_SENT"} /\ Leave(d, "failed")
  \/ result[Trade(d)] \in {"PENDING", "CONFIRMED"}
     /\ \/ Limited(Cond(d)) /\ AfterCount(d)
        \/ ~Limited(Cond(d)) /\ Proceed(d, "count")

\* Mutant: a failed insert into the ledger is ignored.
Mut_RecordTrade(d) ==
  LET n == Trade(d) IN
  /\ pc[d] = "record"
  /\ ledger' \in {ledger, [ledger EXCEPT ![n] = result[n]]}
  /\ IF result[n] = "NOT_SENT" THEN AfterActivity(d) ELSE Proceed(d, "activity")
  /\ Answered
  /\ UNCHANGED <<sectionVars, result, tradeCache, processed, execCount, activity,
                 pendingTx, bookVars>>

\* tradeExecutionRepo.insert.
RecordTrade(d) ==
  LET n == Trade(d)
      written == ledger' = [ledger EXCEPT ![n] = result[n]] IN
  /\ pc[d] = "record"
  /\ \/ /\ written /\ Answered
        /\ IF result[n] = "NOT_SENT" THEN AfterActivity(d) ELSE Proceed(d, "activity")
     \/ BreakOff(d) /\ (written \/ UNCHANGED ledger)
  /\ UNCHANGED <<sectionVars, result, tradeCache, processed, execCount, activity,
                 pendingTx, bookVars>>

\* walletActivityRepo.insert, only for a trade that has a hash.
RecordActivity(d) ==
  LET written == activity' = activity \cup {Trade(d)} IN
  /\ pc[d] = "activity"
  /\ \/ written /\ AfterActivity(d) /\ Answered
     \/ BreakOff(d) /\ (written \/ UNCHANGED activity)
  /\ UNCHANGED <<sectionVars, result, tradeCache, processed, execCount, ledger,
                 pendingTx, bookVars>>

\* incrementExecutionCount, for a condition without a limit.
CountExecution(d) ==
  /\ pc[d] = "count"
  /\ \/ Increment(Cond(d)) /\ AfterCount(d) /\ Answered
     \/ BreakOff(d) /\ (Increment(Cond(d)) \/ UNCHANGED execCount)
  /\ UNCHANGED <<sectionVars, result, tradeCache, processed, ledger, activity,
                 pendingTx, bookVars>>

\* pendingTxRepo.insert: ON CONFLICT DO NOTHING, the hash is new.
TrackPending(d) ==
  LET written == pendingTx' = [pendingTx EXCEPT ![Trade(d)] = "PENDING"] IN
  /\ pc[d] = "track"
  /\ \/ written /\ Leave(d, "pending") /\ Answered
     \/ BreakOff(d) /\ (written \/ UNCHANGED pendingTx)
  /\ UNCHANGED <<sectionVars, result, tradeCache, processed, execCount, ledger,
                 activity, bookVars>>

\* The section's promise resolves, whatever its outcome.
LeaveSection(d) ==
  /\ pc[d] = "leaving"
  /\ Settle(Trade(d))
  /\ Goto(d, "resolved")
  /\ UNCHANGED <<runVars, memoryVars, dbVars, worldVars>>

\* After `await nextLock`: release the map's entry, return the action's
\* result.  A trade has one attempt, so a failed one is not retried.
AfterSection(d) ==
  /\ pc[d] = "resolved"
  /\ Release(Trade(d))
  /\ Advance(d)
  /\ UNCHANGED <<match, attempt, memoryVars, dbVars, worldVars>>

-----------------------------------------------------------------------------
(* The chain, time, and the process                                        *)

\* A sent transaction is executed, with or without an error, and then confirmed;
\* one whose blockhash expires stays as it is.
ChainStep(n) ==
  /\ \/ /\ chain[n] = "sent"
        /\ \E r \in {"processed", "failing"} : chain' = [chain EXCEPT ![n] = r]
     \/ chain[n] = "processed" /\ chain' = [chain EXCEPT ![n] = "confirmed"]
     \/ chain[n] = "failing" /\ chain' = [chain EXCEPT ![n] = "failed"]
  /\ UNCHANGED <<pc, runVars, memoryVars, dbVars, inbox, retired, slot, brokenOff, crashes,
                 lockVars>>

\* Two hours pass after a signature was notified; its deliveries were claimed
\* long before that.
Age(s) ==
  /\ s \notin retired
  /\ Cardinality(retired) < MaxRetired
  /\ \A d \in Deliveries : Sig(d) = s => pc[d] # "claiming"
  /\ retired' = retired \cup {s}
  /\ UNCHANGED <<pc, runVars, memoryVars, dbVars, chain, inbox, slot, brokenOff, crashes,
                 lockVars>>

\* Mutant: cleanup deletes every row, not only those older than two hours.
Mut_Expired == processed

Expired == {p \in processed : p[2] \in retired}

\* processedEventRepo.cleanup.
CleanupProcessed ==
  /\ Expired # {}
  /\ processed' = processed \ Expired
  /\ UNCHANGED <<pc, runVars, memoryVars, execCount, ledger, activity, pendingTx,
                 worldVars, lockVars>>

\* The process stops and is started again: deliveries in flight are gone with
\* the lock map and the submission cache.
Crash ==
  LET lost == {n \in Dispatches : pc[n[1]] \in Running} IN
  /\ crashes < MaxCrashes
  /\ crashes' = crashes + 1
  /\ LockCrash
  /\ pc' = [d \in Deliveries |-> CASE pc[d] \in Running  -> "lost"
                                   [] pc[d] = "claiming" -> "aborted"
                                   [] OTHER              -> pc[d]]
  /\ reported' = [n \in Dispatches |-> IF n \in lost THEN "none" ELSE reported[n]]
  /\ result' = [n \in Dispatches |-> IF n \in lost THEN "none" ELSE result[n]]
  /\ tradeCache' = <<>>
  /\ UNCHANGED <<runVars, dbVars, chain, inbox, retired, slot, brokenOff>>

\* The steps of one delivery once it is claimed.
RunStep(d) ==
  \/ SkipAction(d) \/ StartWebhook(d) \/ PostWebhook(d) \/ DispatchTrade(d)
  \/ Enter(d) \/ TakeSlot(d) \/ CheckBalance(d) \/ BuildSwap(d)
  \/ SendTransaction(d) \/ Confirm(d)
  \/ RecordTrade(d) \/ RecordActivity(d) \/ CountExecution(d) \/ TrackPending(d)
  \/ LeaveSection(d) \/ AfterSection(d) \/ Notify(d)

TradeNext ==
  \/ \E d \in Deliveries : Deliver(d) \/ Claim(d) \/ RunStep(d)
  \/ \E n \in Dispatches : ChainStep(n)
  \/ \E s \in Sigs : Age(s)
  \/ CleanupProcessed
  \/ Crash

TradeSpec == TradeInit /\ [][TradeNext]_tradeVars

\* Every await is answered, fails or times out, and the event loop runs what
\* is ready; a webhook is retried a bounded number of times.  Nothing is
\* assumed of the chain, of new deliveries or of the cleanup timer.
TradeFairSpec == TradeSpec /\ \A d \in Deliveries : WF_tradeVars(RunStep(d))

-----------------------------------------------------------------------------
(* Safety                                                                  *)

\* The three layers of idempotency: however often a match is delivered,
\* concurrently or after a restart, at most one transaction is sent for it.
AtMostOneSend ==
  \A n, m \in Dispatches :
    Sent(n) /\ Sent(m) /\ match[n[1]] = match[m[1]] => n = m

\* A condition with an execution limit never trades more often than that,
\* however its matches interleave, fail or are cut off by a restart.
LimitRespected ==
  \A c \in Conds : Limited(c) => Cardinality(SendsOf(c)) <= Limit[c]

\* Between its guards and its last bookkeeping a trade is alone on its wallet:
\* the delivery's own progress agrees with the lock.
OneTradePerWallet ==
  \A d, e \in Deliveries :
    pc[d] \in Holding /\ pc[e] \in Holding /\ WalletOf[Cond(d)] = WalletOf[Cond(e)]
      => d = e

\* What the ledger says when a trade is reported as failed: that it failed, or
\* nothing, of a trade refused before anything was sent.
FailureRecorded(n) ==
  ledger[n] \in {"FAILED", "NOT_SENT"} \/ (ledger[n] = "none" /\ ~Sent(n))

\* What the user is told about a trade at the end of a delivery is what the
\* ledger says, and a trade announced as pending is known to the checker.  A
\* trade whose bookkeeping broke off is announced as failed whatever became of
\* it; of those the ledger may say anything.
ReportedIsRecorded ==
  \A n \in Dispatches : pc[n[1]] = "done" =>
    /\ reported[n] = "success" => ledger[n] = "CONFIRMED"
    /\ reported[n] = "pending" => ledger[n] = "PENDING" /\ pendingTx[n] = "PENDING"
    /\ reported[n] = "failed" /\ n \notin brokenOff => FailureRecorded(n)

\* The checker settles a pending_txs row and the ledger row of the same hash
\* one after the other: the second exists whenever the first does.
PendingRowsAreInLedger ==
  \A n \in Dispatches : pendingTx[n] # "none" => ledger[n] = "PENDING" /\ n \in activity

\* The trades sent for a match, and how many they are.
SentFor(p) == {n \in Dispatches : Sent(n) /\ match[n[1]] = p}
SendCount  == [p \in Conds \X Sigs |-> Cardinality(SentFor(p))]

\* Trade automation as a whole keeps its promise.
Promise == INSTANCE TradeOnce WITH sends <- SendCount

KeepsPromise == Promise!Spec

-----------------------------------------------------------------------------
(* The inductive invariant behind them                                     *)

\* A delivery inside a TRADE case is at a TRADE action of its condition.
AtTradeAction ==
  \A d \in Deliveries : pc[d] \in Trading => HasAction(d) /\ ActionOf(d) = "TRADE"

\* The progress of a delivery and the lock agree, on the condition's wallet.
LockAgrees ==
  \A d \in Deliveries :
    /\ pc[d] = "queued" => phase[Trade(d)] = "waiting"
    /\ pc[d] \in Holding => phase[Trade(d)] = "held"
    /\ pc[d] = "resolved" => phase[Trade(d)] = "settled"
    /\ pc[d] \in Trading => lockOf[Trade(d)] = WalletOf[Cond(d)]

\* A claimed match stays in processed_events until its signature is too old
\* to be delivered again.
ClaimRecorded ==
  \A d \in Deliveries :
    /\ pc[d] \in Claimed => match[d] \in processed \/ Sig(d) \in retired
    /\ pc[d] = "claiming" => Sig(d) \notin retired

\* A match is claimed by one delivery only.
ClaimedOnce ==
  \A d, e \in Deliveries :
    pc[d] \in Claimed /\ pc[e] \in Claimed /\ match[d] = match[e] => d = e

\* A transaction was sent by a claimed delivery, for a TRADE action.
SentByClaimed ==
  \A n \in Dispatches : Sent(n) =>
    /\ pc[n[1]] \in Claimed
    /\ n[2] <= Len(Actions[Cond(n[1])])
    /\ Actions[Cond(n[1])][n[2]] = "TRADE"

TradeInv ==
  /\ TradeTypeOK
  /\ LockInv
  /\ AtTradeAction
  /\ LockAgrees
  /\ ClaimRecorded
  /\ ClaimedOnce
  /\ SentByClaimed

\* The values returned by incrementIfUnderLimit: distinct for the trades of a
\* condition, at most its execution count, which stays within the limit; a
\* trade of a limited condition is past the limit check only with such a value.
SlotsWithinLimit ==
  /\ \A c \in Conds : Limited(c) => execCount[c] <= Limit[c]
  /\ \A n \in Dispatches : slot[n] <= execCount[Cond(n[1])]
  /\ \A n, m \in Dispatches :
       slot[n] # 0 /\ slot[n] = slot[m] /\ Cond(n[1]) = Cond(m[1]) => n = m
  /\ \A d \in Deliveries :
       pc[d] \in {"balance", "build", "send"} /\ Limited(Cond(d)) => slot[Trade(d)] # 0
  /\ \A n \in Dispatches : Sent(n) /\ Limited(Cond(n[1])) => slot[n] # 0
  /\ \A d \in Deliveries : pc[d] = "count" => ~Limited(Cond(d))

\* How far a trade is: its delivery is at it and awaits one of these calls, or
\* has not come as far as its row in the ledger, or as its transaction.
At(n, places) == act[n[1]] = n[2] /\ pc[n[1]] \in places
Unbooked(n) ==
  \/ act[n[1]] < n[2]
  \/ At(n, PCs \ {"activity", "count", "track", "leaving", "resolved", "done", "lost"})
Unsent(n) ==
  \/ act[n[1]] < n[2]
  \/ At(n, {"new", "claiming", "next", "posting", "queued", "limit", "balance", "build", "send"})

\* The rows of a trade appear in the order of the code, each from the result
\* executeTrade returned, and it is reported from them.
Booked(n) ==
  /\ Unbooked(n) => /\ ledger[n] = "none" /\ pendingTx[n] = "none"
                    /\ n \notin activity /\ reported[n] = "none"
  /\ Unsent(n) => chain[n] = "none"
  /\ At(n, {"activity", "count", "track"}) => ledger[n] = result[n] /\ result[n] # "NOT_SENT"
  /\ At(n, {"count", "track"}) => result[n] \in {"PENDING", "CONFIRMED"} /\ n \in activity
  /\ At(n, {"track"}) => result[n] = "PENDING"
  /\ reported[n] = "success" => ledger[n] = "CONFIRMED"
  /\ reported[n] = "pending" => ledger[n] = "PENDING" /\ pendingTx[n] = "PENDING"
  /\ pendingTx[n] # "none" => ledger[n] = "PENDING" /\ n \in activity
  /\ reported[n] = "failed" /\ n \notin brokenOff => FailureRecorded(n)

BookedInOrder == \A n \in Dispatches : Booked(n)

\* No condition has two TRADE actions; the web client builds at most one.
OneTradePerCondition ==
  \A c \in Conds : \A i, j \in 1..Len(Actions[c]) :
    Actions[c][i] = "TRADE" /\ Actions[c][j] = "TRADE" => i = j

-----------------------------------------------------------------------------
(* Liveness                                                                *)

\* A claimed match, which no redelivery can take up again, is seen through to its
\* notification, past webhooks that are retried, confirmations that never come and
\* calls that fail, unless the process stops.
ClaimedFinishes ==
  \A d \in Deliveries : pc[d] = "next" ~> pc[d] \in {"done", "lost"}
=============================================================================
