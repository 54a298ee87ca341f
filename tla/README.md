# A verification project for Voluma

Voluma watches Solana for conditions its users define and reacts with
notifications, webhooks or real trades. This directory holds TLA+ models of the
server's core, TLC configurations that check them on small instances, and proofs
checked by TLAPS. Paths below are relative to `src/`; where only a file name is
given it is under `src/server/src/`.

## 1. Inventory

The server is one Node.js process: a single event loop, so code between two
`await`s runs undisturbed and every `await` is a point where anything else may
run. Postgres outlives it; every `Map`, `Set` and promise does not.

    public-rpc-provider --transaction--> setImmediate --> EventQueue --> ConditionEngine.evaluate
                                                                            | matches
       pending_txs <---------+                                             v
            |                |                                 ExecutionEngine.execute
            v                |                                  |  claim (processed_events)
     checkPendingTxs         +---- section of the wallet lock <-+  action loop
            |                      rate, limit, dedup, balance,    notify --> BroadcastServer
            v                      swap, send, confirm, bookkeeping
     trade_executions

| Component | State | Operations | What is hard | What makes it correct |
|---|---|---|---|---|
| Execution engine (`execution/executor.ts`) | `walletLocks`; the run of each match | `execute`, `executeMatch`, `dispatchWithRetry`, `dispatch` | concurrent matches, redelivery, restart, any call failing in the middle of a trade | at most one transaction per match, execution limits, one trade per wallet at a time, what is reported is what is recorded |
| Repositories (`db/*.ts`) | `processed_events`, `conditions.execution_count`, `trade_executions`, `pending_txs`, `wallet_activity` | insert, update, cleanup | single statements are atomic, sequences of them are not | the tables agree with one another |
| Trade executor (`execution/tradeExecutor.ts`) | none | `executeTrade`, `confirmWithTimeout` | lost answers, a deadline before the outcome | the result says what the chain did |
| Pending checker (`index.ts:391-470`) | none but its timers | `checkPendingTxs`, `runCleanup` | overlapping passes, stale lists, stops between two writes | a verdict is true, final and reached |
| Trade guard (`execution/tradeGuard.ts`, `lib/ttl-cache.ts`) | balance caches, rate windows | `checkBalance`, `checkTokenBalance`, `checkRateLimit` | cached answers used after the balance changed | a trade that passed is covered |
| Event queue (`queue/in-memory-queue.ts`) and shutdown | waiting events, slot counter | `push`, `drain`, `shutdown` | limits, slots on errors | bounded, ordered, nothing lost that was accepted |
| Wallet manager (`wallets/walletManager.ts`) | decrypted keys, `tradeCache`, wallet rows | create, export, withdraw, `markTradeSubmitted`, key migration | two creations at once, failed inserts | one wallet per user, keys never lost |
| Condition engine (`conditions/engine.ts`) | indexes, windows, cooldowns, fire cache | `load`, `unload`, `evaluate`, `cleanup` | windows shared between conditions, indexes after updates | a condition is a candidate exactly when it should be; once per event |
| Condition registry (`index.ts:205-264`, `837-917`) | `conditionStore`, reference counts, watched wallets | POST, DELETE, PATCH toggle | routes interleaving at their database calls | what is watched is what enabled conditions need |
| RPC manager (`rpc/rpcManager.ts`) | failure windows, active provider | `markProviderSuccess`, `markProviderFailure` | late failures of the provider before | failover after a run of failures of the active provider |
| Ingestion (`ingestion/public-rpc-provider.ts`) | socket, subscriptions, debounce, dedup | connect, watch, messages, reconnect | replies after a change of mind, reconnects | one event per signature, watched wallets are subscribed |
| Jupiter client (`execution/jupiter.ts`) | quote cache | quote, freshness, swap transaction | retries that age a quote | no stale quote is executed |
| Transaction parser (`ingestion/transaction-parser.ts`, `public-rpc-provider.ts:337-490`) | none | `parseHeuristic`, `parseTransaction` and its helpers | accounts that come and go, several transfers | direction and amounts are those of the balances |
| Sensitive actions (`security/sensitiveActionManager.ts`) | tokens | `issue`, `consume`, `cleanup` | reuse, expiry, restart | single use |
| Broadcast server (`ws/broadcast.ts`) | sockets per user | connect, close, send | close during the session lookup | closed sockets are forgotten |
| Web client (`web/hooks/*.ts`, `web/components/*.tsx`) | list of conditions, list of pending trades, verification tokens | reconnecting socket, optimistic updates, forms | message order, answers that are lost | it shows what the server holds |

The browser is part of three protocols: it creates, toggles and deletes
conditions and keeps its own list of them, it verifies itself before a key is
revealed or a withdrawal made, and it follows pending trades over a socket that
breaks.

`PROJECT.json` lists every component with what is modelled of it, and under
`hazards` the places in the code that are hard to test, with the properties that
cover them or the reason why none does.

## 2. Modules

| Module | Models | Extends |
|---|---|---|
| `WalletLock` | the promise chain in `walletLocks` | |
| `TradeOnce` | the promise of trade automation, without how | |
| `TradeExecution` | the execution engine, the tables and the chain | `WalletLock`, instance of `TradeOnce` |
| `Settlement` | `checkPendingTxs` and the cleanup next to the engine | `TradeExecution` |
| `WalletFunds` | balances, the guard's cache, automated and manual trades | `WalletLock` |
| `EventQueue` | the bounded queue and the shutdown | |
| `ConditionRegistry` | the routes of conditions, their table, the reference counts, the browser's list | |
| `ConditionEngine` | indexes, matchers, windows, cooldowns, fire cache | |
| `RpcManager` | the choice of the provider | |
| `Ingestion` | the stream: socket, subscriptions, debounce, dedup | `RpcManager` |
| `TransactionParser` | what a transaction is taken for | |
| `WalletCustody` | the wallet's key, verification tokens, requests that spend | |
| `Realtime` | the sockets of one tab, reports of pending trades, their counter | |
| `EventPath_proofs` | theorems | `Ingestion`, `EventQueue`, `Realtime` |
| `EventMatching_proofs` | theorems | `ConditionEngine`, `TransactionParser` |
| `..._proofs` (six more) | theorems | the module of that name |
| `MC...` | small instances for TLC | the module of that name |

**WalletLock.** A dispatch is one execution of `case 'TRADE'`. `Request` is the
synchronous `get`/`then`/`set` (`executor.ts:257-263`), `Acquire` the start of the
callback given to `.then`, `Settle` the moment `.catch` has made the promise
resolve, `Release` the code after `await nextLock`, which deletes the entry only
if it is still its own (`408-410`). `prevLock` is the dispatch whose promise one is
chained behind. `arrival` and `clock` are history.

**TradeExecution.** A *delivery* is one call of `executeMatch`; its `pc` names the
`await` it is at, and one action is the code from one `await` to the next. A trade
is a delivery and the index of its action. `Claim` is `insertIfAbsent`; `Enter`
begins the section and runs to its first `await`; `TakeSlot` is
`incrementIfUnderLimit` followed by `markTradeSubmitted`, which is synchronous;
`CheckBalance`, `BuildSwap`, `SendTransaction` and `Confirm` follow
`executeTrade`; `RecordTrade`, `RecordActivity`, `CountExecution` and `TrackPending`
are the four writes of the bookkeeping in the order of the code. Every database
call may succeed, fail before its statement took effect, or fail after it.
A call of the bookkeeping that fails ends the section, and the trade is reported as
failed (`BreakOff`); `brokenOff` is the history of these. `SendTransaction` may be
accepted with its answer lost. `Crash` empties what is in
memory (locks, submission cache, runs) and keeps the tables and the chain. Amounts
are abstracted to the verdict of the guards.

**Settlement.** A pass is at one row of its page (`row`), the oldest of those it has
left (`todo`, `TakeRow`), and at one of four awaits: the status, `markChecked`, the write to `pending_txs`, the write to
`trade_executions`. `old` holds the trades whose row is older than five minutes.
Each call may fail, its statement executed or not, and the loop goes on with the
next row. `created` orders the rows for `ORDER BY created_at`. Nothing keeps a pass from
starting while another runs, as with `setInterval`: `Page` is what a pass has selected and
is not done with, and `contested` is the history of rows that were on two pages.

**WalletFunds.** A spend is an automated trade (through `WalletLock`) or a manual
one, which does not ask for the lock. `balanceCache` and `fetch` are the entry and
the pending promise of `TTLCache.getOrSet`: callers share a call under way, and the
balance the node read may be old when it arrives. `Execute` is the chain, which
refuses what the wallet cannot pay. Only purchases are modelled.

**EventQueue.** `Drain` is the whole loop of `drain`; it is part of `Push` and of
`Finish`, as in the code. The `setImmediate` between an event and its push is the
sequence `arriving`. The shutdown waits for the queue, not for the handlers in
flight, and so does the model.

**ConditionRegistry.** A call of the browser has a place `at`, which is the await
its handler is at: `HandlePost`, `HandleDelete`, `HandleToggle` and `HandleList` are
the handlers up to their first `await`, `ExecuteRow` is the statement in the
database, `FinishPost`, `FinishDelete`, `FinishToggle` and `FinishList` what follows it. One
`Condition` object is shared by the store, the engine and every handler. PATCH sets its
`enabled` and moves the references before it awaits the save, and undoes neither when the
save fails: only the engine's `load` or `unload`, which comes after, is not reached. It is
the browser that goes back, when the answer is an error: `shown` is the list of
`useConditions.ts` with its optimistic updates and their reversal, and an answer can be
lost. `Restart` rebuilds memory from the table as `main` does. `twice` and `disturbed` are history.

**ConditionEngine.** `evaluate` has no `await`; it is `Evaluate` (the candidates)
and one `Check` per candidate, in any order, with nothing in between. The windows of
a mint are one sequence, shared by the conditions on it and by their different
lengths, as in the code. `Cleanup` is the minute's timer. The history `past`, `fires`
and `lastFired` says what was evaluated and let through; `lastFired` is forgotten when a
condition is unloaded.

**RpcManager and Ingestion.** `RpcManager` has one operator per method:
`MarkFailure`, `MarkSuccess`, and `Age` for the window. `Ingestion` has the web
socket (`OpenWS`, `Opened`, `Closed`, `OpenThrows`), the requests to subscribe and
their answers in any number (`asked`, `subs`), and the way of a notification:
`NoteNotification` is the first one of a signature, which sets the timer; `NoteAnother` is
one that comes while the timer runs and may change the pending entry (`kept`) but not what
the timer has captured; `Process` is the timer, `Enriched` and `EnrichFails` the end
of the call for the parsed transaction. The trade executor charges the same manager
(`StartTrade`, `TradeFails`), and a switch closes an open socket.

**TransactionParser.** Pure functions, translated one by one, and around them the
three stages of a notification: what the logs say, the wait for the parsed form
during which the watch lists may change, and the event. Of the logs only
the amount and the mint they name are kept. The maps of
`collectTokenDeltas` are sets of accounts: of two with one owner and mint the later
counts (`LastOf`), and `Place` is the order in which the map lists its keys, which decides
between equal changes. TLC goes through every small transaction of the instance.

**WalletCustody.** A request is a process with a place `at`, named after the
await it is at. The key in the row, the key in `cache` and what `migration` is doing are
three things, changed by three steps. `issued` holds the action a token was issued for;
`panel` the tokens `WalletPanel` keeps, which it does not forget when they were
used. Withdrawals and manual trades go through the guard, the send, the poll and
their writes one by one; `LoseSend` is a send that was accepted and not answered.
`Restart` crashes the process between any two steps. `Chain` is the
blockchain.

**Realtime.** `client`, `server`, `serverOpen` and `link` are the four views of one connection:
the browser's, how far `handleConnection` is, the server's, and the wire's. A
connection breaks once, what is on its way is lost, and each side sees it on its
own. `Register` ends the session lookup, `LookupFails` is one that threw, which the
code answers like an invalid session. Of a trade whose confirmation timed out there are
the handler of the queue and the checker, in whatever order their steps come:
`InsertRow`, `Notify` and `CountPending` are the handler's, which may also end without
counting (`HandlerFails`: `execute` rejected, or the insert was answered with an error);
`SettleRow` and `ReportOutcome` are the two sides of the checker's await between
`pending_txs` and the rest, `LedgerFails` is a pass that ends in between, and `reporting`
counts the passes that are there. `Restart` ends handlers, passes and connections and
starts with a counter of zero. `Manual` trades are not counted.

## 3. Runs

| Run | Asks | Instance |
|---|---|---|
| `trade_shared` | `OneTradePerWallet`, `LimitRespected`, `ReportedIsRecorded`, `PendingRowsAreInLedger`, and refinement of `TradeOnce` (`KeepsPromise`) | two deliveries of any of four matches of two conditions (one limited to one execution) on one wallet, submission cache of one entry, one restart |
| `trade_redelivery` | `TradeInv`, `AtMostOneSend`, `ClaimedFinishes` | one match delivered twice, five actions, two of them TRADE, one restart, cleanup of `processed_events` |
| `settle` | `ConfirmedByChecker`, `TablesAgree`, `VerdictIsFinal`, `PendingResolved` | one trade from its match to its verdict, two passes that overlap, one restart |
| `queue` | `QueueInv`, `DropsOnlyWhenFull`, `AcceptedFinishes` | five events, two places, two slots |
| `funds` | `LockInv`, `NoOvertaking`, `WaiterEnters`, `FreshCheckCovers`, `NeverRefused` | two automated trades on a wallet that can pay for one; a manual trade on another |
| `registry` | `WatchedAsNeeded`, `CountsAreExact`, `QuietAgreement` | two conditions of one wallet and one mint, one on volume and one on large transfers; two calls at a time; restarts |
| `engine` | `OncePerEvent`, `CooldownKept`, `ThresholdBacked` | two bursts on one mint (three swaps in one unit of time, four in two) and a wallet's purchases; two signatures |
| `custody` | `VerifiedOnce`, `AddressesKept`, `AnswersHold` | two requests of any kind, two tokens, a wallet that is absent or has an old key, one crash |
| `ingestion` | `EmittedOnce`, `NotedIsEmitted`, `SubscribedAsWatched`, `SocketFollows` | a wallet, a program, a transaction both tell of, two providers |
| `realtime` | `ListedIsPending`, `RegisteredIsOpen`, `CounterIsExact`, `TabReturns` | three sockets, a trade, one break, one failed lookup, one change of the session, one restart; or a tab that is shut out and three trades, one of them manual, one overlap of passes, one restart |
| `parser` | `DirectionIsTrue`, `OwnTransfer` | every swap over three token accounts with balances up to two, every payment of two instructions, three settings |
| `edge_triggered` | violates `EdgeTriggered` | one burst condition, five events |

**Bounds.** Two deliveries are enough for every pairwise interleaving in the engine
(claim against claim, slot against slot, section against section); for the lock,
where a third and a fourth party matter (an entry replaced by one dispatch while a
second leaves and a third waits), TLC checks two and the proof covers any number.
`TradeCacheMax` of one makes
`trimTradeCache` drop keys at once. One restart separates two lives of the process. Two passes of the checker are enough to meet at every await of a row; `PageSize` is one,
since there is one row, and the proofs cover pages of any size. In the queue,
five events exceed what two places and two slots can take. In `funds` the deposit
is five, a trade takes two and a fee of one: the second trade is always one that
should be refused. In `registry` two calls at a time, any number of them one after
the other, meet at every await, and both conditions need the same wallet and mint, which is
when the order of references matters. In `engine` a fire cache of two and windows of
three entries overflow (`FireCacheMax`, `WindowMax`); four events, two changes and three
units of time (`MaxEvents`, `MaxChanges`, `MaxNow`) are enough for both bursts to fire
on the same window, for a cooldown to end, and for cleanup to forget. In `custody` a
request follows another or overlaps it, and a token is sent twice. In `ingestion` the
threshold of failures is two; counts stop there (`MaxCount`), a wallet has at most two
requests and two subscriptions (`MaxSubs`), which is one to follow a change of mind, and
a signature is no longer told of after two events (`MaxEmits`), which is one too many. In
`realtime` a third socket can be opened while one leaks and one waits for its
lookup (`MaxBreaks`, `MaxHiccups`, `MaxSessions` are one); `ListedIsPending` is about one
trade at a time, so one is enough. The counter knows nothing of sockets, and what trades do
to each other in it takes two that are counted and one that is not; three trades next to
three sockets are too many for TLC, so the run starts in either of two states the program
can be in: all trades but one are over (`OneTrade`), or the tab has been refused
(`TabRefused`). `MaxOverlaps`, passes that settle a row once more, is one, and used up in
the first. `MaxCrashes`, `MaxRetired` and
`MaxRestarts` are the remaining caps.

`registry` and `ingestion` check that there is no deadlock. The other runs, whose bounds or
whose system let everything come to an end (all deliveries over, the process gone),
do not; that nobody waits for ever is stated by the liveness properties instead.

**Fairness.**

- `TradeFairSpec`: a delivery goes on, because every call in it is answered, fails, or
  runs into a deadline (`confirmWithTimeout` has one; the node client and the pool reject).
- `FundsFairSpec`: the same of automated trades: a callback whose promise has resolved
  is run and a section ends.
- `SettleFairSpec`: the 15-second timer starts passes, a pass goes on or its call
  fails, time passes; and a call about one row that is repeated every 15 seconds does
  not fail every time (strong fairness). Nothing is assumed of the chain: a transaction may
  stay unknown, which is why the five-minute rule is needed, and its mutant (never
  written off) violates `PendingResolved`.
- `QueueFairSpec`: handlers settle.
- `IngestionFairness`: the debounce timer fires, and the call for a parsed
  transaction ends in one of the two ways. The socket need not come back.
- `RealtimeFairness`: the reconnect timer fires, handshakes and lookups end, and each
  side notices in the end that its connection is gone. Breaks are not fair: they
  need not happen and cannot happen for ever.

**Mutants.** Each property of a passing run has a mutant in `PROJECT.json`: an
operator named `Mut_...` next to the definition it replaces, a plausible slip in
that code, under which TLC finds the property violated.

## 4. What the code does not keep

The documentation says otherwise in several places. For one of them a run shows a
behaviour of the code that the sentence excludes:

- *Fires again while above* (`edge_triggered`, `conditions/engine.ts:313`): `wasAbove` is
  true only while the cooldown runs, so a window that stays above its threshold fires after
  every cooldown. `server/README.md:75`: "they fire once on the transition into threshold,
  not on every event while already above it".

The others follow from single statements of the code or are set aside, by name, in the
properties:

- *A large transfer nobody sees* (`conditions/engine.ts:53`): `load` indexes a condition by
  its wallet, or by its mint when its type is a windowed one. A LARGE_TRANSFER condition
  without a wallet is neither, so it is never a candidate, although `CONTRIBUTION.md:88` says
  that this type "doesn't need a specific wallet to watch" and ingestion subscribes to all
  transfers for it.
- *A timed-out trade reported as failed* (`executor.ts:345,363,367`): when one of the
  bookkeeping calls after the poll throws, the trade is reported as failed, and from the
  first two also has no row for the checker: its ledger row stays PENDING.
  `server/README.md:95`: "comes back `PENDING`, not failed, and is picked up by a background
  checker". `ReportedIsRecorded` says of a failed trade what the ledger says unless its
  bookkeeping broke off (`brokenOff`), which makes a CONFIRMED trade a failed one too.
- *A balance both believe in* (`server/README.md:85`: "two conditions firing for the same
  wallet at once can't both believe they have sufficient balance"). Two ways lead there: a trade
  that enters the section within three seconds of the guard of the one before sees the
  balance from before it (`tradeGuard.ts:77`), and a trade that timed out gives the lock back
  with its transaction in the air (`tradeExecutor.ts:171`). `FreshCheckCovers` is about
  balances the node was asked for, on wallets with nothing left in the air.
- *A manual trade next to an automated one* (`index.ts:751`): the route does not ask for the
  wallet's lock. `README.md:82`: "Every trade — automated or manual — passes through [...]
  per-wallet execution locking".
- *The first and not the highest* (`public-rpc-provider.ts:246`): the debounce timer has
  captured the first descriptor and logs, whatever comes after; the model has both (`noted`,
  `kept`). `server/README.md:59`: "the highest-priority subscription source kept".
- *Two addresses* (`walletManager.ts:88`): two creations at once both find no record, and one of
  them shows a key the table does not have. `server/README.md:103`: "Each user gets one
  server-generated keypair". `AddressesKept` sets them aside (`doubtful`), like an insert
  whose answer is lost.

Of what follows the documents say nothing, but for `server/README.md:63`. Here too the properties
say what does hold, and name these cases.

Trades:

- *Confirmed although it failed* (`tradeExecutor.ts:154`, `walletManager.ts:409`): both polls
  return CONFIRMED on `confirmationStatus` before they look at `err`, so a transaction that
  was executed with an error can be recorded and answered as confirmed. `AnswersHold` says of
  such an answer no more than that the transaction is on the chain. The checker
  looks at `err` first, which is `ConfirmedByChecker`.
- *A verdict taken back* (`index.ts:449`): passes can overlap, and the updates do
  not look at the status they replace (`pendingTxRepo.ts:58,71`). A node that lags lets one
  pass write off as failed what another has seen confirmed. `VerdictIsFinal` and `TablesAgree` hold
  for every row that two passes did not have on their pages at once (`contested`).
- *A counter that is off* (`index.ts:387,405`): a trade settled before it was counted lowers
  the counter at zero; one whose handler rejected is lowered and was never counted; a pass that
  fails after settling a row lowers nothing; two passes lower twice. After each of these
  `pendingExecutions` is wrong until the process restarts (`skewed` in `CounterIsExact`).
- A transaction that was sent and has no ledger row when the insert fails or the process
  stops before it (`executor.ts:325`); a settled row whose ledger row stays PENDING when
  the second write of the checker fails (`index.ts:404`); TRADE_FAILED followed by
  TRADE_CONFIRMED when the answer of `pendingTxRepo.insert` is lost (`executor.ts:397`);
  handlers cut off by the shutdown (`index.ts:997`).

Conditions:

- A condition switched off and then deleted is taken out of the reference counts twice
  (`index.ts:906` and the DELETE route), and tracking others need may end; `CountsAreExact`
  sets those mints aside.
- The save of a toggle that ends after a DELETE brings the row back, so the condition
  returns with the next restart (`index.ts:912`).
- Every condition on a mint adds an event to the window they share, so `n` of them
  reach their thresholds on an `n`th of the events (`engine.ts:186`).

Ingestion:

- A constructor that throws in `openWS` schedules no reconnect; a failure counted while
  the next socket connects leaves that socket on the provider just left; `disconnect`
  makes the close handler reconnect.
- A wallet given up before its subscription was answered stays subscribed
  (`public-rpc-provider.ts:97`).
- A wallet's two accounts of one mint are not added up (`transaction-parser.ts:189-216`);
  native SOL is not looked at, so a purchase paid in it is a SWAP and not a BUY, unlike
  `server/README.md:63`; the ends of a token transfer are token accounts, so the
  wallet's own is never found and the first one is taken.

Wallet and browser:

- A failed session lookup closes the socket with 1008 like an invalid session
  (`broadcast.ts:18-20`), after which `useSocket.ts:225` does not try again.
- A socket that closes during its lookup is registered afterwards and never removed; the
  tab shows itself connected before the server has registered it, and misses what is sent
  meanwhile.
- `TRADE_PENDING` is sent after the whole action loop and can be overtaken by
  the verdict (`executor.ts:119`); the tab then lists the trade as pending until it is
  loaded anew.

## 5. Proofs

The theorems hold for every value of the constants that satisfies the named
assumptions (`LockAssumption`, `TradeAssumption`, `QueueAssumption`,
`RegistryAssumption`, `EngineAssumption`, `CustodyAssumption`, `RpcAssumption`,
`IngestionAssumption`, `RealtimeAssumption`,
`SettlementAssumption`, `FundsAssumption`, `ParserAssumption`), which TLC evaluates in
every run. Every inductive invariant was checked by TLC on the instance of its module before
it was proved. Every invariant and every action property of a passing run has a theorem.

*WalletLock.* Mutual exclusion is not inductive: it needs to know whom a dispatch
is chained behind. `LockInv` says that the promises of a wallet are its queue: the
one a dispatch waits for is the last arrival before it (`ChainedBehindLast`), the
map's entry is the last arrival (`TailIsLast`), whoever has started has nobody
unsettled before it (`StartedInOrder`), and a missing entry means that nobody is
unsettled (`FreeWhenAbsent`), which is what `Release` needs for its deletion. There is one
lemma per action; `MutualExclusion` and `ArrivalOrder` follow.

*TradeExecution.* `EngineImplementsLock`: every step of the engine is a step of
`WalletLock` or leaves its variables alone, so `LockInv` is inherited.
`TradeInvariant` adds that a delivery in a TRADE case is at a TRADE action, that its
progress and its lock phase agree, that a claimed match stays in `processed_events`
until its signature is retired, that no two deliveries claim one match, and that
only a claimed delivery has sent. The proofs go through two summaries of a
step, `Moves` (where a delivery can go) and `ClaimsKept`. From it:
`SerializedPerWallet`, `IdempotentTrading` and, with the values returned by
`incrementIfUnderLimit` as witnesses (`SlotsWithinLimit`: distinct, at most the count,
and the count within the limit), `ExecutionLimit`, by injecting the sends of a condition
into `1..Limit`.

`EngineKeepsPromise` proves the refinement of `TradeOnce`: `SendTransaction` is the only
step that changes `SendCount`. It adds one to the sends of its match, which had none
(`IdempotentTrading` of the next state) and left room for one more below the limit
(`SlotsWithinLimit`), so it is a `Send`; every other step stutters.
`NotificationMatchesLedger` and `PendingIsBooked` rest on `BookedInOrder`: a trade that
has not come to `RecordTrade` is in no table, after it each row comes from the result
`executeTrade` returned, and what is reported comes from the rows. That covers all three
reports: a failed trade is recorded as failed, or was refused and never sent
(`FailureRecorded`), unless a call of its bookkeeping threw (`brokenOff`).

`IdempotentTrading`, `EngineKeepsPromise` and `PromiseNextToChecker` assume
`OneTradePerCondition`. With two TRADE actions in one condition the property rests on
the submission cache, which keeps a bounded number of keys; `trade_redelivery` checks it
for a cache that is large enough. The web client builds conditions with one action
(`web/components/ConditionBuilder.tsx:258`).

*Settlement.* The checker changes only `pendingTx`, `ledger` and `inbox`, which
`TradeInv` bounds by their types, so `SettleInvariant` keeps the engine's invariant.
With it `PromiseNextToChecker` carries the refinement of `TradeOnce` over to the two
together. `ConfirmedOnChain` needs `SeenOnChain`: what was confirmed stays so, what has
not been sent is not on the chain, and a pass that has seen "ok" is at a confirmed row;
it holds for any number of overlapping passes. `TablesAlwaysAgree` and
`VerdictsAreFinal` hold for any number of overlapping passes too, and assume nothing of the
timer; they set aside the rows two passes had on their pages at once (`contested`), for which
they are false (section 4). `PassesInv` is the invariant: the tables follow the order of the
writes (`Recorded`), a message says what the ledger says (`Announced`), what a pass has on
its page is in `pending_txs`, and open there unless the pass is between its two writes
(`AtWork`), and a row on two pages is contested (`PagesApart`). So whoever writes about a row
that is not contested is the only one who can.

*WalletFunds.* `FundsKeepLock` inherits `LockInv` as the engine does. `FundsInv` says
that whoever is inside the section holds the lock, that money is in the air only for a
spend that awaits its confirmation or left it there (`leftInAir`), that the node is
asked only for somebody who waits, so an answer is never older than the section of the
trade that gets it, and that what an undisturbed trade knows of its wallet is still so
(`StillTrue`). `CoveredFromGuardToSend` and `NeverRefusedOnChain` are parts of it.

*EventQueue.* `Drain` is not a loop in the model but its result; `DrainNone` and
`DrainOne` say what it does when nothing, or one event, can be started, which are the
only cases a push or the end of a handler can meet once the invariant holds.
`QueueInvariant` then goes by action; `EventsOnce` is needed to know that a handler that
settles was counted once. `DropsWhenFull` follows from the invariant: a full queue means
busy slots.

*ConditionRegistry.* `WatchedAsNeeded` is inductive once the types are known: every step that
drops a wallet looks at all stored conditions first. `ExactCounts` needs more: a
creation under way is of a condition that nobody has stored yet, so that registering
it adds one to each count. Its counting steps are lemmas on the cardinality of a set
with an element more or fewer; a second removal is what `twice` records.
`AgreementWhenQuiet` is about calls that are over, so `AgreeInv` says for each call under
way how far it has taken the four copies of a condition: `Posted`, `Deleted` and `Toggled` go
through the places of the three handlers. As long as a condition is not in
`disturbed`, its call is alone (`Alone`), and a list that was asked for before has what is
stored (`ListedAs`). A restart loses the call but not its row, which is why a failed deletion
or toggle may still find the table as it was, and a creation is counted as disturbed.

*ConditionEngine.* `NeverHeldBack` says why `EdgeTriggered` fails: `above` is set only while
the cooldown runs (`AboveInCooldown`, inductive with the types), since whatever forgets a
cooldown (its end, the cleanup, an unload) forgets `above` with it. `CooldownObserved` rests on
`Covered`: while a condition stays loaded, the cooldown after its last fire is over or
is the entry in the map. `NotTwiceOnOneEvent` needs to know what the cache is: the end of
the list of all matches (`CacheIsRecent`), with nothing forgotten or at least as many as
`trimFireCache` leaves (`CacheHolds`), so a match that is not in it is that far back.

`BackedByEvents` (`ThresholdBacked`) has to say what a window has to do with the events
behind it. `WindowsTraced` does: there is a past event for each entry, with its time and
amount, and of those the condition counts, and a rank among the conditions sharing
the window, the one that put it there; events and ranks grow along the window, and of
the event being evaluated only the conditions already checked have put anything. So
no event is in a window more often than conditions share it, and `TotalBound` says that a
sequence with each event at most `k` times has a total of at most `k` times theirs.
`FireBacked` applies it to the window of a match when it is let through, whose entries are no
older than the window is long (`WindowEffect`), and `EnoughLater` carries it on, since `past`
only grows. An `Unload` in the
middle keeps all this: it leaves the windows as they are, for the others on the mint.

*TransactionParser.* The invariant is about the event once it is out (`ParserInv`); what
takes work are the functions. `PicksOwn`: the transfer taken is one of the wallet's own if
there is one. `GrowthIsDelta`: what a wallet's accounts of a mint have grown by, added
up, is the difference the two maps give, if no two of its accounts are of one mint, also
for an account that is opened or closed. `DominantIsGreatest`: the mint taken has the
greatest change. `SwappedIsTold` goes through the directions with them.

`Total`, `Recent` and `Growth` are recursive functions over the length of a sequence. The
library's induction theorems take the statement to be proved as an operator, which the
provers cannot instantiate; the first section of `EventMatching_proofs` does without:
`LeastNumber` gives a non-empty set of numbers its least element, since `<` is well founded,
and a set that has zero and is closed under successors up to `n` has all numbers up to `n`
(`UpTo`). A statement becomes the set of the numbers for which it holds.

*WalletCustody.* `CustodyInv` (also checked by TLC before it was proved) says which
requests can be at which place (the route), that whoever is past its verification is in
`authorised` and its token gone, that a transaction exists only after a send, and that
each place after it has the writes before it. `OneUse` and `TrueAnswers` follow.
`NoAddressLost` has its own `AddressInv`: only the old key is migrated, and until
something made the table doubtful at most one creation is under way, its place says what
the row has, and the cache is behind the row only between the two steps of a creation.

*Ingestion.* `OneEvent` follows from `SeenOnce`: until it is trimmed, a signature that
is not in the set `emitted` has no event and is not awaited, and one that is in it has
its event behind it or its enrichment under way, never both. `SocketOnActive` extends
the property to the time the socket connects, where the provider can move on already.
`SubscriptionsFollowWatch` rests on `SubsAccounted`, which counts: the requests without
an answer and the subscriptions of a wallet are together at least one if it is watched
and not refused, and at most one if it was never given up early, so the last answer
settles which it is.

*Realtime.* `RegisteredIsOpen` is inductive: what closes during its lookup is in
`leaked` when it is registered. `ExactCount` is about trades whose handler has
ended in any way: it counted, it failed or it died with the server. Behind it is the equation
`Balanced`: as long as nothing has skewed the counter, it and the trades settled ahead of
their being counted (`Ahead`) make up those that are counted or will be and not yet reported
(`Owed`); a pass between its two writes has its trade in hand (`InHand`). `TabListsPending` follows a trade from the server to the tab: once
its row is settled, either the order was wrong or something was missed, or the outcome
is in what is on its way behind the message that lists it (`OutcomeComes`); a connection
that breaks makes what it carried missed.

Only model-checked: liveness (`ClaimedFinishes`, `PendingResolved`, `AcceptedFinishes`,
`WaiterEnters`, `NotedIsEmitted`, `TabReturns`), since fairness and ENABLED are outside the
prover, and the violation of `EdgeTriggered`.

## 6. Not modelled

- In the runs, pages of several rows and two trades next to the checker: liveness with two
  trades is beyond TLC in reasonable time. The safety properties are proved for them.
- The deletion or switching off of a condition while a match of it is in flight.
- Forks that drop a transaction that was already processed.
- Trigger statistics, `/stats` with its health labels, latencies, and what messages say
  beyond their type.
- Sells, whose guard reads a token balance through a cache of the same kind; the rate
  limiter, a counter per minute; `TTLCache.delete`, whose caller only clears views.
- The Jupiter client (an external service whose quotes are taken as given or failed; the
  age of a quote matters only with prices, which are not modelled) and the token
  registry (display names).
- Authentication, the pool and HTTP plumbing, but for a session lookup that fails.
- The Yellowstone provider, a stub that nothing instantiates.
- The web components that only render what the hooks hold.

Time is abstracted to what has expired (`old`, `retired`, `Expire`), except in
`ConditionEngine`, which has a clock.

## 7. What could come next

A composition from the event to the notification (queue, engine, execution), and conditions
that are switched off or deleted while a match of theirs is in flight.
