---------------------------- MODULE WalletFunds -----------------------------
(***************************************************************************)
(* What the guards of server/src/execution/tradeGuard.ts believe of a      *)
(* wallet's SOL balance and what is really there, while automated trades   *)
(* (executor.ts, case TRADE) and manual trades (index.ts, POST             *)
(* /trade/manual) spend from it.                                           *)
(*                                                                         *)
(* Automated trades hold the wallet's lock from the guard to the result;   *)
(* manual trades have the same guard and do not ask for the lock, nor do   *)
(* withdrawals of SOL, which are in WalletCustody.  The guard reads the    *)
(* balance through a cache of three seconds                                *)
(* that no spend invalidates (invalidateWallet clears another cache), and  *)
(* a spend whose confirmation times out is over while its transaction may  *)
(* still be executed.                                                      *)
(*                                                                         *)
(* Only purchases are modelled: a sale asks checkTokenBalance for a share  *)
(* of a token balance through a cache of the same kind.                    *)
(***************************************************************************)
EXTENDS WalletLock

CONSTANTS
  Manual,       \* requests to /trade/manual; automated trades are Dispatches
  WalletOfSpend,\* the wallet each of them spends from
  Amount,       \* the amount it asks for
  Fee,          \* what the chain takes on top
  FeeBuffer,    \* FEE_BUFFER_SOL, what checkBalance wants on top
  Deposit,      \* what each wallet holds at first
  NoBalance,    \* no balance: not cached, or the node could not be asked
  Asked         \* the node was asked and has not read the balance yet

Spends == Dispatches \cup Manual

ASSUME FundsAssumption ==
  /\ WalletOfSpend \in [Spends -> Wallets]
  /\ Amount \in [Spends -> Nat \ {0}]
  /\ FeeBuffer \in Nat /\ Fee \in 0 .. FeeBuffer
  /\ Deposit \in [Wallets -> Nat]
  /\ NoBalance \notin Nat /\ Asked \notin Nat \cup {NoBalance}
  /\ Dispatches \cap Manual = {}

VARIABLES
  step,          \* where a spend is
  belief,        \* the balance its guard was given
  funds,         \* what each wallet holds on the chain
  balanceCache,  \* TradeGuard.balanceCache: its entries
  fetch,         \* TradeGuard.balanceCache: the call of getBalance under way
  flight,        \* what became of a spend's transaction
  fresh,         \* history: spends whose guard asked the node, not the cache
  leftInAir      \* history: spends that ended before their transaction did

fundsVars == <<step, belief, funds, balanceCache, fetch, flight, fresh,
               leftInAir, lockVars>>

\* "checking": at its guard.  "awaiting": until getBalance answers.  "checked":
\* with a balance.  "building": past the guard, up to the send.  "confirming":
\* awaiting the confirmation.  "ended": has its result.
Steps   == {"new", "queued", "checking", "awaiting", "checked", "building",
            "confirming", "ended"}
Flights == {"none", "air", "landed", "refused"}

FundsInit ==
  /\ LockInit
  /\ step = [t \in Spends |-> "new"]
  /\ belief = [t \in Spends |-> NoBalance]
  /\ funds = Deposit
  /\ balanceCache = [w \in Wallets |-> NoBalance]
  /\ fetch = [w \in Wallets |-> NoBalance]
  /\ flight = [t \in Spends |-> "none"]
  /\ fresh = {}
  /\ leftInAir = {}

-----------------------------------------------------------------------------
(* Operations                                                              *)

Wallet(t) == WalletOfSpend[t]
Cost(t)   == Amount[t] + Fee
GoTo(t, s) == step' = [step EXCEPT ![t] = s]

\* An automated trade's result settles its promise; others just return.
EndSpend(t, outcome) ==
  /\ GoTo(t, "ended")
  /\ leftInAir' = IF outcome = "air" THEN leftInAir \cup {t} ELSE leftInAir
  /\ IF t \in Dispatches THEN Settle(t) ELSE UNCHANGED lockVars

\* A TRADE action chains its section behind the wallet's lock.
QueueTrade(t) ==
  /\ t \in Dispatches /\ step[t] = "new"
  /\ Request(t, Wallet(t))
  /\ GoTo(t, "queued")
  /\ UNCHANGED <<belief, funds, balanceCache, fetch, flight, fresh, leftInAir>>

EnterSection(t) ==
  /\ t \in Dispatches /\ step[t] = "queued"
  /\ Acquire(t)
  /\ GoTo(t, "checking")
  /\ UNCHANGED <<belief, funds, balanceCache, fetch, flight, fresh, leftInAir>>

\* A manual trade goes straight to its guard.
StartManual(t) ==
  /\ t \in Manual /\ step[t] = "new"
  /\ GoTo(t, "checking")
  /\ UNCHANGED <<belief, funds, balanceCache, fetch, flight, fresh, leftInAir, lockVars>>

\* Another guard refuses the trade, or a call before the send fails.
GiveUp(t) ==
  /\ step[t] \in {"checking", "building"}
  /\ EndSpend(t, flight[t])
  /\ UNCHANGED <<belief, funds, balanceCache, fetch, flight, fresh>>

\* checkBalance up to its await: the cached balance, or the answer to come of a
\* call that is under way already or begins now.
AskBalance(t) ==
  LET w == Wallet(t) IN
  /\ step[t] = "checking"
  /\ \/ /\ balanceCache[w] # NoBalance
        /\ belief' = [belief EXCEPT ![t] = balanceCache[w]]
        /\ GoTo(t, "checked")
        /\ UNCHANGED <<fetch, fresh>>
     \/ /\ balanceCache[w] = NoBalance
        /\ fetch' = [fetch EXCEPT ![w] = IF @ = NoBalance THEN Asked ELSE @]
        /\ fresh' = fresh \cup {t}
        /\ GoTo(t, "awaiting")
        /\ UNCHANGED belief
  /\ UNCHANGED <<funds, balanceCache, flight, leftInAir, lockVars>>

\* The node reads the balance it will answer with.
ReadFunds(w) ==
  /\ fetch[w] = Asked
  /\ fetch' = [fetch EXCEPT ![w] = funds[w]]
  /\ UNCHANGED <<step, belief, funds, balanceCache, flight, fresh, leftInAir, lockVars>>

Answers(w) == {fetch[w], NoBalance} \ {Asked}

\* The answer arrives and is cached, or the call fails; either way everybody
\* who waits for it goes on.
BalanceArrives(w) ==
  LET waiting == {t \in Spends : step[t] = "awaiting" /\ Wallet(t) = w} IN
  /\ fetch[w] # NoBalance
  /\ \E answer \in Answers(w) :
       /\ belief' = [t \in Spends |-> IF t \in waiting THEN answer ELSE belief[t]]
       /\ balanceCache' = IF answer = NoBalance THEN balanceCache
                          ELSE [balanceCache EXCEPT ![w] = answer]
  /\ step' = [t \in Spends |-> IF t \in waiting THEN "checked" ELSE step[t]]
  /\ fetch' = [fetch EXCEPT ![w] = NoBalance]
  /\ UNCHANGED <<funds, flight, fresh, leftInAir, lockVars>>

\* Mutant: the fees are not part of what the guard asks for.
Mut_Enough(balance, t) == balance >= Amount[t]

Enough(balance, t) == balance >= Amount[t] + FeeBuffer

\* checkBalance after its await; an unreachable node is a refusal.
CheckBalance(t) ==
  /\ step[t] = "checked"
  /\ IF belief[t] # NoBalance /\ Enough(belief[t], t)
     THEN GoTo(t, "building") /\ UNCHANGED <<leftInAir, lockVars>>
     ELSE EndSpend(t, flight[t])
  /\ UNCHANGED <<belief, funds, balanceCache, fetch, flight, fresh>>

\* sendRawTransaction, whose preflight refuses what the wallet cannot pay (then
\* the trade gives up); its answer may be lost.
Send(t) ==
  /\ step[t] = "building" /\ funds[Wallet(t)] >= Cost(t)
  /\ flight' = [flight EXCEPT ![t] = "air"]
  /\ \/ GoTo(t, "confirming") /\ UNCHANGED <<leftInAir, lockVars>>
     \/ EndSpend(t, "air")
  /\ UNCHANGED <<belief, funds, balanceCache, fetch, fresh>>

\* confirmWithTimeout: the outcome was seen, or the deadline has passed.
Confirm(t) ==
  /\ step[t] = "confirming"
  /\ EndSpend(t, flight[t])
  /\ UNCHANGED <<belief, funds, balanceCache, fetch, flight, fresh>>

\* After `await nextLock`.
LeaveLock(t) ==
  /\ t \in Dispatches /\ step[t] = "ended"
  /\ Release(t)
  /\ UNCHANGED <<step, belief, funds, balanceCache, fetch, flight, fresh, leftInAir>>

\* The chain executes a transaction, if the wallet still pays for it.
Execute(t) ==
  LET w == Wallet(t) IN
  /\ flight[t] = "air"
  /\ \/ /\ funds[w] >= Cost(t)
        /\ funds' = [funds EXCEPT ![w] = @ - Cost(t)]
        /\ flight' = [flight EXCEPT ![t] = "landed"]
     \/ /\ funds[w] < Cost(t)
        /\ flight' = [flight EXCEPT ![t] = "refused"]
        /\ UNCHANGED funds
  /\ UNCHANGED <<step, belief, balanceCache, fetch, fresh, leftInAir, lockVars>>

\* Three seconds after it was fetched, a balance is forgotten.
Expire(w) ==
  /\ balanceCache[w] # NoBalance
  /\ balanceCache' = [balanceCache EXCEPT ![w] = NoBalance]
  /\ UNCHANGED <<step, belief, funds, fetch, flight, fresh, leftInAir, lockVars>>

FundsNext ==
  \/ \E t \in Spends :
       \/ QueueTrade(t) \/ EnterSection(t) \/ StartManual(t)
       \/ AskBalance(t) \/ CheckBalance(t) \/ GiveUp(t) \/ Send(t) \/ Confirm(t)
       \/ LeaveLock(t) \/ Execute(t)
  \/ \E w \in Wallets : ReadFunds(w) \/ BalanceArrives(w) \/ Expire(w)

FundsSpec == FundsInit /\ [][FundsNext]_fundsVars

\* What an automated trade does next, at its guard with the node's answer.
Proceeds(t) ==
  \/ EnterSection(t) \/ AskBalance(t) \/ ReadFunds(Wallet(t)) \/ BalanceArrives(Wallet(t))
  \/ CheckBalance(t) \/ Send(t) \/ GiveUp(t) \/ Confirm(t)

\* The event loop runs what is ready and every call is answered, fails or times
\* out.  Nothing is assumed of the chain or of those who do not take the lock.
FundsFairSpec == FundsSpec /\ \A t \in Dispatches : WF_fundsVars(Proceeds(t))

-----------------------------------------------------------------------------
(* Properties                                                              *)

\* The state is of the expected types; a balance is never negative, so no
\* spend takes what is not there.
FundsTypeOK ==
  /\ LockTypeOK
  /\ step \in [Spends -> Steps]
  /\ belief \in [Spends -> Nat \cup {NoBalance}]
  /\ funds \in [Wallets -> Nat]
  /\ balanceCache \in [Wallets -> Nat \cup {NoBalance}]
  /\ fetch \in [Wallets -> Nat \cup {NoBalance, Asked}]
  /\ flight \in [Spends -> Flights]
  /\ fresh \subseteq Spends /\ leftInAir \subseteq Spends

SameWallet(t) == {u \in Spends : Wallet(u) = Wallet(t)}

\* The spends of the wallet of t are automated, and each saw its transaction's
\* outcome before it gave the lock back.
Undisturbed(t) ==
  SameWallet(t) \subseteq Dispatches /\ SameWallet(t) \cap leftInAir = {}

\* The lock does its part (the tail of walletLocks, checkBalance): on a wallet
\* left to automated trades, a trade whose guard asked the node is covered,
\* fees included, from its guard to the send, although trades before it were
\* still in the air when it was requested.
FreshCheckCovers ==
  \A t \in Dispatches \cap fresh :
    step[t] = "building" /\ Undisturbed(t) => funds[Wallet(t)] >= Cost(t)

\* And it stays covered until the chain executes it: such a trade is never
\* refused for want of funds.
NeverRefused ==
  \A t \in Dispatches \cap fresh : Undisturbed(t) => flight[t] # "refused"

-----------------------------------------------------------------------------
(* The inductive invariant behind them                                     *)

Inside == {"checking", "awaiting", "checked", "building", "confirming"}

\* The progress of an automated trade and the lock agree, on its wallet.
StepsAgree ==
  \A t \in Dispatches :
    /\ step[t] = "new" => phase[t] = "idle"
    /\ step[t] = "queued" => phase[t] = "waiting"
    /\ step[t] \in Inside => phase[t] = "held"
    /\ step[t] # "new" => lockOf[t] = Wallet(t)

\* A transaction is in the air while its spend awaits its confirmation, or is
\* left there.
AirAccounted ==
  \A t \in Spends :
    /\ flight[t] # "none" => step[t] \in {"confirming", "ended"}
    /\ flight[t] = "air" /\ step[t] = "ended" => t \in leftInAir

\* The node is asked only for somebody who waits, and whoever has asked it goes
\* by its answer.
AskedForSomebody ==
  /\ \A w \in Wallets : fetch[w] # NoBalance =>
       \E t \in Spends : step[t] = "awaiting" /\ Wallet(t) = w
  /\ \A t \in fresh : step[t] \notin {"new", "queued", "checking"}

\* What an undisturbed trade knows of its wallet is still so.
StillTrue(t) ==
  LET w == Wallet(t) IN
  /\ step[t] = "awaiting" => fetch[w] \in {NoBalance, Asked, funds[w]}
  /\ t \in fresh =>
       /\ step[t] = "checked" => belief[t] \in {NoBalance, funds[w]}
       /\ step[t] = "building" => funds[w] >= Cost(t)
       /\ flight[t] = "air" => funds[w] >= Cost(t)
       /\ flight[t] # "refused"

FundsInv ==
  /\ FundsTypeOK
  /\ LockInv
  /\ StepsAgree
  /\ AirAccounted
  /\ AskedForSomebody
  /\ \A t \in Dispatches : Undisturbed(t) => StillTrue(t)
=============================================================================
