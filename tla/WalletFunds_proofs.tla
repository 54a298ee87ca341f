------------------------- MODULE WalletFunds_proofs -------------------------
(***************************************************************************)
(* Proofs about WalletFunds for any number of automated and manual trades, *)
(* any wallets, amounts and deposits.  On a wallet left to automated       *)
(* trades the lock makes the trade at its guard the only one that can      *)
(* change the balance, so what the node answered stays true until it sends.*)
(***************************************************************************)
EXTENDS WalletFunds, WalletLock_proofs

-----------------------------------------------------------------------------
(* The lock                                                                *)

\* A spend ends by settling its promise, if it has one.
LEMMA EndsAndSettles ==
  ASSUME NEW t \in Spends, NEW outcome, EndSpend(t, outcome)
  PROVE  [LockNext]_lockVars
BY DEF EndSpend, LockNext

\* What spends do to the lock are the lock's own steps.
LEMMA FundsLockStep == FundsTypeOK /\ [FundsNext]_fundsVars => [LockNext]_lockVars
<1> SUFFICES ASSUME FundsTypeOK, [FundsNext]_fundsVars
             PROVE  [LockNext]_lockVars
  OBVIOUS
<1>1. ASSUME NEW t \in Spends, QueueTrade(t)
      PROVE  [LockNext]_lockVars
  BY <1>1, FundsAssumption DEF QueueTrade, Wallet, LockNext
<1>2. ASSUME NEW t \in Spends, EnterSection(t) \/ LeaveLock(t)
      PROVE  [LockNext]_lockVars
  BY <1>2 DEF EnterSection, LeaveLock, LockNext
<1>3. ASSUME NEW t \in Spends, GiveUp(t) \/ CheckBalance(t) \/ Send(t) \/ Confirm(t)
      PROVE  [LockNext]_lockVars
  BY <1>3, EndsAndSettles DEF GiveUp, CheckBalance, Send, Confirm
<1>4. ASSUME NEW t \in Spends, StartManual(t) \/ AskBalance(t) \/ Execute(t)
      PROVE  [LockNext]_lockVars
  BY <1>4 DEF StartManual, AskBalance, Execute
<1>5. ASSUME NEW w \in Wallets, ReadFunds(w) \/ BalanceArrives(w) \/ Expire(w)
      PROVE  [LockNext]_lockVars
  BY <1>5 DEF ReadFunds, BalanceArrives, Expire
<1>6. CASE UNCHANGED fundsVars
  BY <1>6 DEF fundsVars
<1>7. QED
  BY <1>1, <1>2, <1>3, <1>4, <1>5, <1>6 DEF FundsNext

-----------------------------------------------------------------------------
(* Types                                                                   *)

\* The end of a spend is typed.
LEMMA EndTyped ==
  ASSUME FundsTypeOK, NEW t \in Spends, NEW outcome, EndSpend(t, outcome)
  PROVE  /\ step' = [step EXCEPT ![t] = "ended"] /\ step' \in [Spends -> Steps]
         /\ leftInAir' \subseteq Spends /\ leftInAir \subseteq leftInAir'
         /\ outcome = "air" => t \in leftInAir'
         /\ t \in Dispatches => phase' = [phase EXCEPT ![t] = "settled"]
         /\ t \notin Dispatches => phase' = phase
         /\ lockOf' = lockOf
BY DEF EndSpend, GoTo, FundsTypeOK, Steps, Settle, lockVars

\* Every step keeps the types; a balance stays at least zero.
LEMMA FundsTypeStep == FundsTypeOK /\ LockTypeOK' /\ [FundsNext]_fundsVars => FundsTypeOK'
<1> SUFFICES ASSUME FundsTypeOK, LockTypeOK', [FundsNext]_fundsVars
             PROVE  FundsTypeOK'
  OBVIOUS
<1> USE DEF FundsTypeOK, Steps
<1>1. ASSUME NEW t \in Spends, QueueTrade(t) \/ EnterSection(t) \/ StartManual(t)
      PROVE  FundsTypeOK'
  BY <1>1 DEF QueueTrade, EnterSection, StartManual, GoTo
<1>2. ASSUME NEW t \in Spends, GiveUp(t) \/ Confirm(t)
      PROVE  FundsTypeOK'
  BY <1>2, EndTyped DEF GiveUp, Confirm
<1>3. ASSUME NEW t \in Spends, CheckBalance(t)
      PROVE  FundsTypeOK'
  <2>1. CASE belief[t] # NoBalance /\ Enough(belief[t], t)
    BY <1>3, <2>1 DEF CheckBalance, GoTo
  <2>2. CASE ~(belief[t] # NoBalance /\ Enough(belief[t], t))
    BY <1>3, <2>2, EndTyped DEF CheckBalance
  <2>3. QED
    BY <2>1, <2>2
<1>4. ASSUME NEW t \in Spends, AskBalance(t)
      PROVE  FundsTypeOK'
  <2>1. Wallet(t) \in Wallets
    BY FundsAssumption DEF Wallet
  <2>2. QED
    BY <1>4, <2>1 DEF AskBalance, GoTo
<1>5. ASSUME NEW t \in Spends, Send(t)
      PROVE  FundsTypeOK'
  <2>1. CASE GoTo(t, "confirming") /\ UNCHANGED <<leftInAir, lockVars>>
    BY <1>5, <2>1 DEF Send, GoTo, Flights
  <2>2. CASE EndSpend(t, "air")
    BY <1>5, <2>2, EndTyped DEF Send, Flights
  <2>3. QED
    BY <1>5, <2>1, <2>2 DEF Send
<1>6. ASSUME NEW t \in Spends, LeaveLock(t)
      PROVE  FundsTypeOK'
  BY <1>6 DEF LeaveLock
<1>7. ASSUME NEW t \in Spends, Execute(t)
      PROVE  FundsTypeOK'
  <2>1. Wallet(t) \in Wallets /\ Cost(t) \in Nat
    BY FundsAssumption DEF Wallet, Cost
  <2>2. funds' \in [Wallets -> Nat]
    BY <1>7, <2>1 DEF Execute
  <2>3. QED
    BY <1>7, <2>2 DEF Execute, Flights
<1>8. ASSUME NEW w \in Wallets, ReadFunds(w) \/ Expire(w)
      PROVE  FundsTypeOK'
  BY <1>8 DEF ReadFunds, Expire
<1>9. ASSUME NEW w \in Wallets, BalanceArrives(w)
      PROVE  FundsTypeOK'
  <2>1. Answers(w) \subseteq Nat \cup {NoBalance}
    BY DEF Answers
  <2>2. QED
    BY <1>9, <2>1 DEF BalanceArrives
<1>10. CASE UNCHANGED fundsVars
  BY <1>10 DEF fundsVars
<1>11. QED
  BY <1>1, <1>2, <1>3, <1>4, <1>5, <1>6, <1>7, <1>8, <1>9, <1>10 DEF FundsNext

-----------------------------------------------------------------------------
(* Progress                                                                *)

\* An automated trade goes through its lock as through its steps.
LEMMA StepsAgreeStep ==
  FundsTypeOK /\ StepsAgree /\ [FundsNext]_fundsVars => StepsAgree'
<1> SUFFICES ASSUME FundsTypeOK, StepsAgree, [FundsNext]_fundsVars
             PROVE  StepsAgree'
  OBVIOUS
<1> USE DEF StepsAgree, FundsTypeOK, LockTypeOK, Inside, GoTo
<1>1. ASSUME NEW t \in Spends, QueueTrade(t) \/ EnterSection(t) \/ StartManual(t)
      PROVE  StepsAgree'
  BY <1>1, FundsAssumption DEF QueueTrade, EnterSection, StartManual, Request, Acquire,
     lockVars, Spends
<1>2. ASSUME NEW t \in Spends, NEW outcome, EndSpend(t, outcome), step[t] \in Inside
      PROVE  StepsAgree'
  BY <1>2, EndTyped DEF Spends
<1>3. ASSUME NEW t \in Spends, UNCHANGED lockVars, step[t] \in Inside,
             NEW s \in Inside, GoTo(t, s)
      PROVE  StepsAgree'
  BY <1>3 DEF lockVars, Spends
<1>4. ASSUME NEW t \in Spends, GiveUp(t) \/ CheckBalance(t) \/ Send(t) \/ Confirm(t)
      PROVE  StepsAgree'
  BY <1>2, <1>3, <1>4 DEF GiveUp, CheckBalance, Send, Confirm
<1>5. ASSUME NEW t \in Spends, AskBalance(t)
      PROVE  StepsAgree'
  BY <1>3, <1>5 DEF AskBalance
<1>6. ASSUME NEW t \in Spends, LeaveLock(t)
      PROVE  StepsAgree'
  BY <1>6 DEF LeaveLock, Release, Spends
<1>7. ASSUME UNCHANGED <<step, phase, lockOf>>
      PROVE  StepsAgree'
  BY <1>7
<1>8. ASSUME NEW w \in Wallets, BalanceArrives(w)
      PROVE  StepsAgree'
  BY <1>8 DEF BalanceArrives, lockVars, Spends
<1>9. QED
  BY <1>1, <1>4, <1>5, <1>6, <1>7, <1>8 DEF FundsNext, Execute, ReadFunds, Expire, fundsVars,
     lockVars

\* A transaction comes from a send, and a spend that ends before it is noted.
LEMMA AirStep == FundsTypeOK /\ AirAccounted /\ [FundsNext]_fundsVars => AirAccounted'
<1> SUFFICES ASSUME FundsTypeOK, AirAccounted, [FundsNext]_fundsVars
             PROVE  AirAccounted'
  OBVIOUS
<1> USE DEF AirAccounted, FundsTypeOK, GoTo
<1>1. ASSUME NEW t \in Spends, EndSpend(t, flight[t]), UNCHANGED flight
      PROVE  AirAccounted'
  BY <1>1, EndTyped
<1>2. ASSUME NEW t \in Spends, step[t] \notin {"confirming", "ended"}, NEW s, GoTo(t, s),
             UNCHANGED <<flight, leftInAir>>
      PROVE  AirAccounted'
  BY <1>2
<1>3. ASSUME NEW t \in Spends, GiveUp(t) \/ CheckBalance(t) \/ Confirm(t) \/ QueueTrade(t)
                               \/ EnterSection(t) \/ StartManual(t) \/ AskBalance(t)
      PROVE  AirAccounted'
  BY <1>1, <1>2, <1>3 DEF GiveUp, CheckBalance, Confirm, QueueTrade, EnterSection, StartManual,
     AskBalance
<1>4. ASSUME NEW t \in Spends, Send(t)
      PROVE  AirAccounted'
  BY <1>4, EndTyped DEF Send
<1>5. ASSUME NEW t \in Spends, Execute(t)
      PROVE  AirAccounted'
  BY <1>5 DEF Execute
<1>6. ASSUME NEW w \in Wallets, BalanceArrives(w)
      PROVE  AirAccounted'
  BY <1>6 DEF BalanceArrives
<1>7. ASSUME UNCHANGED <<step, flight, leftInAir>>
      PROVE  AirAccounted'
  BY <1>7
<1>8. QED
  BY <1>3, <1>4, <1>5, <1>6, <1>7 DEF FundsNext, LeaveLock, ReadFunds, Expire, fundsVars

\* The node's answer goes to everybody who waits for it.
LEMMA AskedStep == FundsTypeOK /\ AskedForSomebody /\ [FundsNext]_fundsVars => AskedForSomebody'
<1> SUFFICES ASSUME FundsTypeOK, AskedForSomebody, [FundsNext]_fundsVars
             PROVE  AskedForSomebody'
  OBVIOUS
<1> USE DEF AskedForSomebody, FundsTypeOK, GoTo
<1>1. ASSUME NEW t \in Spends, step[t] # "awaiting", NEW s, GoTo(t, s),
             s \in {"new", "queued", "checking"} => t \notin fresh,
             UNCHANGED <<fetch, fresh>>
      PROVE  AskedForSomebody'
  BY <1>1
<1>2. ASSUME NEW t \in Spends, GiveUp(t) \/ CheckBalance(t) \/ Confirm(t) \/ QueueTrade(t)
                               \/ EnterSection(t) \/ StartManual(t) \/ Send(t)
      PROVE  AskedForSomebody'
  BY <1>1, <1>2 DEF GiveUp, CheckBalance, Confirm, QueueTrade, EnterSection, StartManual, Send,
     EndSpend
<1>3. ASSUME NEW t \in Spends, AskBalance(t)
      PROVE  AskedForSomebody'
  <2>1. step' = [step EXCEPT ![t] = "awaiting"] \/ step' = [step EXCEPT ![t] = "checked"]
    BY <1>3 DEF AskBalance
  <2>2. \A u \in Spends : u # t => step'[u] = step[u]
    BY <2>1
  <2>3. step[t] = "checking" /\ step'[t] \in {"awaiting", "checked"} /\ fresh' \subseteq fresh \cup {t}
    BY <1>3, <2>1 DEF AskBalance
  <2>4. \A w \in Wallets : fetch'[w] # NoBalance =>
          \/ fetch[w] # NoBalance
          \/ step'[t] = "awaiting" /\ Wallet(t) = w
    BY <1>3 DEF AskBalance
  <2>5. QED
    BY <2>2, <2>3, <2>4
<1>4. ASSUME NEW w \in Wallets, BalanceArrives(w)
      PROVE  AskedForSomebody'
  BY <1>4 DEF BalanceArrives
<1>5. ASSUME NEW w \in Wallets, ReadFunds(w)
      PROVE  AskedForSomebody'
  BY <1>5, FundsAssumption DEF ReadFunds
<1>6. ASSUME UNCHANGED <<step, fetch, fresh>>
      PROVE  AskedForSomebody'
  BY <1>6
<1>7. QED
  BY <1>2, <1>3, <1>4, <1>5, <1>6 DEF FundsNext, LeaveLock, Execute, Expire, fundsVars

-----------------------------------------------------------------------------
(* What the guard was told stays true                                      *)

\* Whoever was left in the air stays so: a wallet once disturbed remains it.
LEMMA StaysDisturbed ==
  ASSUME FundsTypeOK, [FundsNext]_fundsVars, NEW t \in Dispatches, Undisturbed(t)'
  PROVE  Undisturbed(t)
<1>1. leftInAir \subseteq leftInAir'
  BY EndTyped DEF FundsNext, QueueTrade, EnterSection, StartManual, AskBalance, CheckBalance,
     GiveUp, Send, Confirm, LeaveLock, Execute, ReadFunds, BalanceArrives, Expire, fundsVars
<1>2. QED
  BY <1>1 DEF Undisturbed, SameWallet, Wallet

\* On an undisturbed wallet a trade inside its section is alone there, and the
\* only one with a transaction in the air.
LEMMA AloneOnWallet ==
  ASSUME FundsInv, NEW t \in Dispatches, Undisturbed(t), step[t] \in Inside,
         NEW u \in Spends, Wallet(u) = Wallet(t), step[u] \in Inside \/ flight[u] = "air"
  PROVE  u = t
<1>1. u \in Dispatches /\ u \notin leftInAir
  BY DEF Undisturbed, SameWallet
<1>2. step[u] \in Inside
  BY <1>1 DEF FundsInv, AirAccounted, Inside
<1>3. phase[u] = "held" /\ phase[t] = "held" /\ lockOf[u] = lockOf[t]
  BY <1>1, <1>2 DEF FundsInv, StepsAgree, Inside
<1>4. QED
  BY <1>1, <1>3, LockInvMutex DEF FundsInv, WalletMutex

\* Whatever a spend does next, or the chain for it.
SpendStep(t) ==
  \/ QueueTrade(t) \/ EnterSection(t) \/ StartManual(t)
  \/ AskBalance(t) \/ CheckBalance(t) \/ GiveUp(t) \/ Send(t) \/ Confirm(t)
  \/ LeaveLock(t) \/ Execute(t)

\* The steps of a trade itself.
LEMMA OwnStepStillTrue ==
  ASSUME FundsInv, NEW t \in Dispatches, Undisturbed(t), StillTrue(t),
         SpendStep(t)
  PROVE  StillTrue(t)'
<1> DEFINE w == Wallet(t)
<1>1. /\ t \in Spends /\ FundsTypeOK /\ Cost(t) \in Nat /\ w \in Wallets /\ funds[w] \in Nat
      /\ step[t] \in {"new", "queued", "checking"} => t \notin fresh
      /\ step[t] \notin {"confirming", "ended"} => flight[t] = "none"
  BY FundsAssumption DEF Spends, FundsInv, FundsTypeOK, AirAccounted, AskedForSomebody, Wallet, Cost
<1> USE <1>1 DEF StillTrue, GoTo, FundsTypeOK
<1>2. CASE QueueTrade(t) \/ EnterSection(t) \/ StartManual(t)
  BY <1>2 DEF QueueTrade, EnterSection, StartManual
<1>3. CASE AskBalance(t)
  <2>1. fetch[w] = NoBalance
    <3> SUFFICES ASSUME fetch[w] # NoBalance
                 PROVE  FALSE
      OBVIOUS
    <3>1. PICK u \in Spends : step[u] = "awaiting" /\ Wallet(u) = w
      BY DEF FundsInv, AskedForSomebody
    <3>2. step[t] = "checking"
      BY <1>3 DEF AskBalance
    <3>3. u = t
      BY <3>1, <3>2, AloneOnWallet DEF Inside
    <3>4. QED
      BY <3>1, <3>2, <3>3
  <2>2. CASE balanceCache[w] # NoBalance
    BY <1>3, <2>2 DEF AskBalance
  <2>3. CASE balanceCache[w] = NoBalance
    <3>1. step'[t] = "awaiting" /\ fetch'[w] = Asked /\ flight'[t] = "none"
      BY <1>3, <2>1, <2>3 DEF AskBalance
    <3>2. QED
      BY <3>1
  <2>4. QED
    BY <2>2, <2>3
<1>4. CASE CheckBalance(t)
  <2>1. UNCHANGED <<funds, flight, fresh>> /\ step[t] = "checked" /\ flight[t] = "none"
    BY <1>4 DEF CheckBalance
  <2>2. CASE belief[t] # NoBalance /\ Enough(belief[t], t)
    <3>1. step'[t] = "building"
      BY <1>4, <2>2 DEF CheckBalance
    <3>2. t \in fresh => funds[w] >= Cost(t)
      <4>1. t \in fresh => funds[w] >= Amount[t] + FeeBuffer
        BY <2>1, <2>2 DEF Enough
      <4>2. Amount[t] \in Nat /\ FeeBuffer \in Nat /\ Fee \in 0 .. FeeBuffer
        BY FundsAssumption
      <4>3. QED
        BY <4>1, <4>2 DEF Cost
    <3>3. QED
      BY <2>1, <3>1, <3>2 DEF Wallet, Cost
  <2>3. CASE ~(belief[t] # NoBalance /\ Enough(belief[t], t))
    <3>1. step'[t] = "ended"
      BY <1>4, <2>3 DEF CheckBalance, EndSpend
    <3>2. QED
      BY <2>1, <3>1
  <2>4. QED
    BY <2>2, <2>3
<1>5. CASE GiveUp(t) \/ Confirm(t)
  <2>1. step'[t] = "ended" /\ UNCHANGED <<funds, flight, fresh>>
    BY <1>5 DEF GiveUp, Confirm, EndSpend
  <2>2. QED
    BY <2>1 DEF Wallet, Cost
<1>6. CASE Send(t)
  <2>1. /\ step'[t] \in {"confirming", "ended"} /\ flight'[t] = "air" /\ funds' = funds
        /\ funds[w] >= Cost(t)
    BY <1>6 DEF Send, EndSpend
  <2>2. QED
    BY <2>1 DEF Wallet, Cost
<1>7. CASE LeaveLock(t)
  BY <1>7 DEF LeaveLock, Wallet, Cost
<1>8. CASE Execute(t)
  <2>1. flight[t] = "air" /\ UNCHANGED <<step, fresh>> /\ step[t] \in {"confirming", "ended"}
    BY <1>8 DEF Execute
  <2>2. t \in fresh => flight'[t] = "landed"
    BY <1>8, <2>1 DEF Execute
  <2>3. QED
    BY <2>1, <2>2
<1>9. QED
  BY <1>2, <1>3, <1>4, <1>5, <1>6, <1>7, <1>8 DEF SpendStep

\* The steps of the other spends, of the node and of the cache.
LEMMA OtherStepStillTrue ==
  ASSUME FundsInv, NEW t \in Dispatches, Undisturbed(t), StillTrue(t)
  PROVE  /\ \A u \in Spends \ {t} : SpendStep(u) => StillTrue(t)'
         /\ \A v \in Wallets : ReadFunds(v) \/ BalanceArrives(v) \/ Expire(v) => StillTrue(t)'
<1> DEFINE w == Wallet(t)
<1>1. t \in Spends /\ FundsTypeOK /\ w \in Wallets
  BY FundsAssumption DEF Spends, FundsInv, Wallet
<1> USE <1>1 DEF StillTrue, GoTo, FundsTypeOK
<1>2. ASSUME step'[t] = step[t], belief'[t] = belief[t], flight'[t] = flight[t],
             t \in fresh' <=> t \in fresh, funds'[w] = funds[w], fetch'[w] \in {fetch[w], Asked, funds[w]}
      PROVE  StillTrue(t)'
  BY <1>2 DEF Wallet, Cost
<1>3. ASSUME NEW u \in Spends \ {t}, QueueTrade(u) \/ EnterSection(u) \/ StartManual(u)
                                     \/ CheckBalance(u) \/ GiveUp(u) \/ Confirm(u) \/ LeaveLock(u)
      PROVE  StillTrue(t)'
  BY <1>2, <1>3 DEF QueueTrade, EnterSection, StartManual, CheckBalance, GiveUp, Confirm,
     LeaveLock, EndSpend
<1>4. ASSUME NEW u \in Spends \ {t}, AskBalance(u)
      PROVE  StillTrue(t)'
  <2>1. step'[t] = step[t] /\ belief'[t] = belief[t] /\ (t \in fresh' <=> t \in fresh)
    BY <1>4 DEF AskBalance
  <2>2. fetch'[w] \in {fetch[w], Asked} /\ UNCHANGED <<funds, flight>>
    BY <1>4 DEF AskBalance
  <2>3. QED
    BY <1>2, <2>1, <2>2
<1>5. ASSUME NEW u \in Spends \ {t}, Send(u)
      PROVE  StillTrue(t)'
  BY <1>2, <1>5 DEF Send, EndSpend
<1>6. ASSUME NEW u \in Spends \ {t}, Execute(u)
      PROVE  StillTrue(t)'
  <2>1. step' = step /\ belief' = belief /\ flight'[t] = flight[t] /\ fresh' = fresh /\ fetch' = fetch
    BY <1>6 DEF Execute
  <2>2. CASE Wallet(u) # w
    <3>1. funds'[w] = funds[w]
      BY <1>6, <2>2 DEF Execute
    <3>2. QED
      BY <1>2, <2>1, <3>1
  <2>3. CASE Wallet(u) = w
    <3>1. step[t] \notin Inside
      BY <1>6, <2>3, AloneOnWallet DEF Execute
    <3>2. flight[t] # "air"
      BY <3>1 DEF FundsInv, AirAccounted, Inside, Undisturbed, SameWallet
    <3>3. QED
      BY <2>1, <3>1, <3>2 DEF Inside
  <2>4. QED
    BY <2>2, <2>3
<1>7. ASSUME NEW v \in Wallets, ReadFunds(v) \/ Expire(v)
      PROVE  StillTrue(t)'
  <2>1. fetch'[w] \in {fetch[w], funds[w]} /\ UNCHANGED <<step, belief, funds, flight, fresh>>
    BY <1>7 DEF ReadFunds, Expire
  <2>2. QED
    BY <1>2, <2>1
<1>8. ASSUME NEW v \in Wallets, BalanceArrives(v)
      PROVE  StillTrue(t)'
  <2>1. UNCHANGED <<funds, flight, fresh>> /\ fetch'[w] \in {fetch[w], NoBalance}
    BY <1>8 DEF BalanceArrives
  <2>2. CASE step[t] = "awaiting" /\ v = w
    <3>1. step'[t] = "checked" /\ belief'[t] \in Answers(w)
      BY <1>8, <2>2 DEF BalanceArrives
    <3>2. belief'[t] \in {NoBalance, funds[w]}
      BY <2>2, <3>1 DEF Answers
    <3>3. QED
      BY <2>1, <2>2, <3>1, <3>2 DEF FundsInv, AirAccounted, Wallet, Cost
  <2>3. CASE ~(step[t] = "awaiting" /\ v = w)
    <3>1. step'[t] = step[t] /\ belief'[t] = belief[t]
      BY <1>8, <2>3 DEF BalanceArrives
    <3>2. QED
      BY <2>1, <3>1 DEF Wallet, Cost
  <2>4. QED
    BY <2>2, <2>3
<1>9. QED
  BY <1>3, <1>4, <1>5, <1>6, <1>7, <1>8 DEF SpendStep

-----------------------------------------------------------------------------
(* Theorems                                                                *)

\* A wallet nobody has spent from.
LEMMA FundsInitInv == FundsInit => FundsInv
<1> SUFFICES ASSUME FundsInit
             PROVE  FundsInv
  OBVIOUS
<1>1. LockInv
  BY LockInitInv DEF FundsInit
<1>2. FundsTypeOK
  BY <1>1, FundsAssumption DEF FundsInit, FundsTypeOK, LockInv, Steps, Flights
<1>3. StepsAgree
  BY DEF FundsInit, LockInit, StepsAgree, Inside, Spends
<1>4. AirAccounted /\ AskedForSomebody
  BY DEF FundsInit, AirAccounted, AskedForSomebody
<1>5. \A t \in Dispatches : StillTrue(t)
  BY DEF FundsInit, StillTrue, Spends
<1>6. QED
  BY <1>1, <1>2, <1>3, <1>4, <1>5 DEF FundsInv

\* Every step keeps the invariant.
LEMMA FundsStepInv == FundsInv /\ [FundsNext]_fundsVars => FundsInv'
<1> SUFFICES ASSUME FundsInv, [FundsNext]_fundsVars
             PROVE  FundsInv'
  OBVIOUS
<1>1. FundsTypeOK /\ LockInv /\ StepsAgree /\ AirAccounted /\ AskedForSomebody
  BY DEF FundsInv
<1>2. LockInv'
  BY <1>1, FundsLockStep, LockStepInv
<1>3. FundsTypeOK'
  BY <1>1, <1>2, FundsTypeStep DEF LockInv
<1>4. StepsAgree' /\ AirAccounted' /\ AskedForSomebody'
  BY <1>1, StepsAgreeStep, AirStep, AskedStep
<1>5. ASSUME NEW t \in Dispatches, Undisturbed(t)'
      PROVE  StillTrue(t)'
  <2>1. Undisturbed(t) /\ StillTrue(t)
    BY <1>1, <1>5, StaysDisturbed DEF FundsInv
  <2>2. CASE UNCHANGED fundsVars
    BY <2>1, <2>2 DEF fundsVars, StillTrue, Wallet, Cost
  <2>3. ASSUME NEW u \in Spends, SpendStep(u)
        PROVE  StillTrue(t)'
    BY <2>1, <2>3, OwnStepStillTrue, OtherStepStillTrue
  <2>4. ASSUME NEW v \in Wallets, ReadFunds(v) \/ BalanceArrives(v) \/ Expire(v)
        PROVE  StillTrue(t)'
    BY <2>1, <2>4, OtherStepStillTrue
  <2>5. QED
    BY <2>2, <2>3, <2>4 DEF FundsNext, SpendStep
<1>6. QED
  BY <1>2, <1>3, <1>4, <1>5 DEF FundsInv

\* The lock, the progress of each trade and what the guards were told agree.
THEOREM FundsInvariant == FundsSpec => []FundsInv
<1>1. QED
  BY FundsInitInv, FundsStepInv, PTL DEF FundsSpec

\* Next to spends that do not ask for it, the lock is still a lock: what is
\* proved of WalletLock holds here (executor.ts, walletLocks).
THEOREM FundsKeepLock == FundsSpec => LockSpec
<1>1. FundsInit => LockInit
  BY DEF FundsInit
<1>2. FundsInv /\ [FundsNext]_fundsVars => [LockNext]_lockVars
  BY FundsLockStep DEF FundsInv
<1>3. QED
  BY <1>1, <1>2, FundsInvariant, PTL DEF FundsSpec, LockSpec

\* On a wallet left to automated trades whose outcomes were all seen, a trade
\* whose guard asked the node is covered, fees included, until it sends: nobody
\* else on the wallet is past its own guard meanwhile (checkBalance under the
\* lock, tradeGuard.ts).
THEOREM CoveredFromGuardToSend == FundsSpec => []FreshCheckCovers
<1>1. FundsInv => FreshCheckCovers
  BY DEF FundsInv, StillTrue, FreshCheckCovers
<1>2. QED
  BY <1>1, FundsInvariant, PTL

\* And the chain never refuses such a trade for want of funds.
THEOREM NeverRefusedOnChain == FundsSpec => []NeverRefused
<1>1. FundsInv => NeverRefused
  BY DEF FundsInv, StillTrue, NeverRefused
<1>2. QED
  BY <1>1, FundsInvariant, PTL
=============================================================================
