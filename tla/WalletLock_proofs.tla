------------------------- MODULE WalletLock_proofs -------------------------
(***************************************************************************)
(* Proofs about the per-wallet lock, for any number of dispatches and      *)
(* wallets.  LockInv is inductive; mutual exclusion and the order of       *)
(* arrival follow from it.                                                 *)
(***************************************************************************)
EXTENDS WalletLock, TLAPS

\* The empty map satisfies the invariant.
LEMMA LockInitInv == LockInit => LockInv
BY LockAssumption DEF LockInit, LockInv, LockTypeOK, ArrivalsDistinct,
   ChainedBehindLast, StartedInOrder, TailIsLast, FreeWhenAbsent, Phases, Queued,
   Unsettled

\* Queueing: the new dispatch is chained behind the last arrival.
LEMMA RequestInv ==
  ASSUME LockInv, NEW n \in Dispatches, NEW w \in Wallets, Request(n, w)
  PROVE  LockInv'
<1> USE LockAssumption DEF LockInv, Request, LockTypeOK, Phases, Queued, Unsettled
<1>1. LockTypeOK'
  OBVIOUS
<1>2. \A m \in Dispatches : m # n => /\ phase'[m] = phase[m]
                                     /\ lockOf'[m] = lockOf[m]
                                     /\ arrival'[m] = arrival[m]
                                     /\ prevLock'[m] = prevLock[m]
  OBVIOUS
<1>3. /\ phase'[n] = "waiting" /\ lockOf'[n] = w /\ arrival'[n] = clock
      /\ prevLock'[n] = tail[w] /\ tail'[w] = n
  OBVIOUS
<1>4. ArrivalsDistinct'
  BY <1>2, <1>3 DEF ArrivalsDistinct
<1>5. StartedInOrder'
  BY <1>2, <1>3 DEF StartedInOrder, SettledBefore, ArrivalsDistinct
<1>6. ChainedBehindLast'
  <2> SUFFICES ASSUME NEW k \in Dispatches, phase'[k] \in Queued
               PROVE  IF prevLock'[k] = NoDispatch THEN SettledBefore(k)'
                      ELSE LastBefore(prevLock[k], k)'
    BY DEF ChainedBehindLast
  <2>1. CASE k = n /\ tail[w] = NoDispatch
    BY <1>2, <1>3, <2>1 DEF SettledBefore, FreeWhenAbsent
  <2>2. CASE k = n /\ tail[w] # NoDispatch
    BY <1>2, <1>3, <2>2 DEF LastBefore, TailIsLast, ArrivalsDistinct
  <2>3. CASE k # n
    BY <1>2, <1>3, <2>3 DEF ChainedBehindLast, SettledBefore, LastBefore, ArrivalsDistinct
  <2>4. QED
    BY <2>1, <2>2, <2>3
<1>7. TailIsLast'
  BY <1>2, <1>3 DEF TailIsLast, ArrivalsDistinct
<1>8. FreeWhenAbsent'
  BY <1>2, <1>3 DEF FreeWhenAbsent
<1>9. QED
  BY <1>1, <1>4, <1>5, <1>6, <1>7, <1>8

\* Entering the section: everyone earlier on the wallet has finished.
LEMMA AcquireOrder ==
  ASSUME LockInv, NEW n \in Dispatches, Acquire(n)
  PROVE  SettledBefore(n)
<1> USE DEF LockInv, Acquire, LockTypeOK, Phases, Queued, Unsettled
<1>1. CASE prevLock[n] = NoDispatch
  BY <1>1 DEF ChainedBehindLast
<1>2. CASE prevLock[n] # NoDispatch
  <2> DEFINE p == prevLock[n]
  <2>1. p \in Dispatches /\ phase[p] \in {"settled", "released"}
    BY <1>2 DEF CanStart
  <2>2. LastBefore(p, n) /\ SettledBefore(p)
    BY <1>2, <2>1 DEF ChainedBehindLast, StartedInOrder
  <2>3. SUFFICES ASSUME NEW m \in Dispatches, lockOf[m] = lockOf[n],
                        arrival[m] < arrival[n], phase[m] \in Unsettled
                 PROVE  FALSE
    BY DEF SettledBefore
  <2>4. arrival[m] <= arrival[p] /\ lockOf[m] = lockOf[p]
    BY <2>1, <2>2, <2>3 DEF LastBefore
  <2>5. arrival[m] = arrival[p]
    BY <2>1, <2>2, <2>3, <2>4 DEF SettledBefore
  <2>6. QED
    BY <2>1, <2>3, <2>5 DEF ArrivalsDistinct
<1>3. QED
  BY <1>1, <1>2

\* Entering the section preserves the invariant.
LEMMA AcquireInv ==
  ASSUME LockInv, NEW n \in Dispatches, Acquire(n)
  PROVE  LockInv'
<1> USE DEF LockInv, Acquire, LockTypeOK, Phases, Queued, Unsettled
<1>1. LockTypeOK' /\ ArrivalsDistinct' /\ TailIsLast'
  BY DEF ArrivalsDistinct, TailIsLast
<1>2. ChainedBehindLast'
  BY DEF ChainedBehindLast, SettledBefore, LastBefore
<1>3. StartedInOrder'
  BY AcquireOrder DEF StartedInOrder, SettledBefore
<1>4. FreeWhenAbsent'
  BY DEF FreeWhenAbsent
<1>5. QED
  BY <1>1, <1>2, <1>3, <1>4

\* Leaving it, normally or by an error, preserves the invariant.
LEMMA SettleInv ==
  ASSUME LockInv, NEW n \in Dispatches, Settle(n)
  PROVE  LockInv'
<1> USE DEF LockInv, Settle, LockTypeOK, Phases, Queued, Unsettled
<1>1. LockTypeOK' /\ ArrivalsDistinct' /\ TailIsLast'
  BY DEF ArrivalsDistinct, TailIsLast
<1>2. ChainedBehindLast'
  BY DEF ChainedBehindLast, SettledBefore, LastBefore
<1>3. StartedInOrder'
  BY DEF StartedInOrder, SettledBefore
<1>4. FreeWhenAbsent'
  BY DEF FreeWhenAbsent
<1>5. QED
  BY <1>1, <1>2, <1>3, <1>4

\* Leaving: the entry goes only when its owner was the last arrival, and then
\* everyone on the wallet has finished.
LEMMA ReleaseInv ==
  ASSUME LockInv, NEW n \in Dispatches, Release(n)
  PROVE  LockInv'
<1> USE LockAssumption DEF LockInv, Release, TailAfterRelease, LockTypeOK, Phases,
      Queued, Unsettled
<1>1. LockTypeOK' /\ ArrivalsDistinct' /\ TailIsLast'
  BY DEF ArrivalsDistinct, TailIsLast
<1>2. ChainedBehindLast'
  BY DEF ChainedBehindLast, SettledBefore, LastBefore
<1>3. StartedInOrder'
  BY DEF StartedInOrder, SettledBefore
<1>4. FreeWhenAbsent'
  <2> SUFFICES ASSUME NEW w \in Wallets, tail'[w] = NoDispatch,
                      NEW m \in Dispatches, lockOf'[m] = w
               PROVE  phase'[m] \notin Unsettled
    BY DEF FreeWhenAbsent
  <2>1. CASE tail[w] = NoDispatch
    BY <2>1 DEF FreeWhenAbsent
  <2>2. CASE tail[w] # NoDispatch
    <3>1. tail[w] = n /\ lockOf[n] = w /\ lockOf[m] = w
      BY <2>2
    <3>2. SettledBefore(n)
      BY DEF StartedInOrder
    <3>3. phase[m] \in Queued /\ m # n => arrival[m] < arrival[n]
      BY <2>2, <3>1 DEF TailIsLast, ArrivalsDistinct
    <3>4. QED
      BY <3>1, <3>2, <3>3 DEF SettledBefore
  <2>3. QED
    BY <2>1, <2>2
<1>5. QED
  BY <1>1, <1>2, <1>3, <1>4

\* A restart leaves nobody queued and an empty map.
LEMMA CrashInv ==
  ASSUME LockInv, LockCrash
  PROVE  LockInv'
BY LockAssumption DEF LockInv, LockCrash, LockTypeOK, Phases, Queued, Unsettled,
   ArrivalsDistinct, ChainedBehindLast, StartedInOrder, TailIsLast, FreeWhenAbsent

\* Every step of the lock preserves the invariant.
LEMMA LockStepInv == LockInv /\ [LockNext]_lockVars => LockInv'
<1> SUFFICES ASSUME LockInv, [LockNext]_lockVars
             PROVE  LockInv'
  OBVIOUS
<1>1. ASSUME NEW n \in Dispatches, NEW w \in Wallets, Request(n, w)
      PROVE  LockInv'
  BY <1>1, RequestInv
<1>2. ASSUME NEW n \in Dispatches, Acquire(n)
      PROVE  LockInv'
  BY <1>2, AcquireInv
<1>3. ASSUME NEW n \in Dispatches, Settle(n)
      PROVE  LockInv'
  BY <1>3, SettleInv
<1>4. ASSUME NEW n \in Dispatches, Release(n)
      PROVE  LockInv'
  BY <1>4, ReleaseInv
<1>5. CASE LockCrash
  BY <1>5, CrashInv
<1>6. CASE UNCHANGED lockVars
  BY <1>6 DEF lockVars, LockInv, LockTypeOK, ArrivalsDistinct, ChainedBehindLast,
     LastBefore, StartedInOrder, SettledBefore, TailIsLast, FreeWhenAbsent
<1>7. QED
  BY <1>1, <1>2, <1>3, <1>4, <1>5, <1>6 DEF LockNext

\* The promise chains stay queues: type correctness, the order of the chain,
\* and that a wallet missing from the map is free (executor.ts:258-410).
THEOREM LockInvariant == LockSpec => []LockInv
<1>1. QED
  BY LockInitInv, LockStepInv, PTL DEF LockSpec

\* Two dispatches inside one wallet's section would each have the other
\* finished before it: the arrival numbers exclude that.
LEMMA LockInvMutex == LockInv => WalletMutex
BY DEF LockInv, LockTypeOK, WalletMutex, StartedInOrder, SettledBefore,
   ArrivalsDistinct, Queued, Unsettled

\* At most one trade at a time is between its guards and its bookkeeping on a
\* wallet, for every number of concurrent matches (executor.ts:257-410).
THEOREM MutualExclusion == LockSpec => []WalletMutex
<1>1. QED
  BY LockInvariant, LockInvMutex, PTL

\* Trades on a wallet start in the order in which they were dispatched
\* (executor.ts:258-263): nobody overtakes an unfinished earlier arrival.
THEOREM ArrivalOrder == LockSpec => NoOvertaking
<1> DEFINE Starts(n) == phase[n] = "waiting" /\ phase'[n] = "held"
           InOrder == \A n, m \in Dispatches :
                         /\ phase[n] = "waiting" /\ phase'[n] = "held"
                         /\ phase[m] \in Unsettled
                         /\ lockOf[m] = lockOf[n]
                         => arrival[n] <= arrival[m]
<1>1. LockInv /\ [LockNext]_lockVars => [InOrder]_lockVars
  <2> SUFFICES ASSUME LockInv, LockNext,
                      NEW n \in Dispatches, NEW m \in Dispatches,
                      Starts(n), phase[m] \in Unsettled, lockOf[m] = lockOf[n]
               PROVE  arrival[n] <= arrival[m]
    OBVIOUS
  <2>1. Acquire(n)
    BY DEF LockNext, Request, Acquire, Settle, Release, LockCrash, LockInv, LockTypeOK
  <2>2. SettledBefore(n)
    BY <2>1, AcquireOrder
  <2>3. QED
    BY <2>2 DEF SettledBefore, LockInv, LockTypeOK
<1>2. QED
  BY <1>1, LockInvariant, PTL DEF LockSpec, NoOvertaking
=============================================================================
