----------------------------- MODULE WalletLock -----------------------------
(***************************************************************************)
(* The per-wallet trade lock of server/src/execution/executor.ts.          *)
(*                                                                         *)
(* ExecutionEngine keeps one Map, walletLocks, from a wallet to the        *)
(* promise of the last TRADE dispatch that asked for it.  A dispatch reads *)
(* the entry, chains its critical section behind it with .then, and writes *)
(* its own promise back, all in one synchronous segment.  Its promise      *)
(* always resolves (.catch swallows the error), and when it has, the       *)
(* dispatch removes the entry, but only if the entry is still its own.     *)
(* The result is a queue lock with one link per waiter.                    *)
(*                                                                         *)
(* The map and the promises live in memory: a process restart empties      *)
(* both, and the dispatches that were in flight never resume.              *)
(***************************************************************************)
EXTENDS Integers

CONSTANTS
  Dispatches,   \* TRADE dispatches that may ask for a lock
  Wallets,      \* trading wallets (public keys)
  NoDispatch,   \* no entry in the map: the promise is already resolved
  NoWallet      \* has not asked for a lock

ASSUME LockAssumption ==
  /\ NoDispatch \notin Dispatches
  /\ NoWallet \notin Wallets

VARIABLES
  tail,       \* walletLocks: the dispatch whose promise is in the map
  phase,      \* where a dispatch is with respect to its lock
  prevLock,   \* the dispatch whose promise it was chained behind
  lockOf,     \* the wallet it asked for
  arrival,    \* history: the order in which dispatches asked for a lock
  clock       \* history: the next arrival number

lockVars == <<tail, phase, prevLock, lockOf, arrival, clock>>

(***************************************************************************)
(* "idle": has not asked.  "waiting": chained, its section has not begun.  *)
(* "held": inside the section.  "settled": its promise has resolved, the   *)
(* code after `await nextLock` has not run.  "released": that code ran.    *)
(* "lost": was in flight when the process stopped.                         *)
(***************************************************************************)
Queued    == {"waiting", "held", "settled", "released"}
Unsettled == {"waiting", "held"}
Phases    == Queued \cup {"idle", "lost"}

LockTypeOK ==
  /\ tail \in [Wallets -> Dispatches \cup {NoDispatch}]
  /\ phase \in [Dispatches -> Phases]
  /\ prevLock \in [Dispatches -> Dispatches \cup {NoDispatch}]
  /\ lockOf \in [Dispatches -> Wallets \cup {NoWallet}]
  /\ arrival \in [Dispatches -> Nat]
  /\ clock \in Nat

LockInit ==
  /\ tail = [w \in Wallets |-> NoDispatch]
  /\ phase = [n \in Dispatches |-> "idle"]
  /\ prevLock = [n \in Dispatches |-> NoDispatch]
  /\ lockOf = [n \in Dispatches |-> NoWallet]
  /\ arrival = [n \in Dispatches |-> 0]
  /\ clock = 0

-----------------------------------------------------------------------------
(* Operations                                                              *)

\* Mutant: a waiter starts once the dispatch before it has itself started.
Mut_CanStart(n) ==
  prevLock[n] # NoDispatch => phase[prevLock[n]] \in {"held", "settled", "released"}

\* Mutant: without the .catch an error leaves the promise that the next
\* dispatch is chained behind rejected, and its callback never runs.
Mut_CanStartAfterError(n) == prevLock[n] = NoDispatch

\* The promise a dispatch is chained behind: the map's entry, or a resolved
\* promise when the map has none.
CanStart(n) ==
  prevLock[n] # NoDispatch => phase[prevLock[n]] \in {"settled", "released"}

\* `get ?? resolve()`, `.then`, `set`: no other code runs between them.
Request(n, w) ==
  /\ phase[n] = "idle"
  /\ phase' = [phase EXCEPT ![n] = "waiting"]
  /\ prevLock' = [prevLock EXCEPT ![n] = tail[w]]
  /\ tail' = [tail EXCEPT ![w] = n]
  /\ lockOf' = [lockOf EXCEPT ![n] = w]
  /\ arrival' = [arrival EXCEPT ![n] = clock]
  /\ clock' = clock + 1

\* prevLock has resolved: the callback given to .then starts.
Acquire(n) ==
  /\ phase[n] = "waiting"
  /\ CanStart(n)
  /\ phase' = [phase EXCEPT ![n] = "held"]
  /\ UNCHANGED <<tail, prevLock, lockOf, arrival, clock>>

\* The callback returned or threw; either way .catch resolves nextLock.
Settle(n) ==
  /\ phase[n] = "held"
  /\ phase' = [phase EXCEPT ![n] = "settled"]
  /\ UNCHANGED <<tail, prevLock, lockOf, arrival, clock>>

\* Mutant: the entry is deleted without comparing it with nextLock.
Mut_TailAfterRelease(n) == [tail EXCEPT ![lockOf[n]] = NoDispatch]

\* The map after a dispatch has been through its section.
TailAfterRelease(n) ==
  IF tail[lockOf[n]] = n THEN [tail EXCEPT ![lockOf[n]] = NoDispatch] ELSE tail

\* After `await nextLock`: delete the entry unless someone has queued since.
Release(n) ==
  /\ phase[n] = "settled"
  /\ phase' = [phase EXCEPT ![n] = "released"]
  /\ tail' = TailAfterRelease(n)
  /\ UNCHANGED <<prevLock, lockOf, arrival, clock>>

\* The process stops: the map is gone and so is every dispatch in flight.
LockCrash ==
  /\ tail' = [w \in Wallets |-> NoDispatch]
  /\ phase' = [n \in Dispatches |-> IF phase[n] \in Queued THEN "lost" ELSE phase[n]]
  /\ UNCHANGED <<prevLock, lockOf, arrival, clock>>

LockNext ==
  \/ \E n \in Dispatches : \/ \E w \in Wallets : Request(n, w)
                           \/ Acquire(n)
                           \/ Settle(n)
                           \/ Release(n)
  \/ LockCrash

LockSpec == LockInit /\ [][LockNext]_lockVars

\* The event loop runs every callback whose promise has resolved, and every
\* call awaited in the section is answered or fails, so a section ends.
LockFairness ==
  \A n \in Dispatches : WF_lockVars(Acquire(n)) /\ WF_lockVars(Settle(n))

LockFairSpec == LockSpec /\ LockFairness

-----------------------------------------------------------------------------
(* Properties                                                              *)

\* At most one dispatch is inside the critical section of a wallet: a second
\* balance check cannot run between another's check and its trade.
WalletMutex ==
  \A n, m \in Dispatches :
    phase[n] = "held" /\ phase[m] = "held" /\ lockOf[n] = lockOf[m] => n = m

\* A dispatch never enters its section while one that queued before it on
\* the same wallet has not finished: trades run in the order of arrival.
NoOvertaking ==
  [][\A n, m \in Dispatches :
       /\ phase[n] = "waiting" /\ phase'[n] = "held"
       /\ phase[m] \in Unsettled
       /\ lockOf[m] = lockOf[n]
       => arrival[n] <= arrival[m]]_lockVars

\* A wallet that is not in the map has nobody queued or inside: an entry is
\* never removed while a later arrival depends on it.
FreeWhenAbsent ==
  \A w \in Wallets : tail[w] = NoDispatch =>
    \A n \in Dispatches : lockOf[n] = w => phase[n] \notin Unsettled

-----------------------------------------------------------------------------
(* The inductive invariant behind them: what the chain of promises knows.  *)

\* Everyone who asked for the wallet of n before n has finished.
SettledBefore(n) ==
  \A m \in Dispatches :
    lockOf[m] = lockOf[n] /\ arrival[m] < arrival[n] => phase[m] \notin Unsettled

\* Arrival numbers are distinct, below the clock, and only idle dispatches
\* have no wallet.
ArrivalsDistinct ==
  \A n \in Dispatches :
    /\ phase[n] = "idle" <=> lockOf[n] = NoWallet
    /\ phase[n] \in Queued => arrival[n] < clock
    /\ \A m \in Dispatches :
         phase[n] \in Queued /\ phase[m] \in Queued /\ arrival[n] = arrival[m] => n = m

\* p is the last dispatch to have queued on the wallet of n before n.
LastBefore(p, n) ==
  /\ phase[p] \in Queued
  /\ lockOf[p] = lockOf[n]
  /\ arrival[p] < arrival[n]
  /\ \A m \in Dispatches :
       phase[m] \in Queued /\ lockOf[m] = lockOf[n] /\ arrival[m] < arrival[n]
         => arrival[m] <= arrival[p]

\* A dispatch is chained behind its immediate predecessor, or behind nothing
\* when nobody before it is unsettled.
ChainedBehindLast ==
  \A n \in Dispatches : phase[n] \in Queued =>
    IF prevLock[n] = NoDispatch THEN SettledBefore(n) ELSE LastBefore(prevLock[n], n)

StartedInOrder ==
  \A n \in Dispatches : phase[n] \in {"held", "settled", "released"} => SettledBefore(n)

\* The map's entry is the last arrival on its wallet.
TailIsLast ==
  \A w \in Wallets : tail[w] # NoDispatch =>
    /\ phase[tail[w]] \in Queued
    /\ lockOf[tail[w]] = w
    /\ \A m \in Dispatches :
         phase[m] \in Queued /\ lockOf[m] = w => arrival[m] <= arrival[tail[w]]

\* Together: the promise chain of every wallet is its queue of dispatches.
LockInv ==
  /\ LockTypeOK
  /\ ArrivalsDistinct
  /\ ChainedBehindLast
  /\ StartedInOrder
  /\ TailIsLast
  /\ FreeWhenAbsent

-----------------------------------------------------------------------------
(* Liveness                                                                *)

\* Whoever queues eventually enters the section, unless the process stops:
\* the chain of promises has no cycle and an error never breaks it.
WaiterEnters ==
  \A n \in Dispatches : phase[n] = "waiting" ~> phase[n] \in {"held", "lost"}
=============================================================================
