----------------------------- MODULE RpcManager -----------------------------
(***************************************************************************)
(* The choice of the RPC provider (server/src/rpc/rpcManager.ts): the      *)
(* failures charged to each provider and the step to the next one.         *)
(*                                                                         *)
(* Providers are the positions of dedupeProviders' list.  Of the time      *)
(* stamps of a provider's failures only the number within the window is    *)
(* kept.  The operators are the methods; Ingestion calls them.             *)
(***************************************************************************)
EXTENDS Naturals

CONSTANTS
  LastProvider,  \* how many distinct providers are configured
  Threshold,     \* FAILURE_THRESHOLD
  MaxCount       \* bound: counts of failures stop here

Providers == 1 .. LastProvider

ASSUME RpcAssumption ==
  /\ LastProvider \in Nat \ {0}
  /\ Threshold \in Nat \ {0}
  /\ MaxCount \in Nat /\ MaxCount >= Threshold

VARIABLES
  activeIndex,  \* the provider in use
  consecutive,  \* consecutiveFailures of each provider
  recent        \* how many of its failureTimestamps are in the window

rpcVars == <<activeIndex, consecutive, recent>>

RpcInit ==
  /\ activeIndex = 1
  /\ consecutive = [p \in Providers |-> 0]
  /\ recent = [p \in Providers |-> 0]

OneMore(n) == IF n < MaxCount THEN n + 1 ELSE n

\* Whether a failure charged to p makes the manager leave it.
ShouldFailover(p, rateLimited) ==
  /\ p = activeIndex /\ activeIndex < LastProvider
  /\ \/ rateLimited
     \/ consecutive[p] + 1 >= Threshold
     \/ recent[p] + 1 >= Threshold

\* markProviderFailure of a resolved provider.
MarkFailure(p, rateLimited) ==
  /\ consecutive' = [consecutive EXCEPT ![p] = OneMore(@)]
  /\ recent' = [recent EXCEPT ![p] = OneMore(@)]
  /\ activeIndex' = IF ShouldFailover(p, rateLimited) THEN activeIndex + 1 ELSE activeIndex

\* markProviderSuccess: a run of failures ends, the window is left as it is.
MarkSuccess(p) ==
  /\ consecutive' = [consecutive EXCEPT ![p] = 0]
  /\ UNCHANGED <<activeIndex, recent>>

\* A failure leaves the window; of the active provider, whose count alone
\* decides something.
Age ==
  /\ recent[activeIndex] > 0
  /\ recent' = [recent EXCEPT ![activeIndex] = @ - 1]
  /\ UNCHANGED <<activeIndex, consecutive>>
=============================================================================
