-------------------------- MODULE ConditionEngine --------------------------
(***************************************************************************)
(* ConditionEngine (server/src/conditions/engine.ts): which conditions an  *)
(* event reaches, which of them match, and when a match is let through.    *)
(*                                                                         *)
(* evaluate has no await: from the first index it reads to the last        *)
(* candidate it checks nothing else runs.  Here it is one Evaluate and a   *)
(* Check per candidate, and while candidates are left nothing else moves.  *)
(* The order of candidates is that of insertion into sets; any order is    *)
(* allowed.                                                                *)
(*                                                                         *)
(* Amounts are natural numbers and an absent amount is zero, which is what *)
(* the code's truth tests make of it.  Time is counted in the unit of      *)
(* windows and cooldowns.  Of a condition's load and unload only what they *)
(* do here is modelled; the routes they run in are ConditionRegistry's.    *)
(***************************************************************************)
EXTENDS Naturals, Sequences, FiniteSets, SequencesExt

CONSTANTS
  Conds,            \* the conditions
  Def,              \* the fields of each
  Events,           \* the events that ingestion may hand over
  Nothing,          \* an absent field
  DefaultCooldown,  \* what a cooldown of zero stands for
  FireCacheMax,     \* FIRE_CACHE_MAX
  WindowMax,        \* MAX_WINDOW_ENTRIES
  KeepFor,          \* how old a window entry cleanup leaves alone
  MaxEvents,        \* bound: evaluations
  MaxChanges,       \* bound: changes of what is loaded and enabled
  MaxNow            \* bound: time

ASSUME EngineAssumption ==
  /\ IsFiniteSet(Conds)
  /\ \A c \in Conds : /\ Def[c].cooldown \in Nat /\ Def[c].window \in Nat
                      /\ Def[c].minimum \in Nat
  /\ \A e \in Events : e.sol \in Nat
  /\ Nothing \notin Nat \cup Events
  /\ DefaultCooldown \in Nat \ {0}
  /\ FireCacheMax \in Nat \ {0} /\ WindowMax \in Nat \ {0} /\ KeepFor \in Nat
  /\ MaxEvents \in Nat /\ MaxChanges \in Nat /\ MaxNow \in Nat

VARIABLES
  loaded,      \* keys of `conditions`
  enabled,     \* conditions whose object says enabled
  walletIdx, tokenIdx, globalBurst, swapTokenConds,
  cooldowns,   \* when the cooldown of a condition ends, Nothing if it has none
  above,       \* aboveThreshold: conditions mapped to true
  windows,     \* swapCounts and volumes: entries by key, oldest first
  fireCache,   \* pairs of condition and signature, oldest first
  event,       \* the event that is evaluated, Nothing between evaluations
  todo,        \* candidates not checked yet
  now,
  past,        \* history: what was evaluated, and when
  fires,       \* history: what was let through, when, and after how many events
  lastFired,   \* history: the last of them for each condition since it was loaded
  changes      \* history: how often conditions were loaded, unloaded, switched

indexVars  == <<walletIdx, tokenIdx, globalBurst, swapTokenConds>>
matchVars  == <<cooldowns, above, windows, fireCache>>
traceVars  == <<past, fires, lastFired, changes>>
engineVars == <<loaded, enabled, indexVars, matchVars, event, todo, now, traceVars>>

-----------------------------------------------------------------------------
(* Matchers                                                                *)

MintMatches(c, e) ==
  Def[c].mint = Nothing \/ e.mint = Def[c].mint \/ Def[c].mint \in e.logs

SwapLike(e) == e.type = "SWAP" \/ e.direction \in {"BUY", "SELL", "SWAP"}

Direction(e) == IF e.direction # "UNKNOWN" THEN e.direction ELSE e.type

WalletActivity(c, e) ==
  /\ ~e.low /\ e.wallet # Nothing
  /\ Def[c].wallet \in {Nothing, e.wallet}
  /\ MintMatches(c, e)
  /\ Def[c].tx \in {Nothing, "ANY", Direction(e)}
  /\ e.sol >= Def[c].minimum

LargeTransfer(c, e) ==
  e.type = "TRANSFER" /\ e.sol > 0 /\ e.sol >= Def[c].minimum

Sliding == {c \in Conds : Def[c].kind \in {"SWAP_BURST", "TOKEN_VOLUME"}}

\* Whether an event goes into the window of a condition, and as how much.
Counts(c, e) ==
  /\ IF Def[c].kind = "SWAP_BURST" THEN SwapLike(e) ELSE e.sol > 0
  /\ MintMatches(c, e)

Weight(c, e) == IF Def[c].kind = "SWAP_BURST" THEN 1 ELSE e.sol

\* Conditions of one kind on one mint share a window, whatever their length.
Key(c) == <<Def[c].kind, Def[c].mint>>
Keys   == {Key(c) : c \in Sliding}

\* Mutant: entries that have left the window are kept.
Mut_Recent(entries, since) == entries

\* The entries that are not older, in their order.
Recent(entries, since) ==
  LET kept[i \in 0 .. Len(entries)] ==
        IF i = 0 THEN <<>>
        ELSE IF entries[i].ts >= since THEN Append(kept[i - 1], entries[i]) ELSE kept[i - 1]
  IN kept[Len(entries)]

Cutoff(c) == IF Def[c].window > now THEN 0 ELSE now - Def[c].window

\* The window of c once event e has gone into it.
WindowWith(c, e) ==
  LET entries == Append(Recent(windows[Key(c)], Cutoff(c)),
                        [ts |-> now, amount |-> Weight(c, e)])
      excess  == IF Len(entries) > WindowMax THEN Len(entries) - WindowMax ELSE 0
  IN SubSeq(entries, excess + 1, Len(entries))

Total(entries) ==
  LET sum[i \in 0 .. Len(entries)] == IF i = 0 THEN 0 ELSE sum[i - 1] + entries[i].amount
  IN sum[Len(entries)]

-----------------------------------------------------------------------------
(* Indexes                                                                 *)

Without(idx, k, c) == IF k = Nothing THEN idx ELSE [idx EXCEPT ![k] = @ \ {c}]
With(idx, k, c)    == IF k = Nothing THEN idx ELSE [idx EXCEPT ![k] = @ \cup {c}]

WalletKeys == {Def[c].wallet : c \in Conds} \ {Nothing}
MintKeys   == {Def[c].mint : c \in Conds} \ {Nothing}

\* The startup loads every condition of the table before events come.
EngineInit ==
  /\ loaded = Conds /\ enabled = Conds
  /\ walletIdx = [w \in WalletKeys |-> {c \in Conds : Def[c].wallet = w}]
  /\ tokenIdx = [m \in MintKeys |-> {c \in Sliding : Def[c].mint = m}]
  /\ globalBurst = {c \in Sliding : Def[c].mint = Nothing}
  /\ swapTokenConds = Sliding \ globalBurst
  /\ cooldowns = [c \in Conds |-> Nothing] /\ above = {}
  /\ windows = [k \in Keys |-> <<>>]
  /\ fireCache = <<>>
  /\ event = Nothing /\ todo = {} /\ now = 0
  /\ past = <<>> /\ fires = <<>> /\ changes = 0
  /\ lastFired = [c \in Conds |-> Nothing]

\* Bound: loads, unloads and switches.
Change == event = Nothing /\ changes < MaxChanges /\ changes' = changes + 1

Load(c) ==
  /\ Change /\ c \notin loaded
  /\ loaded' = loaded \cup {c}
  /\ IF c \notin enabled THEN UNCHANGED indexVars
     ELSE /\ walletIdx' = With(walletIdx, Def[c].wallet, c)
          /\ tokenIdx' = IF c \in Sliding THEN With(tokenIdx, Def[c].mint, c) ELSE tokenIdx
          /\ swapTokenConds' = IF c \in Sliding /\ Def[c].mint # Nothing
                               THEN swapTokenConds \cup {c} ELSE swapTokenConds
          /\ globalBurst' = IF c \in Sliding /\ Def[c].mint = Nothing
                            THEN globalBurst \cup {c} ELSE globalBurst
  /\ UNCHANGED <<enabled, matchVars, event, todo, now, past, fires, lastFired>>

\* The windows are not the condition's own and stay, and so does what it fired on.
Unload(c) ==
  /\ Change /\ c \in loaded
  /\ loaded' = loaded \ {c}
  /\ walletIdx' = Without(walletIdx, Def[c].wallet, c)
  /\ tokenIdx' = Without(tokenIdx, Def[c].mint, c)
  /\ globalBurst' = globalBurst \ {c}
  /\ swapTokenConds' = swapTokenConds \ {c}
  /\ cooldowns' = [cooldowns EXCEPT ![c] = Nothing]
  /\ above' = above \ {c}
  /\ lastFired' = [lastFired EXCEPT ![c] = Nothing]
  /\ UNCHANGED <<enabled, windows, fireCache, event, todo, now, past, fires>>

\* The toggle route writes the object, in the engine or not, before it reloads it.
SetEnabled(c) ==
  /\ Change
  /\ enabled' = IF c \in enabled THEN enabled \ {c} ELSE enabled \cup {c}
  /\ UNCHANGED <<loaded, indexVars, matchVars, event, todo, now, past, fires, lastFired>>

-----------------------------------------------------------------------------
(* Evaluation                                                              *)

IndexOf(idx, k) == IF k \in DOMAIN idx THEN idx[k] ELSE {}

Candidates(e) ==
  IndexOf(walletIdx, e.wallet) \cup IndexOf(tokenIdx, e.mint) \cup globalBurst
    \cup (IF e.type = "SWAP" THEN swapTokenConds ELSE {})

Evaluate(e) ==
  /\ event = Nothing /\ Len(past) < MaxEvents
  /\ past' = Append(past, [ev |-> e, ts |-> now])
  /\ IF Candidates(e) = {} THEN UNCHANGED <<event, todo>>
     ELSE event' = e /\ todo' = Candidates(e)
  /\ UNCHANGED <<loaded, enabled, indexVars, matchVars, now, fires, lastFired, changes>>

CooldownOver(c) == cooldowns[c] # Nothing /\ now >= cooldowns[c]

\* Mutant: a cooldown that has just begun does not count yet.
Mut_CoolingDown(c) ==
  cooldowns[c] # Nothing /\ now + Def[c].cooldown < cooldowns[c]

CoolingDown(c) == cooldowns[c] # Nothing /\ now < cooldowns[c]

\* Mutant: the cache is emptied when it is full.
Mut_AfterFiring(c) ==
  LET cache == Append(fireCache, <<c, event.sig>>) IN
  IF Len(cache) > FireCacheMax THEN <<>> ELSE cache

\* fireCache.add and trimFireCache, which drops the older half.
AfterFiring(c) ==
  LET cache == Append(fireCache, <<c, event.sig>>) IN
  IF Len(cache) > FireCacheMax
  THEN SubSeq(cache, Len(cache) \div 2 + 1, Len(cache)) ELSE cache

Cooldown(c) == IF Def[c].cooldown = 0 THEN DefaultCooldown ELSE Def[c].cooldown

Fire(c) ==
  /\ fireCache' = AfterFiring(c)
  /\ cooldowns' = [cooldowns EXCEPT ![c] = now + Cooldown(c)]
  /\ fires' = Append(fires, [cond |-> c, sig |-> event.sig, at |-> now, n |-> Len(past)])
  /\ lastFired' = [lastFired EXCEPT ![c] = now]

\* cooldownActive forgets a cooldown that is over, and the threshold with it.
Stay(c) ==
  /\ cooldowns' = IF CooldownOver(c) THEN [cooldowns EXCEPT ![c] = Nothing] ELSE cooldowns
  /\ UNCHANGED <<fireCache, fires, lastFired>>

\* aboveThreshold once cooldownActive has answered.
WasAbove(c) == IF CooldownOver(c) THEN above \ {c} ELSE above

\* The rest of check, by the kind of condition.
MatchSingle(c) ==
  /\ c \notin Sliding
  /\ above' = WasAbove(c)
  /\ IF \/ Def[c].kind = "WALLET_ACTIVITY" /\ WalletActivity(c, event)
        \/ Def[c].kind = "LARGE_TRANSFER" /\ LargeTransfer(c, event)
     THEN Fire(c) ELSE Stay(c)
  /\ UNCHANGED windows

MatchSliding(c) ==
  LET entries == WindowWith(c, event)
      isAbove == Total(entries) >= Def[c].minimum
  IN /\ c \in Sliding
     /\ IF ~Counts(c, event)
        THEN Stay(c) /\ above' = WasAbove(c) /\ UNCHANGED windows
        ELSE /\ windows' = [windows EXCEPT ![Key(c)] = entries]
             /\ above' = IF isAbove THEN WasAbove(c) \cup {c} ELSE WasAbove(c) \ {c}
             /\ IF isAbove /\ c \notin WasAbove(c) THEN Fire(c) ELSE Stay(c)

\* One turn of evaluate's loop.
Check(c) ==
  /\ c \in todo
  /\ todo' = todo \ {c}
  /\ event' = IF todo = {c} THEN Nothing ELSE event
  /\ \/ /\ c \notin loaded \cap enabled \/ CoolingDown(c)
        /\ UNCHANGED <<matchVars, fires, lastFired>>
     \/ /\ c \in loaded \cap enabled /\ ~CoolingDown(c)
        /\ IF Contains(fireCache, <<c, event.sig>>)
           THEN Stay(c) /\ above' = WasAbove(c) /\ UNCHANGED windows
           ELSE MatchSingle(c) \/ MatchSliding(c)
  /\ UNCHANGED <<loaded, enabled, indexVars, now, past, changes>>

\* The timer of two minutes.
Cleanup ==
  /\ event = Nothing
  /\ cooldowns' = [c \in Conds |-> IF CooldownOver(c) THEN Nothing ELSE cooldowns[c]]
  /\ above' = {c \in above \cap loaded : ~CooldownOver(c)}
  /\ windows' = [k \in Keys |-> Recent(windows[k], IF KeepFor > now THEN 0 ELSE now - KeepFor + 1)]
  /\ UNCHANGED <<loaded, enabled, indexVars, fireCache, event, todo, now, traceVars>>

Tick ==
  /\ event = Nothing /\ now < MaxNow
  /\ now' = now + 1
  /\ UNCHANGED <<loaded, enabled, indexVars, matchVars, event, todo, traceVars>>

EngineNext ==
  \/ \E c \in Conds : Load(c) \/ Unload(c) \/ SetEnabled(c) \/ Check(c)
  \/ \E e \in Events : Evaluate(e)
  \/ Cleanup \/ Tick

EngineSpec == EngineInit /\ [][EngineNext]_engineVars

-----------------------------------------------------------------------------
(* Properties                                                              *)

\* The state is of the expected types.
EngineTypeOK ==
  /\ loaded \subseteq Conds /\ enabled \subseteq Conds /\ above \subseteq Conds
  /\ walletIdx \in [WalletKeys -> SUBSET Conds] /\ tokenIdx \in [MintKeys -> SUBSET Conds]
  /\ globalBurst \subseteq Conds /\ swapTokenConds \subseteq Conds
  /\ cooldowns \in [Conds -> Nat \cup {Nothing}]
  /\ lastFired \in [Conds -> Nat \cup {Nothing}]
  /\ event \in Events \cup {Nothing}
  /\ todo \subseteq Conds /\ (event = Nothing => todo = {})
  /\ now \in Nat
  /\ past \in Seq([ev : Events, ts : Nat])
  /\ fires \in Seq([cond : Conds, sig : {e.sig : e \in Events}, at : Nat, n : Nat])

\* The fire cache forgets its older half: the same condition fires twice on the
\* same signature only when more than half a cache of other matches came between,
\* also when conditions are reloaded or events of one signature come again
\* (engine.ts:125, 323).
OncePerEvent ==
  \A i, j \in DOMAIN fires :
    /\ i < j
    /\ fires[i].cond = fires[j].cond /\ fires[i].sig = fires[j].sig
    => j - i > FireCacheMax + 1 - (FireCacheMax + 1) \div 2

\* While it stays loaded, a condition fires again only after its cooldown, a
\* cooldown of zero being the default one (engine.ts:127, 308), whatever the
\* cleanup of cooldowns does meanwhile.
CooldownKept ==
  [][\A c \in Conds :
       Len(fires') > Len(fires) /\ Last(fires').cond = c /\ lastFired[c] # Nothing
         => now >= lastFired[c] + Cooldown(c)]_engineVars

\* Past events that belong in the window of c as it is at fire f.
Backing(f) ==
  {i \in 1 .. f.n : /\ past[i].ts + Def[f.cond].window >= f.at
                    /\ Counts(f.cond, past[i].ev)}

\* Conditions that share the window of c.
Sharing(c) == {d \in Sliding : Key(d) = Key(c)}

\* A burst or volume condition fires only on events that happened in its own
\* window: conditions on one mint share their window and each puts an event in
\* it, so its total is at most the true one times the number of those that
\* share it, though their windows are of different lengths (engine.ts:186-267).
ThresholdBacked ==
  \A i \in DOMAIN fires :
    LET f == fires[i] IN
    f.cond \in Sliding =>
      Total([k \in 1 .. f.n |-> [amount |-> IF k \in Backing(f)
                                            THEN Weight(f.cond, past[k].ev) ELSE 0]])
        * Cardinality(Sharing(f.cond))
        >= Def[f.cond].minimum

\* server/README.md: burst and volume conditions "fire once on the transition into
\* threshold, not on every event while already above it".  Before the event that
\* made one fire, what had happened in its window was then below its minimum.
EdgeTriggered ==
  changes = 0 =>
    \A i \in DOMAIN fires :
      LET f == fires[i] IN
      f.cond \in Sliding =>
        Total([k \in 1 .. f.n - 1 |-> [amount |-> IF k \in Backing(f)
                                                  THEN Weight(f.cond, past[k].ev) ELSE 0]])
          < Def[f.cond].minimum
=============================================================================
