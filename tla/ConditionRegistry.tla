------------------------- MODULE ConditionRegistry -------------------------
(***************************************************************************)
(* The conditions of one user: the routes that create, delete, toggle and  *)
(* list them (server/src/index.ts), the table they are kept in             *)
(* (db/conditionRepo.ts), what they leave in the condition engine's        *)
(* indexes and in the ingestion layer's watch lists, and the list the      *)
(* browser shows (web/hooks/useConditions.ts).                             *)
(*                                                                         *)
(* A route runs undisturbed between its awaits; every await of a database  *)
(* call is two steps, the statement and the rest of the handler, and       *)
(* requests interleave at them.  One Condition object per identifier is    *)
(* shared by conditionStore, the engine and every handler that looked it   *)
(* up, so `enabled` is one field however it is reached.                    *)
(*                                                                         *)
(* Identifiers are fresh (the web client sends none, the schema's default  *)
(* is a nanoid).  Trigger statistics are left out but for the second await *)
(* of a deletion.                                                          *)
(***************************************************************************)
EXTENDS Naturals, FiniteSets

CONSTANTS
  Conds,        \* the conditions that may be created
  WalletOf,     \* condition.wallet of each, or Nothing
  MintOf,       \* condition.tokenMint of each, or Nothing
  Windowed,     \* those of type SWAP_BURST or TOKEN_VOLUME
  Large,        \* those of type LARGE_TRANSFER
  Wallets, Mints,
  Nothing,      \* an absent field
  Slots         \* calls of the browser that can be under way at a time

ASSUME RegistryAssumption ==
  /\ IsFiniteSet(Conds)
  /\ Nothing \notin Wallets \cup Mints \cup Conds
  /\ WalletOf \in [Conds -> Wallets \cup {Nothing}]
  /\ MintOf \in [Conds -> Mints \cup {Nothing}]
  /\ Windowed \subseteq Conds /\ Large \subseteq Conds

VARIABLES
  rows,        \* the table conditions: what the row of each says
  posted,      \* identifiers that have been used
  store,       \* keys of conditionStore
  enabled,     \* conditions whose object says enabled
  loaded,      \* keys of ConditionEngine.conditions
  indexed,     \* conditions some index of the engine leads to
  watched,     \* watchedWallets, of index.ts and of the provider
  refs,        \* trackedTokenRefs, an absent entry as zero
  tracked,     \* the provider's trackedTokenMints
  largeCount,  \* largeTransferConditionCount
  watchLarge,  \* the provider's watchLargeTransfers
  call,        \* the browser's calls under way
  shown,       \* the list the browser shows
  twice,       \* history: conditions unregistered that were not registered
  disturbed    \* history: conditions two calls were under way for at once, or
               \* a statement failed for

trackVars    == <<watched, refs, tracked, largeCount, watchLarge, twice>>
engineVars   == <<loaded, indexed>>
memoryVars   == <<store, enabled, engineVars, trackVars>>
registryVars == <<rows, posted, memoryVars, call, shown, disturbed>>

States == {"none", "on", "off"}
Kinds  == {"POST", "DELETE", "PATCH", "GET"}

\* "sent": not yet handled.  "row": awaits the statement on conditions, which
\* makes its row `to`.  "rowDone": the statement has been executed.  "stats":
\* awaits the deletion of the statistics.  "counts": awaits the execution
\* counts of a list.  "ok", "failed": answered.
CallAt == {"free", "sent", "row", "rowDone", "stats", "counts", "ok", "failed"}
Free   == [kind |-> "GET", cond |-> Nothing, to |-> "none", at |-> "free", listed |-> {}]

RegistryInit ==
  /\ rows = [c \in Conds |-> "none"]
  /\ posted = {} /\ store = {} /\ enabled = {}
  /\ loaded = {} /\ indexed = {}
  /\ watched = {} /\ tracked = {}
  /\ refs = [m \in Mints |-> 0]
  /\ largeCount = 0 /\ watchLarge = FALSE
  /\ call = [s \in Slots |-> Free]
  /\ shown = [c \in Conds |-> "none"]
  /\ twice = {} /\ disturbed = {}

-----------------------------------------------------------------------------
(* registerConditionTracking and unregisterConditionTracking               *)

Register(c) ==
  LET w == WalletOf[c]  m == MintOf[c] IN
  /\ watched' = IF w = Nothing THEN watched ELSE watched \cup {w}
  /\ refs' = IF m = Nothing THEN refs ELSE [refs EXCEPT ![m] = @ + 1]
  /\ tracked' = IF m # Nothing /\ refs[m] = 0 THEN tracked \cup {m} ELSE tracked
  /\ largeCount' = IF c \in Large THEN largeCount + 1 ELSE largeCount
  /\ watchLarge' = IF c \in Large THEN TRUE ELSE watchLarge
  /\ UNCHANGED twice

\* Mutant: other conditions are not asked about.
Mut_StillNeeded(c, stored) == FALSE

\* Whether another stored condition, enabled or not, names the same wallet.
StillNeeded(c, stored) == \E d \in stored : d # c /\ WalletOf[d] = WalletOf[c]

\* Mutant: the last reference is kept.
Mut_Less(n) == IF n <= 1 THEN n ELSE n - 1

\* A count goes down to zero and no further.
Less(n) == IF n = 0 THEN 0 ELSE n - 1

\* Nothing here looks at condition.enabled.  `stored` is conditionStore then.
Unregister(c, stored) ==
  LET w == WalletOf[c]  m == MintOf[c] IN
  /\ watched' = IF w # Nothing /\ ~StillNeeded(c, stored) THEN watched \ {w} ELSE watched
  /\ refs' = IF m = Nothing THEN refs ELSE [refs EXCEPT ![m] = Less(@)]
  /\ tracked' = IF m # Nothing /\ refs[m] <= 1 THEN tracked \ {m} ELSE tracked
  /\ largeCount' = IF c \in Large THEN Less(largeCount) ELSE largeCount
  /\ watchLarge' = IF c \in Large THEN Less(largeCount) > 0 ELSE watchLarge
  /\ twice' = IF c \in store \cap enabled THEN twice ELSE twice \cup {c}

-----------------------------------------------------------------------------
(* ConditionEngine.load and unload                                         *)

\* Which conditions load enters into an index.
Indexable(c) == WalletOf[c] # Nothing \/ c \in Windowed

LoadCondition(c, isOn) ==
  /\ loaded' = loaded \cup {c}
  /\ indexed' = IF isOn /\ Indexable(c) THEN indexed \cup {c} ELSE indexed

UnloadCondition(c) ==
  /\ loaded' = loaded \ {c}
  /\ indexed' = IF c \in loaded THEN indexed \ {c} ELSE indexed

\* unload, then load, one after the other without an await.
ReloadCondition(c) ==
  /\ loaded' = loaded \cup {c}
  /\ indexed' = IF c \in enabled /\ Indexable(c)
                THEN indexed \cup {c}
                ELSE IF c \in loaded THEN indexed \ {c} ELSE indexed

\* What evaluate can match: check looks the object up and at its enabled.
Live == loaded \cap indexed \cap enabled

-----------------------------------------------------------------------------
(* The browser                                                             *)

Memory(c) == IF c \notin store THEN "none" ELSE IF c \in enabled THEN "on" ELSE "off"

Busy(c)    == {s \in Slots : call[s].at # "free" /\ call[s].cond = c}
Listing    == {s \in Slots : call[s].at # "free" /\ call[s].kind = "GET"}
AllBusy    == {c \in Conds : Busy(c) # {}}
AtCall(s, at) == call' = [call EXCEPT ![s].at = at]

\* A call leaves the browser; what the list shows is changed at once for a
\* deletion and a toggle, and when it is answered for a creation.
Submit(s, kind, c, to) ==
  /\ call[s].at = "free"
  /\ call' = [call EXCEPT ![s] = [Free EXCEPT !.kind = kind, !.cond = c, !.to = to, !.at = "sent"]]
  /\ disturbed' = IF Busy(c) \cup Listing = {} THEN disturbed ELSE disturbed \cup {c}
  /\ UNCHANGED <<rows, memoryVars>>

SubmitPost(s, c) ==
  /\ c \notin posted
  /\ Submit(s, "POST", c, "on")
  /\ posted' = posted \cup {c}
  /\ UNCHANGED shown

SubmitDelete(s, c) ==
  /\ shown[c] # "none"
  /\ Submit(s, "DELETE", c, "none")
  /\ shown' = [shown EXCEPT ![c] = "none"]
  /\ UNCHANGED posted

SubmitToggle(s, c) ==
  /\ shown[c] # "none"
  /\ LET to == IF shown[c] = "on" THEN "off" ELSE "on" IN
       /\ Submit(s, "PATCH", c, to)
       /\ shown' = [shown EXCEPT ![c] = to]
  /\ UNCHANGED posted

\* refetch, three seconds after a creation, on a trigger, by hand, or because
\* a call was refused.
SendList(s) ==
  /\ call' = [call EXCEPT ![s] = [Free EXCEPT !.cond = call[s].cond, !.at = "sent"]]
  /\ disturbed' = disturbed \cup (AllBusy \ {call[s].cond})

Refetch(s) ==
  /\ call[s].at = "free"
  /\ SendList(s)
  /\ UNCHANGED <<rows, posted, memoryVars, shown>>

\* The answer arrives; addOptimistic keeps an entry a list brought before it.
Answered(s) ==
  LET c == call[s].cond IN
  /\ \/ /\ call[s].kind = "POST" /\ call[s].at \in {"ok", "failed"}
        /\ call' = [call EXCEPT ![s] = Free]
        /\ shown' = IF call[s].at = "ok" /\ shown[c] = "none"
                    THEN [shown EXCEPT ![c] = "on"] ELSE shown
        /\ UNCHANGED disturbed
     \/ /\ call[s].kind \in {"DELETE", "PATCH"} /\ call[s].at = "ok"
        /\ call' = [call EXCEPT ![s] = Free]
        /\ UNCHANGED <<shown, disturbed>>
     \/ /\ call[s].kind \in {"DELETE", "PATCH"} /\ call[s].at = "failed"
        /\ SendList(s)
        /\ UNCHANGED shown
  /\ UNCHANGED <<rows, posted, memoryVars>>

\* The answer is lost, which the browser takes for a refusal.
AnswerLost(s) ==
  /\ call[s].at = "ok"
  /\ AtCall(s, "failed")
  /\ disturbed' = IF call[s].kind = "POST" THEN disturbed \cup {call[s].cond} ELSE disturbed
  /\ UNCHANGED <<rows, posted, memoryVars, shown>>

-----------------------------------------------------------------------------
(* The routes                                                              *)

\* POST /conditions up to its save; it may be refused before.
HandlePost(s) ==
  /\ call[s].at = "sent" /\ call[s].kind = "POST"
  /\ AtCall(s, "row") \/ AtCall(s, "failed")
  /\ UNCHANGED <<rows, posted, memoryVars, shown, disturbed>>

\* DELETE /conditions/:id up to the deletion of the row.
HandleDelete(s) ==
  /\ call[s].at = "sent" /\ call[s].kind = "DELETE"
  /\ AtCall(s, IF call[s].cond \in store THEN "row" ELSE "failed")
  /\ UNCHANGED <<rows, posted, memoryVars, shown, disturbed>>

\* PATCH /conditions/:id/toggle up to its save: the object and the reference
\* counts are changed before the row is.
HandleToggle(s) ==
  LET c == call[s].cond  on == call[s].to = "on" IN
  /\ call[s].at = "sent" /\ call[s].kind = "PATCH"
  /\ IF c \notin store
     THEN AtCall(s, "failed") /\ UNCHANGED <<enabled, trackVars>>
     ELSE /\ AtCall(s, "row")
          /\ enabled' = IF on THEN enabled \cup {c} ELSE enabled \ {c}
          /\ \/ c \in enabled /\ ~on /\ Unregister(c, store)
             \/ c \notin enabled /\ on /\ Register(c)
             \/ (c \in enabled <=> on) /\ UNCHANGED trackVars
  /\ UNCHANGED <<rows, posted, store, engineVars, shown, disturbed>>

\* Mutant: the upsert leaves an existing row as it is.
Mut_NewRow(row, to) == IF row # "none" /\ to # "none" THEN row ELSE to

NewRow(row, to) == to

\* The database executes conditionRepo.save (an upsert) or delete: the row is
\* what the object was when the handler called.
ExecuteRow(s) ==
  /\ call[s].at = "row"
  /\ rows' = [rows EXCEPT ![call[s].cond] = NewRow(@, call[s].to)]
  /\ AtCall(s, "rowDone")
  /\ UNCHANGED <<posted, memoryVars, shown, disturbed>>

\* A statement fails, or its answer is lost; the handler ends with a 500.
StatementFails(s) ==
  /\ call[s].at \in {"row", "rowDone", "stats"}
  /\ AtCall(s, "failed")
  /\ disturbed' = disturbed \cup {call[s].cond}
  /\ UNCHANGED <<rows, posted, memoryVars, shown>>

\* The rest of POST /conditions.
FinishPost(s) ==
  LET c == call[s].cond IN
  /\ call[s].at = "rowDone" /\ call[s].kind = "POST"
  /\ store' = store \cup {c}
  /\ enabled' = enabled \cup {c}
  /\ LoadCondition(c, TRUE)
  /\ Register(c)
  /\ AtCall(s, "ok")
  /\ UNCHANGED <<rows, posted, shown, disturbed>>

\* The row is gone; DELETE awaits statsRepo.delete.
DeleteStats(s) ==
  /\ call[s].at = "rowDone" /\ call[s].kind = "DELETE"
  /\ AtCall(s, "stats")
  /\ UNCHANGED <<rows, posted, memoryVars, shown, disturbed>>

\* The rest of DELETE /conditions/:id.
FinishDelete(s) ==
  LET c == call[s].cond IN
  /\ call[s].at = "stats"
  /\ UnloadCondition(c)
  /\ store' = store \ {c}
  /\ Unregister(c, store \ {c})
  /\ AtCall(s, "ok")
  /\ UNCHANGED <<rows, posted, enabled, shown, disturbed>>

\* The rest of PATCH /conditions/:id/toggle.
FinishToggle(s) ==
  LET c == call[s].cond IN
  /\ call[s].at = "rowDone" /\ call[s].kind = "PATCH"
  /\ ReloadCondition(c)
  /\ AtCall(s, "ok")
  /\ UNCHANGED <<rows, posted, store, enabled, trackVars, shown, disturbed>>

\* GET /conditions/:userId: which conditions are listed is settled before the
\* await of their execution counts, what is said of them after it.
HandleList(s) ==
  /\ call[s].at = "sent" /\ call[s].kind = "GET"
  /\ call' = [call EXCEPT ![s].listed = store, ![s].at = "counts"]
  /\ UNCHANGED <<rows, posted, memoryVars, shown, disturbed>>

FinishList(s) ==
  /\ call[s].at = "counts"
  /\ shown' = [c \in Conds |-> IF c \notin call[s].listed THEN "none"
                               ELSE IF c \in enabled THEN "on" ELSE "off"]
  /\ call' = [call EXCEPT ![s] = Free]
  /\ UNCHANGED <<rows, posted, memoryVars, disturbed>>

\* The list cannot be had; the browser goes on showing what it did.
ListFails(s) ==
  /\ call[s].at # "free" /\ call[s].kind = "GET"
  /\ call' = [call EXCEPT ![s] = Free]
  /\ disturbed' = disturbed \cup ({call[s].cond} \ {Nothing})
  /\ UNCHANGED <<rows, posted, memoryVars, shown>>

\* The process stops and starts: memory is what getAll makes of the table.
Restart ==
  LET on == {c \in Conds : rows[c] = "on"} IN
  /\ store' = {c \in Conds : rows[c] # "none"}
  /\ enabled' = on
  /\ loaded' = store'
  /\ indexed' = {c \in on : Indexable(c)}
  /\ watched' = {WalletOf[c] : c \in on} \ {Nothing}
  /\ refs' = [m \in Mints |-> Cardinality({c \in on : MintOf[c] = m})]
  /\ tracked' = {MintOf[c] : c \in on} \ {Nothing}
  /\ largeCount' = Cardinality(on \cap Large)
  /\ watchLarge' = (on \cap Large # {})
  /\ twice' = {}
  /\ call' = [s \in Slots |-> IF call[s].at = "free" THEN Free
                              ELSE [call[s] EXCEPT !.at = "failed"]]
  /\ disturbed' = disturbed \cup {call[s].cond : s \in {t \in Slots : call[t].kind = "POST"}}
  /\ UNCHANGED <<rows, posted, shown>>

Browse(s) ==
  \/ \E c \in Conds : SubmitPost(s, c) \/ SubmitDelete(s, c) \/ SubmitToggle(s, c)
  \/ Refetch(s) \/ Answered(s) \/ AnswerLost(s)

Serve(s) ==
  \/ HandlePost(s) \/ HandleDelete(s) \/ HandleToggle(s) \/ HandleList(s)
  \/ ExecuteRow(s) \/ StatementFails(s) \/ DeleteStats(s)
  \/ FinishPost(s) \/ FinishDelete(s) \/ FinishToggle(s) \/ FinishList(s) \/ ListFails(s)

RegistryNext == (\E s \in Slots : Browse(s) \/ Serve(s)) \/ Restart

RegistrySpec == RegistryInit /\ [][RegistryNext]_registryVars

-----------------------------------------------------------------------------
(* Properties                                                              *)

\* The state is of the expected types.
RegistryTypeOK ==
  /\ rows \in [Conds -> States] /\ shown \in [Conds -> States]
  /\ posted \subseteq Conds /\ store \subseteq Conds /\ enabled \subseteq Conds
  /\ loaded \subseteq Conds /\ indexed \subseteq Conds
  /\ watched \subseteq Wallets /\ tracked \subseteq Mints
  /\ refs \in [Mints -> Nat] /\ largeCount \in Nat /\ watchLarge \in BOOLEAN
  /\ call \in [Slots -> [kind : Kinds, cond : Conds \cup {Nothing}, to : States,
                         at : CallAt, listed : SUBSET Conds]]
  /\ twice \subseteq Conds /\ disturbed \subseteq Conds

WalletsOf(S) == {WalletOf[c] : c \in S} \ {Nothing}
OnMint(S, m) == {c \in S : MintOf[c] = m}

\* The ingestion layer watches every wallet an enabled condition names, and no
\* wallet that no stored condition names, however the routes interleave and
\* whichever of their statements fail (index.ts:222-248).
WatchedAsNeeded ==
  /\ WalletsOf(store \cap enabled) \subseteq watched
  /\ watched \subseteq WalletsOf(store)

\* The reference counts are the numbers of enabled conditions, unless one was
\* taken out twice: a deletion does not ask whether the condition was enabled
\* (index.ts:227-263), and then the tracking others need may end.
CountsAreExact ==
  /\ \A m \in Mints : OnMint(twice, m) = {} =>
       /\ refs[m] = Cardinality(OnMint(store \cap enabled, m))
       /\ m \in tracked <=> refs[m] > 0
  /\ twice \cap Large = {} =>
       /\ largeCount = Cardinality(store \cap enabled \cap Large)
       /\ watchLarge <=> largeCount > 0

\* Once no call about a condition is under way, its row, the object, what the
\* engine matches and what the browser shows agree, if no two calls about it
\* overlapped and no statement about it failed: the four are written by
\* different steps of a call, between which the process may have restarted.
QuietAgreement ==
  \A c \in Conds \ disturbed : Busy(c) = {} =>
    /\ rows[c] = Memory(c)
    /\ shown[c] = Memory(c)
    /\ c \in Live <=> Memory(c) = "on" /\ Indexable(c)
=============================================================================
