------------------------------ MODULE Ingestion -----------------------------
(***************************************************************************)
(* The stream of transactions (ingestion/public-rpc-provider.ts): one web  *)
(* socket to the active provider, the subscriptions asked for over it, and *)
(* the way of a notification to the event it is emitted as, together with  *)
(* the RPC manager both it and the trade executor charge their failures    *)
(* to.                                                                     *)
(*                                                                         *)
(* The socket delivers in order while it is open.  A node answers each     *)
(* request to subscribe with a new number, or refuses it.  What a          *)
(* transaction is taken for is left to TransactionParser; here it is its   *)
(* signature and the subscription whose notification it is read from.  Of  *)
(* the thousands of signatures a few are followed; the others only show in *)
(* that the older half of the set of those emitted may be trimmed at any   *)
(* time.                                                                   *)
(***************************************************************************)
EXTENDS RpcManager, FiniteSets

CONSTANTS
  Wallets,     \* addresses that can be watched
  Signatures,  \* transactions the node tells of
  Program,     \* the subscriptions to programs, of which one stands for all
  MaxSubs,     \* bound: requests, and subscriptions, of one wallet at a time
  MaxEmits     \* bound: a signature emitted so often is not told of again

ASSUME IngestionAssumption ==
  /\ Program \notin Wallets
  /\ MaxSubs \in Nat \ {0} /\ MaxEmits \in Nat

VARIABLES
  socket,     \* state of ws; "down" is before openWS, "dead" when that threw
  socketOf,   \* currentProviderId
  watched,    \* watchedWallets
  asked,      \* requests to subscribe to each wallet not yet answered
  subs,       \* subscriptions: how many lead to each wallet
  linked,     \* keys of walletSubscriptionIds
  noted,      \* the subscription the timer of each signature was set with, or none
  kept,       \* pendingNotifications: the subscription of each entry
  enriching,  \* processNotification awaits the parsed transaction
  emitted,    \* the set `emitted`
  emits,      \* events emitted of each signature
  trading,    \* the provider a trade's call went to, or 0
  refused,    \* history: wallets the node refused to subscribe since the open
  overtaken,  \* history: wallets unwatched before a request was answered
  forgotten,  \* history: signatures trimmed from `emitted`
  ledBy       \* history: who made the manager leave the socket's provider

streamVars == <<socket, socketOf>>
subVars    == <<watched, asked, subs, linked, refused, overtaken>>
eventVars  == <<noted, kept, enriching, emitted, emits, forgotten>>
ingestionVars == <<rpcVars, streamVars, subVars, eventVars, trading, ledBy>>

Unseen == "none"

IngestionInit ==
  /\ RpcInit
  /\ socket = "down" /\ socketOf = 1
  /\ watched = {} /\ linked = {} /\ refused = {} /\ overtaken = {}
  /\ asked = [w \in Wallets |-> 0] /\ subs = [w \in Wallets |-> 0]
  /\ noted = [s \in Signatures |-> Unseen] /\ kept = noted /\ enriching = {}
  /\ emitted = {} /\ emits = [s \in Signatures |-> 0] /\ forgotten = {}
  /\ trading = 0 /\ ledBy = "nobody"

-----------------------------------------------------------------------------
(* Subscriptions                                                           *)

WatchWallet(w) ==
  /\ w \notin watched /\ asked[w] < MaxSubs
  /\ watched' = watched \cup {w}
  /\ asked' = IF socket = "open" THEN [asked EXCEPT ![w] = @ + 1] ELSE asked
  /\ UNCHANGED <<rpcVars, streamVars, subs, linked, refused, overtaken, eventVars,
                 trading, ledBy>>

\* logsUnsubscribe for the number that is known; a request that is not answered
\* yet is not taken back.
UnwatchWallet(w) ==
  /\ w \in watched
  /\ watched' = watched \ {w}
  /\ subs' = IF w \in linked THEN [subs EXCEPT ![w] = @ - 1] ELSE subs
  /\ linked' = linked \ {w}
  /\ overtaken' = IF asked[w] > 0 THEN overtaken \cup {w} ELSE overtaken
  /\ UNCHANGED <<rpcVars, streamVars, asked, refused, eventVars, trading, ledBy>>

\* handleMessage of an answer: the number now leads to the wallet.
Subscribed(w) ==
  /\ socket \in {"open", "closing"} /\ asked[w] > 0 /\ subs[w] < MaxSubs
  /\ asked' = [asked EXCEPT ![w] = @ - 1]
  /\ subs' = [subs EXCEPT ![w] = @ + 1]
  /\ linked' = linked \cup {w}
  /\ UNCHANGED <<rpcVars, streamVars, watched, refused, overtaken, eventVars, trading, ledBy>>

\* An answer without a number is dropped, and nobody asks again.
SubscriptionRefused(w) ==
  /\ socket \in {"open", "closing"} /\ asked[w] > 0
  /\ asked' = [asked EXCEPT ![w] = @ - 1]
  /\ refused' = refused \cup {w}
  /\ UNCHANGED <<rpcVars, streamVars, watched, subs, linked, overtaken, eventVars,
                 trading, ledBy>>

-----------------------------------------------------------------------------
(* The socket                                                              *)

\* Mutant: a socket is opened without asking for the wallets again.
Mut_AskedAnew(w) == 0

\* One request for each wallet watched.
AskedAnew(w) == IF w \in watched THEN 1 ELSE 0

\* At the start, and when the timer of scheduleReconnect fires: the provider is
\* the one that is active then.
OpenWS ==
  /\ socket = "down"
  /\ socketOf' = activeIndex /\ ledBy' = "nobody"
  /\ socket' = "connecting"
  /\ UNCHANGED <<rpcVars, subVars, eventVars, trading>>

\* new WebSocket(url) throws: the failure is charged, and no timer is set.
OpenThrows ==
  /\ socket = "down"
  /\ socketOf' = activeIndex /\ ledBy' = "nobody"
  /\ MarkFailure(activeIndex, FALSE)
  /\ socket' = "dead"
  /\ UNCHANGED <<subVars, eventVars, trading>>

Opened ==
  /\ socket = "connecting"
  /\ socket' = "open"
  /\ subs' = [w \in Wallets |-> 0] /\ linked' = {}
  /\ asked' = [w \in Wallets |-> AskedAnew(w)]
  /\ refused' = {} /\ overtaken' = {}
  /\ UNCHANGED <<rpcVars, socketOf, watched, eventVars, trading, ledBy>>

\* The connection ends or could not be made: the failure goes to the provider
\* the socket was opened on, and the timer of the next attempt is set.
Closed ==
  /\ socket \in {"connecting", "open", "closing"}
  /\ socket' = "down"
  /\ MarkFailure(socketOf, FALSE)
  /\ asked' = [w \in Wallets |-> 0]
  /\ refused' = {} /\ overtaken' = {} /\ ledBy' = "nobody"
  /\ UNCHANGED <<socketOf, watched, subs, linked, eventVars, trading>>

-----------------------------------------------------------------------------
(* Notifications                                                           *)

Knows(s) == s \in emitted

\* A subscription that would pass a notification on: a number that is known.
Leads(via) == via = Program \/ (via \in Wallets /\ subs[via] > 0)

\* handleMessage of a notification, the first of its signature: the timer gets
\* its subscription and logs.
NoteNotification(s, via) ==
  /\ socket \in {"open", "closing"} /\ Leads(via)
  /\ ~Knows(s) /\ noted[s] = Unseen /\ emits[s] < MaxEmits
  /\ noted' = [noted EXCEPT ![s] = via] /\ kept' = [kept EXCEPT ![s] = via]
  /\ UNCHANGED <<rpcVars, streamVars, subVars, enriching, emitted, emits, forgotten,
                 trading, ledBy>>

\* A wallet's subscription goes before one to a program.
Before(via, other) == via \in Wallets /\ other = Program

\* One that comes while the timer runs replaces the entry, if it goes before it.
NoteAnother(s, via) ==
  /\ socket \in {"open", "closing"} /\ Leads(via)
  /\ ~Knows(s) /\ noted[s] # Unseen /\ Before(via, kept[s])
  /\ kept' = [kept EXCEPT ![s] = via]
  /\ UNCHANGED <<rpcVars, streamVars, subVars, noted, enriching, emitted, emits, forgotten,
                 trading, ledBy>>

\* Whether the parsed transaction is asked for: always for a wallet's, else it
\* depends on what the logs look like and on what is tracked.
MayEnrich(via) == IF via = Program THEN BOOLEAN ELSE {TRUE}

\* Mutant: the signature is remembered when its event is complete.
Mut_Remember(s, set) == IF MayEnrich(noted[s]) = {TRUE} THEN set ELSE set \cup {s}

Remember(s, set) == set \cup {s}

\* The timer fires: processNotification up to its await, or to its end when the
\* event is not enriched or a copy of 30 seconds is at hand.  A set that is full
\* is trimmed; what was just added is in its newer half.
Process(s) ==
  /\ noted[s] # Unseen
  /\ noted' = [noted EXCEPT ![s] = Unseen] /\ kept' = [kept EXCEPT ![s] = Unseen]
  /\ IF Knows(s) THEN UNCHANGED <<rpcVars, enriching, emitted, emits, forgotten>>
     ELSE /\ \E older \in SUBSET emitted :
               /\ emitted' = Remember(s, emitted \ older)
               /\ forgotten' = forgotten \cup older
          /\ MarkSuccess(socketOf)
          /\ \E enrich \in MayEnrich(noted[s]) :
               /\ enriching' = IF enrich THEN enriching \cup {s} ELSE enriching
               /\ emits' = IF enrich THEN emits ELSE [emits EXCEPT ![s] = @ + 1]
  /\ UNCHANGED <<streamVars, subVars, trading, ledBy>>

\* Mutant: what comes back when the socket is gone is dropped.
Mut_EmitEvent(s) ==
  /\ enriching' = enriching \ {s}
  /\ emits' = IF socket = "down" THEN emits ELSE [emits EXCEPT ![s] = @ + 1]
  /\ UNCHANGED <<noted, kept, emitted, forgotten>>

EmitEvent(s) ==
  /\ enriching' = enriching \ {s}
  /\ emits' = [emits EXCEPT ![s] = @ + 1]
  /\ UNCHANGED <<noted, kept, emitted, forgotten>>

\* The parsed transaction comes; that the node has none yet changes nothing.
Enriched(s) ==
  /\ s \in enriching
  /\ EmitEvent(s)
  /\ MarkSuccess(socketOf) \/ UNCHANGED rpcVars
  /\ UNCHANGED <<streamVars, subVars, trading, ledBy>>

\* Mutant: the socket stays with the provider that was left.
Mut_Switched(to) == FALSE

\* handleFailure closes an open socket of a provider that is not the active one.
Switched(to) == to # socketOf /\ socket = "open"

\* The call fails: its failure goes to the provider of the socket, and the event
\* is emitted as the logs have it.
EnrichFails(s) ==
  /\ s \in enriching
  /\ EmitEvent(s)
  /\ \E rateLimited \in BOOLEAN : MarkFailure(socketOf, rateLimited)
  /\ socket' = IF Switched(activeIndex') THEN "closing" ELSE socket
  /\ ledBy' = IF activeIndex' = activeIndex THEN ledBy
              ELSE IF socket = "open" THEN "stream" ELSE "stream, not open"
  /\ UNCHANGED <<socketOf, subVars, trading>>

\* trimDedup, every four minutes.
TrimDedup ==
  /\ emitted # {}
  /\ \E older \in SUBSET emitted \ {{}} :
       emitted' = emitted \ older /\ forgotten' = forgotten \cup older
  /\ UNCHANGED <<rpcVars, streamVars, subVars, noted, kept, enriching, emits, trading, ledBy>>

-----------------------------------------------------------------------------
(* The other user of the manager: TradeExecutor                            *)

StartTrade ==
  /\ trading = 0
  /\ trading' = activeIndex
  /\ UNCHANGED <<rpcVars, streamVars, subVars, eventVars, ledBy>>

\* The send, or a poll, fails: charged to whichever provider is active now.
TradeFails ==
  /\ trading # 0
  /\ MarkFailure(activeIndex, FALSE)
  /\ ledBy' = IF activeIndex' # activeIndex THEN "trade" ELSE ledBy
  /\ trading' = 0
  /\ UNCHANGED <<streamVars, subVars, eventVars>>

\* A confirmation is credited to the provider the trade began with.
TradeConfirmed ==
  /\ trading # 0
  /\ MarkSuccess(trading)
  /\ trading' = 0
  /\ UNCHANGED <<streamVars, subVars, eventVars, ledBy>>

IngestionNext ==
  \/ \E w \in Wallets : \/ WatchWallet(w) \/ UnwatchWallet(w)
                        \/ Subscribed(w) \/ SubscriptionRefused(w)
  \/ OpenWS \/ OpenThrows \/ Opened \/ Closed
  \/ \E s \in Signatures : \/ \E via \in Wallets \cup {Program} :
                                NoteNotification(s, via) \/ NoteAnother(s, via)
                           \/ Process(s) \/ Enriched(s) \/ EnrichFails(s)
  \/ TrimDedup
  \/ StartTrade \/ TradeFails \/ TradeConfirmed
  \/ Age /\ UNCHANGED <<streamVars, subVars, eventVars, trading, ledBy>>

\* Timers fire and calls end.
IngestionFairness ==
  \A s \in Signatures : /\ WF_ingestionVars(Process(s))
                        /\ WF_ingestionVars(Enriched(s) \/ EnrichFails(s))

IngestionSpec == IngestionInit /\ [][IngestionNext]_ingestionVars /\ IngestionFairness

-----------------------------------------------------------------------------
(* Properties                                                              *)

IngestionTypeOK ==
  /\ activeIndex \in Providers /\ socketOf \in Providers /\ trading \in Providers \cup {0}
  /\ consecutive \in [Providers -> 0 .. MaxCount] /\ recent \in [Providers -> 0 .. MaxCount]
  /\ socket \in {"down", "connecting", "open", "closing", "dead"}
  /\ watched \subseteq Wallets /\ linked \subseteq Wallets
  /\ refused \subseteq Wallets /\ overtaken \subseteq Wallets
  /\ asked \in [Wallets -> 0 .. MaxSubs] /\ subs \in [Wallets -> 0 .. MaxSubs]
  /\ noted \in [Signatures -> Wallets \cup {Program, Unseen}]
  /\ kept \in [Signatures -> Wallets \cup {Program, Unseen}]
  /\ enriching \subseteq Signatures /\ forgotten \subseteq Signatures
  /\ emitted \subseteq Signatures
  /\ emits \in [Signatures -> Nat]
  /\ ledBy \in {"nobody", "stream", "stream, not open", "trade"}

\* A transaction is one event, however many subscriptions and sockets tell of
\* it while its timer runs and while its parsed form is awaited, until it is
\* trimmed from the set (handleMessage, processNotification).
EmittedOnce == \A s \in Signatures \ forgotten : emits[s] <= 1

\* And it is an event in the end, whatever becomes of the socket, the provider
\* and the call for its parsed form.
NotedIsEmitted == \A s \in Signatures : noted[s] # Unseen ~> emits[s] > 0

\* On an open socket with every answer in, the wallets that lead somewhere are
\* those that are watched, across reconnects (openWS, watchWallet,
\* unwatchWallet); but for those the node refused, which are lost until the
\* next socket, and those given up before their answer came, which stay.
SubscribedAsWatched ==
  socket = "open" =>
    \A w \in Wallets :
      asked[w] = 0 => /\ w \in watched \ refused => subs[w] > 0
                      /\ w \notin watched \cup overtaken => subs[w] = 0

\* The socket is on the provider the calls go to (handleFailure, openWS), unless
\* the manager was led on by a trade, or by a call of the stream that failed
\* while its next socket was being connected: nobody closes the socket then.
SocketFollows ==
  socket = "open" /\ socketOf # activeIndex => ledBy \in {"trade", "stream, not open"}
=============================================================================
