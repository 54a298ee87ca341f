------------------------- MODULE EventPath_proofs -------------------------
(***************************************************************************)
(* Proofs about the way of an event through the server: Ingestion, which   *)
(* makes events of what the node tells, EventQueue, which starts their     *)
(* handlers, and Realtime, which tells the browser of the trades that come *)
(* of them.  They hold for any number of providers, wallets, signatures,   *)
(* events, sockets and trades, and any size of the queue.                  *)
(***************************************************************************)
EXTENDS Ingestion, EventQueue, Realtime, SequenceTheorems, FiniteSetTheorems, TLAPS

-----------------------------------------------------------------------------
(* Ingestion                                                               *)
(*                                                                         *)
(* A transaction is one event until it is forgotten, and an open socket is *)
(* on the active provider unless somebody else moved the manager on.       *)

\* A number known for a wallet is one of those that lead to it.
LinkedLeads == \A w \in linked : subs[w] > 0

\* The types, with what they need of the subscriptions.
StreamTypeInv == IngestionTypeOK /\ LinkedLeads

\* What each part of the state must be.
RpcTypes    == /\ activeIndex \in Providers
               /\ consecutive \in [Providers -> 0 .. MaxCount]
               /\ recent \in [Providers -> 0 .. MaxCount]
SocketTypes == /\ socketOf \in Providers /\ trading \in Providers \cup {0}
               /\ socket \in {"down", "connecting", "open", "closing", "dead"}
               /\ ledBy \in {"nobody", "stream", "stream, not open", "trade"}
SubTypes    == /\ watched \subseteq Wallets /\ linked \subseteq Wallets
               /\ refused \subseteq Wallets /\ overtaken \subseteq Wallets
               /\ asked \in [Wallets -> 0 .. MaxSubs] /\ subs \in [Wallets -> 0 .. MaxSubs]
               /\ LinkedLeads
EventTypes  == /\ noted \in [Signatures -> Wallets \cup {Program, Unseen}]
               /\ kept \in [Signatures -> Wallets \cup {Program, Unseen}]
               /\ enriching \subseteq Signatures /\ forgotten \subseteq Signatures
               /\ emitted \subseteq Signatures /\ emits \in [Signatures -> Nat]

\* Whatever touches neither keeps them.
LEMMA PartsKept ==
  /\ RpcTypes /\ UNCHANGED rpcVars => RpcTypes'
  /\ SocketTypes /\ UNCHANGED <<streamVars, trading, ledBy>> => SocketTypes'
  /\ SubTypes /\ UNCHANGED subVars => SubTypes'
  /\ EventTypes /\ UNCHANGED eventVars => EventTypes'
BY DEF RpcTypes, SocketTypes, SubTypes, EventTypes, rpcVars, streamVars, subVars,
       eventVars, LinkedLeads

LEMMA FailureType ==
  ASSUME RpcTypes, NEW p \in Providers, NEW rateLimited \in BOOLEAN,
         MarkFailure(p, rateLimited)
  PROVE  RpcTypes'
<1>1. \A n \in 0 .. MaxCount : OneMore(n) \in 0 .. MaxCount
  BY RpcAssumption DEF OneMore
<1>2. activeIndex' \in Providers
  BY RpcAssumption DEF MarkFailure, ShouldFailover, Providers, RpcTypes
<1> QED
  BY <1>1, <1>2 DEF MarkFailure, RpcTypes

LEMMA SuccessType ==
  ASSUME RpcTypes, NEW p \in Providers, MarkSuccess(p)
  PROVE  RpcTypes'
BY RpcAssumption DEF MarkSuccess, RpcTypes

LEMMA SubscriptionTypes ==
  ASSUME SubTypes, NEW w \in Wallets,
         WatchWallet(w) \/ UnwatchWallet(w) \/ Subscribed(w) \/ SubscriptionRefused(w)
  PROVE  SubTypes'
<1>0. MaxSubs \in Nat /\ subs[w] \in 0 .. MaxSubs /\ asked[w] \in 0 .. MaxSubs
  BY IngestionAssumption DEF SubTypes
<1>1. CASE WatchWallet(w)
  <2>1. asked[w] + 1 \in 0 .. MaxSubs
    BY <1>0, <1>1 DEF WatchWallet
  <2> QED
    BY <1>1, <2>1 DEF WatchWallet, SubTypes, LinkedLeads
<1>2. CASE UnwatchWallet(w)
  <2>1. CASE w \in linked
    <3>1. subs[w] - 1 \in 0 .. MaxSubs
      BY <1>0, <2>1 DEF SubTypes, LinkedLeads
    <3>2. linked' = linked \ {w} /\ subs' = [subs EXCEPT ![w] = subs[w] - 1]
      BY <1>2, <2>1 DEF UnwatchWallet
    <3>3. LinkedLeads' /\ subs' \in [Wallets -> 0 .. MaxSubs]
      BY <3>1, <3>2 DEF LinkedLeads, SubTypes
    <3> QED
      BY <1>2, <3>2, <3>3 DEF UnwatchWallet, SubTypes
  <2>2. CASE w \notin linked
    BY <1>2, <2>2 DEF UnwatchWallet, SubTypes, LinkedLeads
  <2> QED
    BY <2>1, <2>2
<1>3. CASE Subscribed(w)
  <2>1. asked[w] - 1 \in 0 .. MaxSubs /\ subs[w] + 1 \in 0 .. MaxSubs /\ subs[w] + 1 > 0
    BY <1>0, <1>3 DEF Subscribed
  <2>2. LinkedLeads'
    BY <1>3, <2>1 DEF Subscribed, SubTypes, LinkedLeads
  <2> QED
    BY <1>3, <2>1, <2>2 DEF Subscribed, SubTypes
<1>4. CASE SubscriptionRefused(w)
  <2>1. asked[w] - 1 \in 0 .. MaxSubs
    BY <1>0, <1>4 DEF SubscriptionRefused
  <2> QED
    BY <1>4, <2>1 DEF SubscriptionRefused, SubTypes, LinkedLeads
<1> QED
  BY <1>1, <1>2, <1>3, <1>4

LEMMA StreamTypeStep == StreamTypeInv /\ [IngestionNext]_ingestionVars => StreamTypeInv'
<1> SUFFICES ASSUME RpcTypes, SocketTypes, SubTypes, EventTypes,
                    [IngestionNext]_ingestionVars
             PROVE  RpcTypes' /\ SocketTypes' /\ SubTypes' /\ EventTypes'
  BY DEF StreamTypeInv, IngestionTypeOK, RpcTypes, SocketTypes, SubTypes, EventTypes
<1> DEFINE Goal == RpcTypes' /\ SocketTypes' /\ SubTypes' /\ EventTypes'
<1>1. ASSUME NEW w \in Wallets,
             WatchWallet(w) \/ UnwatchWallet(w) \/ Subscribed(w) \/ SubscriptionRefused(w)
      PROVE  Goal
  <2>1. UNCHANGED <<rpcVars, streamVars, eventVars, trading, ledBy>>
    BY <1>1 DEF WatchWallet, UnwatchWallet, Subscribed, SubscriptionRefused
  <2> QED
    BY <1>1, <2>1, SubscriptionTypes, PartsKept
<1>2. CASE OpenWS
  <2>1. SocketTypes'
    BY <1>2 DEF OpenWS, SocketTypes, RpcTypes
  <2> QED
    BY <1>2, <2>1, PartsKept DEF OpenWS
<1>3. CASE OpenThrows
  <2>1. SocketTypes'
    BY <1>3 DEF OpenThrows, SocketTypes, RpcTypes
  <2>2. RpcTypes'
    BY <1>3, FailureType DEF OpenThrows, RpcTypes
  <2> QED
    BY <1>3, <2>1, <2>2, PartsKept DEF OpenThrows
<1>4. CASE Opened
  <2>1. SocketTypes'
    BY <1>4 DEF Opened, SocketTypes
  <2>2. \A w \in Wallets : 0 \in 0 .. MaxSubs /\ AskedAnew(w) \in 0 .. MaxSubs
    BY IngestionAssumption DEF AskedAnew
  <2>3. SubTypes'
    BY <1>4, <2>2 DEF Opened, SubTypes, LinkedLeads
  <2> QED
    BY <1>4, <2>1, <2>3, PartsKept DEF Opened
<1>5. CASE Closed
  <2>1. SocketTypes'
    BY <1>5 DEF Closed, SocketTypes
  <2>2. RpcTypes'
    BY <1>5, FailureType DEF Closed, SocketTypes
  <2>3. 0 \in 0 .. MaxSubs
    BY IngestionAssumption
  <2>4. SubTypes'
    BY <1>5, <2>3 DEF Closed, SubTypes, LinkedLeads
  <2> QED
    BY <1>5, <2>1, <2>2, <2>4, PartsKept DEF Closed
<1>6. ASSUME NEW s \in Signatures, NEW via \in Wallets \cup {Program},
             NoteNotification(s, via) \/ NoteAnother(s, via)
      PROVE  Goal
  <2>1. EventTypes'
    BY <1>6 DEF NoteNotification, NoteAnother, EventTypes
  <2> QED
    BY <1>6, <2>1, PartsKept DEF NoteNotification, NoteAnother
<1>7. ASSUME NEW s \in Signatures, Process(s) PROVE Goal
  <2>1. UNCHANGED <<streamVars, subVars, trading, ledBy>>
    BY <1>7 DEF Process
  <2>2. /\ noted' \in [Signatures -> Wallets \cup {Program, Unseen}]
        /\ kept' \in [Signatures -> Wallets \cup {Program, Unseen}]
    BY <1>7 DEF Process, EventTypes
  <2>3. CASE Knows(s)
    BY <1>7, <2>1, <2>2, <2>3, PartsKept DEF Process, EventTypes
  <2>4. CASE ~Knows(s)
    <3>1. emitted' \subseteq Signatures /\ forgotten' \subseteq Signatures
      BY <1>7, <2>4 DEF Process, Remember, EventTypes
    <3>2. emits[s] + 1 \in Nat
      BY DEF EventTypes
    <3>3. enriching' \subseteq Signatures /\ emits' \in [Signatures -> Nat]
      BY <1>7, <2>4, <3>2 DEF Process, EventTypes
    <3>4. RpcTypes'
      BY <1>7, <2>4, SuccessType DEF Process, SocketTypes
    <3> QED
      BY <2>1, <2>2, <3>1, <3>3, <3>4, PartsKept DEF EventTypes
  <2> QED
    BY <2>3, <2>4
<1>8. ASSUME NEW s \in Signatures, EmitEvent(s) PROVE EventTypes'
  <2>1. emits[s] + 1 \in Nat
    BY DEF EventTypes
  <2> QED
    BY <1>8, <2>1 DEF EmitEvent, EventTypes
<1>9. ASSUME NEW s \in Signatures, Enriched(s) PROVE Goal
  <2>1. RpcTypes'
    BY <1>9, SuccessType, PartsKept DEF Enriched, SocketTypes
  <2> QED
    BY <1>8, <1>9, <2>1, PartsKept DEF Enriched
<1>10. ASSUME NEW s \in Signatures, EnrichFails(s) PROVE Goal
  <2>1. RpcTypes'
    BY <1>10, FailureType DEF EnrichFails, SocketTypes
  <2>2. SocketTypes'
    BY <1>10 DEF EnrichFails, SocketTypes
  <2> QED
    BY <1>8, <1>10, <2>1, <2>2, PartsKept DEF EnrichFails
<1>11. CASE TrimDedup
  <2>1. EventTypes'
    BY <1>11 DEF TrimDedup, EventTypes
  <2> QED
    BY <1>11, <2>1, PartsKept DEF TrimDedup, streamVars
<1>12. CASE StartTrade
  <2>1. SocketTypes'
    BY <1>12 DEF StartTrade, SocketTypes, RpcTypes, streamVars
  <2> QED
    BY <1>12, <2>1, PartsKept DEF StartTrade
<1>13. CASE TradeFails
  <2>1. SocketTypes'
    BY <1>13 DEF TradeFails, SocketTypes, streamVars
  <2>2. RpcTypes'
    BY <1>13, FailureType DEF TradeFails, RpcTypes
  <2> QED
    BY <1>13, <2>1, <2>2, PartsKept DEF TradeFails
<1>14. CASE TradeConfirmed
  <2>1. SocketTypes'
    BY <1>14 DEF TradeConfirmed, SocketTypes, streamVars
  <2>2. trading \in Providers /\ MarkSuccess(trading)
    BY <1>14 DEF TradeConfirmed, SocketTypes
  <2>3. RpcTypes'
    BY <2>2, SuccessType
  <2> QED
    BY <1>14, <2>1, <2>3, PartsKept DEF TradeConfirmed
<1>15. CASE Age /\ UNCHANGED <<streamVars, subVars, eventVars, trading, ledBy>>
  <2>1. recent[activeIndex] - 1 \in 0 .. MaxCount
    BY <1>15, RpcAssumption DEF Age, RpcTypes
  <2>2. RpcTypes'
    BY <1>15, <2>1 DEF Age, RpcTypes
  <2> QED
    BY <1>15, <2>2, PartsKept
<1>16. CASE UNCHANGED ingestionVars
  BY <1>16, PartsKept DEF ingestionVars
<1> QED
  BY <1>1, <1>2, <1>3, <1>4, <1>5, <1>6, <1>7, <1>9, <1>10, <1>11, <1>12, <1>13,
     <1>14, <1>15, <1>16 DEF IngestionNext

LEMMA StreamTypeInit == IngestionInit => StreamTypeInv
<1> SUFFICES ASSUME IngestionInit PROVE StreamTypeInv
  OBVIOUS
<1> QED
  BY RpcAssumption, IngestionAssumption DEF IngestionInit, RpcInit, StreamTypeInv,
     IngestionTypeOK, LinkedLeads, Providers

\* The state of the stream and of the manager is of the expected types, in
\* every state: a count of subscriptions is never taken below zero
\* (handleMessage, unwatchWallet, markProviderFailure).
THEOREM IngestionTypes == IngestionSpec => []IngestionTypeOK
<1>1. StreamTypeInv => IngestionTypeOK
  BY DEF StreamTypeInv
<1> QED
  BY <1>1, StreamTypeInit, StreamTypeStep, PTL DEF IngestionSpec

-----------------------------------------------------------------------------
(* One event for each transaction                                          *)

\* Until it is forgotten, a signature that was never emitted has no event and
\* nothing under way, and one that was has its event behind or before it.
SeenOnce ==
  \A s \in Signatures \ forgotten :
    IF s \in emitted THEN IF s \in enriching THEN emits[s] = 0 ELSE emits[s] <= 1
                     ELSE emits[s] = 0 /\ s \notin enriching

SeenInv == EventTypes /\ SeenOnce

LEMMA SeenByProcess ==
  ASSUME SeenInv, NEW s \in Signatures, Process(s)
  PROVE  SeenOnce'
<1>1. CASE Knows(s)
  BY <1>1 DEF Process, SeenInv, SeenOnce
<1>2. CASE ~Knows(s)
  <2>1. PICK older \in SUBSET emitted : /\ emitted' = (emitted \ older) \cup {s}
                                        /\ forgotten' = forgotten \cup older
    BY <1>2 DEF Process, Remember
  <2>2. PICK enrich \in BOOLEAN :
          /\ enriching' = IF enrich THEN enriching \cup {s} ELSE enriching
          /\ emits' = IF enrich THEN emits ELSE [emits EXCEPT ![s] = @ + 1]
    BY <1>2 DEF Process, MayEnrich
  <2>3. s \notin emitted
    BY <1>2 DEF Knows
  <2> SUFFICES ASSUME NEW t \in Signatures, t \notin forgotten'
               PROVE  IF t \in emitted' THEN IF t \in enriching' THEN emits'[t] = 0
                                                                ELSE emits'[t] <= 1
                                        ELSE emits'[t] = 0 /\ t \notin enriching'
    BY DEF SeenOnce
  <2>4. t \notin forgotten /\ t \notin older
    BY <2>1
  <2>5. CASE t = s
    <3>1. emits[s] = 0 /\ s \notin enriching /\ s \in emitted'
      BY <2>1, <2>3, <2>4, <2>5 DEF SeenInv, SeenOnce
    <3>2. emits' \in [Signatures -> Nat] /\ emits'[s] = IF enrich THEN 0 ELSE 1
      BY <2>2, <3>1 DEF SeenInv, EventTypes
    <3> QED
      BY <2>2, <2>5, <3>1, <3>2
  <2>6. CASE t # s
    <3>1. /\ t \in emitted' <=> t \in emitted
          /\ t \in enriching' <=> t \in enriching
          /\ emits'[t] = emits[t]
      BY <2>1, <2>2, <2>4, <2>6 DEF SeenInv, EventTypes
    <3> QED
      BY <2>4, <3>1 DEF SeenInv, SeenOnce
  <2> QED
    BY <2>5, <2>6
<1> QED
  BY <1>1, <1>2

LEMMA SeenByEmit ==
  ASSUME SeenInv, NEW s \in Signatures, s \in enriching, EmitEvent(s)
  PROVE  SeenOnce'
<1> SUFFICES ASSUME NEW t \in Signatures, t \notin forgotten
             PROVE  IF t \in emitted THEN IF t \in enriching' THEN emits'[t] = 0
                                                              ELSE emits'[t] <= 1
                                     ELSE emits'[t] = 0 /\ t \notin enriching'
  BY DEF SeenOnce, EmitEvent
<1>1. CASE t = s
  <2>1. t \in emitted /\ emits[s] = 0
    BY <1>1 DEF SeenInv, SeenOnce
  <2>2. emits'[s] = 1 /\ s \notin enriching'
    BY <2>1 DEF EmitEvent, SeenInv, EventTypes
  <2> QED
    BY <1>1, <2>1, <2>2
<1>2. CASE t # s
  BY <1>2 DEF EmitEvent, SeenInv, SeenOnce, EventTypes
<1> QED
  BY <1>1, <1>2

LEMMA SeenStep == StreamTypeInv /\ SeenOnce /\ [IngestionNext]_ingestionVars => SeenOnce'
<1> SUFFICES ASSUME SeenInv, [IngestionNext]_ingestionVars PROVE SeenOnce'
  BY DEF SeenInv, StreamTypeInv, IngestionTypeOK, EventTypes
<1>1. ASSUME UNCHANGED <<enriching, emitted, emits, forgotten>> PROVE SeenOnce'
  BY <1>1 DEF SeenInv, SeenOnce
<1>2. ASSUME NEW w \in Wallets,
             WatchWallet(w) \/ UnwatchWallet(w) \/ Subscribed(w) \/ SubscriptionRefused(w)
      PROVE  SeenOnce'
  BY <1>1, <1>2 DEF WatchWallet, UnwatchWallet, Subscribed, SubscriptionRefused, eventVars
<1>3. CASE OpenWS \/ OpenThrows \/ Opened \/ Closed
  BY <1>1, <1>3 DEF OpenWS, OpenThrows, Opened, Closed, eventVars
<1>4. ASSUME NEW s \in Signatures, NEW via \in Wallets \cup {Program},
             NoteNotification(s, via) \/ NoteAnother(s, via)
      PROVE  SeenOnce'
  BY <1>1, <1>4 DEF NoteNotification, NoteAnother
<1>5. ASSUME NEW s \in Signatures, Process(s) PROVE SeenOnce'
  BY <1>5, SeenByProcess
<1>6. ASSUME NEW s \in Signatures, Enriched(s) \/ EnrichFails(s) PROVE SeenOnce'
  BY <1>6, SeenByEmit DEF Enriched, EnrichFails
<1>7. CASE TrimDedup
  BY <1>7 DEF TrimDedup, SeenInv, SeenOnce
<1>8. CASE StartTrade \/ TradeFails \/ TradeConfirmed
  BY <1>1, <1>8 DEF StartTrade, TradeFails, TradeConfirmed, eventVars
<1>9. CASE Age /\ UNCHANGED <<streamVars, subVars, eventVars, trading, ledBy>>
  BY <1>1, <1>9 DEF eventVars
<1>10. CASE UNCHANGED ingestionVars
  BY <1>1, <1>10 DEF ingestionVars, eventVars
<1> QED
  BY <1>2, <1>3, <1>4, <1>5, <1>6, <1>7, <1>8, <1>9, <1>10 DEF IngestionNext

\* One transaction is one event, however many subscriptions and sockets tell of
\* it and whatever becomes of the call for its parsed form, until it is trimmed
\* from the set of those emitted (handleMessage, processNotification).
THEOREM OneEvent == IngestionSpec => []EmittedOnce
<1>1. IngestionInit => SeenOnce
  BY DEF IngestionInit, SeenOnce
<1>2. StreamTypeInv /\ SeenOnce => EmittedOnce
  <2> SUFFICES ASSUME SeenOnce, NEW s \in Signatures \ forgotten PROVE emits[s] <= 1
    BY DEF EmittedOnce
  <2>1. emits[s] = 0 \/ emits[s] <= 1
    BY DEF SeenOnce
  <2> QED
    BY <2>1
<1> QED
  BY <1>1, <1>2, StreamTypeInit, StreamTypeStep, SeenStep, PTL DEF IngestionSpec

-----------------------------------------------------------------------------
(* The provider of the socket                                              *)

\* From its opening until it is closing: the socket's provider is the active one,
\* or it is known who led the manager away from it.
OnActive ==
  socket \in {"connecting", "open"} /\ socketOf # activeIndex
    => ledBy \in {"trade", "stream, not open"}

LEMMA OnActiveStep == StreamTypeInv /\ OnActive /\ [IngestionNext]_ingestionVars => OnActive'
<1> SUFFICES ASSUME StreamTypeInv, OnActive, [IngestionNext]_ingestionVars PROVE OnActive'
  OBVIOUS
<1>1. ASSUME UNCHANGED <<socket, socketOf, activeIndex, ledBy>> PROVE OnActive'
  BY <1>1 DEF OnActive
<1>2. ASSUME NEW w \in Wallets,
             WatchWallet(w) \/ UnwatchWallet(w) \/ Subscribed(w) \/ SubscriptionRefused(w)
      PROVE  OnActive'
  BY <1>1, <1>2 DEF WatchWallet, UnwatchWallet, Subscribed, SubscriptionRefused, rpcVars,
                    streamVars
<1>3. CASE OpenWS
  BY <1>3 DEF OpenWS, OnActive, rpcVars
<1>4. CASE OpenThrows \/ Closed
  BY <1>4 DEF OpenThrows, Closed, OnActive
<1>5. CASE Opened
  BY <1>5 DEF Opened, OnActive, rpcVars
<1>6. ASSUME NEW s \in Signatures, NEW via \in Wallets \cup {Program},
             NoteNotification(s, via) \/ NoteAnother(s, via)
      PROVE  OnActive'
  BY <1>1, <1>6 DEF NoteNotification, NoteAnother, rpcVars, streamVars
<1>7. ASSUME NEW s \in Signatures, Process(s) \/ Enriched(s) PROVE OnActive'
  BY <1>1, <1>7 DEF Process, Enriched, MarkSuccess, rpcVars, streamVars
<1>8. ASSUME NEW s \in Signatures, EnrichFails(s) PROVE OnActive'
  <2>1. activeIndex' # activeIndex => socketOf = activeIndex
    BY <1>8 DEF EnrichFails, MarkFailure, ShouldFailover
  <2>2. CASE activeIndex' = activeIndex
    BY <1>8, <2>2 DEF EnrichFails, OnActive
  <2>3. CASE activeIndex' # activeIndex /\ socket = "open"
    BY <1>8, <2>1, <2>3 DEF EnrichFails, Switched, OnActive
  <2>4. CASE activeIndex' # activeIndex /\ socket # "open"
    BY <1>8, <2>4 DEF EnrichFails, OnActive
  <2> QED
    BY <2>2, <2>3, <2>4
<1>9. CASE TrimDedup
  BY <1>1, <1>9 DEF TrimDedup, rpcVars, streamVars
<1>10. CASE StartTrade
  BY <1>1, <1>10 DEF StartTrade, rpcVars, streamVars
<1>11. CASE TradeFails
  BY <1>11 DEF TradeFails, OnActive, streamVars
<1>12. CASE TradeConfirmed
  BY <1>1, <1>12 DEF TradeConfirmed, MarkSuccess, streamVars
<1>13. CASE Age /\ UNCHANGED <<streamVars, subVars, eventVars, trading, ledBy>>
  BY <1>1, <1>13 DEF Age, streamVars
<1>14. CASE UNCHANGED ingestionVars
  BY <1>1, <1>14 DEF ingestionVars, rpcVars, streamVars
<1> QED
  BY <1>2, <1>3, <1>4, <1>5, <1>6, <1>7, <1>8, <1>9, <1>10, <1>11, <1>12, <1>13, <1>14
     DEF IngestionNext

\* For any number of providers an open socket is on the active one, unless a
\* trade, or a call that failed while the socket was being connected, has led
\* the manager on since (handleFailure, openWS, markProviderFailure).
THEOREM SocketOnActive == IngestionSpec => []SocketFollows
<1>1. IngestionInit => OnActive
  BY DEF IngestionInit, OnActive
<1>2. OnActive => SocketFollows
  BY DEF OnActive, SocketFollows
<1> QED
  BY <1>1, <1>2, StreamTypeInit, StreamTypeStep, OnActiveStep, PTL DEF IngestionSpec

-----------------------------------------------------------------------------
(* Subscriptions: a wallet whose requests were all answered before it was  *)
(* given up has exactly one, and unwatchWallet knows its number; a watched *)
(* one that was not refused has some, or will.                             *)

OneSubscription(w) ==
  IF w \in watched
  THEN asked[w] + subs[w] <= 1 /\ (subs[w] = 1 => w \in linked)
  ELSE asked[w] = 0 /\ subs[w] = 0

SubsAccounted ==
  socket = "open" => \A w \in Wallets :
    /\ w \in watched \ refused => asked[w] + subs[w] > 0
    /\ w \notin overtaken => OneSubscription(w)

\* What is done about one wallet's subscription.
LEMMA SubscriptionStep ==
  ASSUME SubTypes, SubsAccounted, NEW v \in Wallets,
         WatchWallet(v) \/ UnwatchWallet(v) \/ Subscribed(v) \/ SubscriptionRefused(v)
  PROVE  SubsAccounted'
<1> SUFFICES ASSUME socket' = "open", NEW w \in Wallets
             PROVE  /\ w \in watched' \ refused' => asked'[w] + subs'[w] > 0
                    /\ w \notin overtaken' => OneSubscription(w)'
  BY DEF SubsAccounted
<1>1. socket = "open"
  BY DEF WatchWallet, UnwatchWallet, Subscribed, SubscriptionRefused, streamVars
<1>2. /\ asked[w] \in Nat /\ subs[w] \in Nat /\ (w \in linked => subs[w] > 0)
      /\ w \in watched \ refused => asked[w] + subs[w] > 0
      /\ w \notin overtaken => OneSubscription(w)
  BY <1>1, IngestionAssumption DEF SubTypes, LinkedLeads, SubsAccounted
<1> USE DEF SubTypes, OneSubscription
<1>3. CASE WatchWallet(v)
  BY <1>1, <1>2, <1>3 DEF WatchWallet
<1>4. CASE UnwatchWallet(v)
  BY <1>1, <1>2, <1>4 DEF UnwatchWallet
<1>5. CASE Subscribed(v)
  BY <1>1, <1>2, <1>5 DEF Subscribed
<1>6. CASE SubscriptionRefused(v)
  BY <1>1, <1>2, <1>6 DEF SubscriptionRefused
<1> QED
  BY <1>3, <1>4, <1>5, <1>6

\* A new socket asks for every wallet once; nothing else counts while it is not
\* open.
LEMMA SubsAccountedStep ==
  StreamTypeInv /\ SubsAccounted /\ [IngestionNext]_ingestionVars => SubsAccounted'
<1> SUFFICES ASSUME SubTypes, SubsAccounted, [IngestionNext]_ingestionVars
             PROVE  SubsAccounted'
  BY DEF StreamTypeInv, IngestionTypeOK, SubTypes
<1>1. CASE Opened
  BY <1>1 DEF Opened, AskedAnew, SubsAccounted, OneSubscription
<1>2. CASE OpenWS \/ OpenThrows \/ Closed
  BY <1>2 DEF OpenWS, OpenThrows, Closed, SubsAccounted
<1>3. ASSUME UNCHANGED subVars, socket' = socket \/ socket' # "open"
      PROVE  SubsAccounted'
  BY <1>3 DEF subVars, SubsAccounted, OneSubscription
<1>4. ASSUME NEW s \in Signatures, EnrichFails(s)
      PROVE  SubsAccounted'
  BY <1>3, <1>4 DEF EnrichFails
<1>5. ASSUME NEW s \in Signatures,
             \/ Process(s) \/ Enriched(s)
             \/ \E via \in Wallets \cup {Program} :
                  NoteNotification(s, via) \/ NoteAnother(s, via)
      PROVE  SubsAccounted'
  BY <1>3, <1>5 DEF Process, Enriched, NoteNotification, NoteAnother, streamVars
<1>6. CASE TrimDedup \/ StartTrade \/ TradeFails \/ TradeConfirmed
           \/ (Age /\ UNCHANGED <<streamVars, subVars, eventVars, trading, ledBy>>)
           \/ UNCHANGED ingestionVars
  BY <1>3, <1>6 DEF TrimDedup, StartTrade, TradeFails, TradeConfirmed, streamVars, ingestionVars
<1> QED
  BY <1>1, <1>2, <1>4, <1>5, <1>6, SubscriptionStep DEF IngestionNext

\* On an open socket with every answer in, what leads somewhere is what is
\* watched, for any number of wallets and across reconnects (openWS,
\* watchWallet, unwatchWallet).
THEOREM SubscriptionsFollowWatch == IngestionSpec => []SubscribedAsWatched
<1>1. IngestionInit => SubsAccounted
  BY DEF IngestionInit, SubsAccounted
<1>2. IngestionSpec => [](StreamTypeInv /\ SubsAccounted)
  BY <1>1, StreamTypeInit, StreamTypeStep, SubsAccountedStep, PTL DEF IngestionSpec
<1>3. StreamTypeInv /\ SubsAccounted => SubscribedAsWatched
  <2> SUFFICES ASSUME SubTypes, SubsAccounted
               PROVE  SubscribedAsWatched
    BY DEF StreamTypeInv, IngestionTypeOK, SubTypes
  <2>1. \A w \in Wallets : asked[w] \in Nat /\ subs[w] \in Nat
    BY IngestionAssumption DEF SubTypes
  <2> QED
    BY <2>1 DEF SubsAccounted, OneSubscription, SubscribedAsWatched
<1> QED
  BY <1>2, <1>3, PTL

-----------------------------------------------------------------------------
(* EventQueue                                                              *)
(*                                                                         *)
(* The point of the invariant is that drain never has more than one handler*)
(* to start: a push finds the queue empty or every slot busy, and the end of*)
(* a handler frees one slot.                                               *)

\* A drain that finds no room, or nothing to start, changes nothing.
LEMMA DrainNone ==
  ASSUME NEW q \in Seq(Events), NEW a \in Int, NEW r, started \in Seq(Events),
         Room(q, a) = 0, Drain(q, a, r)
  PROVE  queue' = q /\ active' = a /\ running' = r /\ started' = started
<1>1. queue' = SubSeq(q, 1, Len(q)) /\ started' = started \o SubSeq(q, 1, 0)
  BY DEF Drain
<1>2. SubSeq(q, 1, Len(q)) = q
  BY SubSeqFull
<1>3. SubSeq(q, 1, 0) = <<>>
  BY SubSeqEmpty
<1>4. started \o <<>> = started
  BY ConcatEmptySeq
<1>5. running' = r
  BY DEF Drain
<1>6. QED
  BY <1>1, <1>2, <1>3, <1>4, <1>5 DEF Drain

\* A drain that starts one handler starts the oldest waiting event's.
LEMMA DrainOne ==
  ASSUME NEW q \in Seq(Events), q # <<>>, NEW a \in Int, NEW r, started \in Seq(Events),
         Room(q, a) = 1, Drain(q, a, r)
  PROVE  /\ queue' = Tail(q) /\ active' = a + 1
         /\ running' = r \cup {q[1]} /\ started' = Append(started, q[1])
<1>1. queue' = SubSeq(q, 2, Len(q)) /\ started' = started \o SubSeq(q, 1, 1)
  BY DEF Drain
<1>2. Len(q) \in Nat \ {0} /\ q[1] \in Events
  BY LenProperties, EmptySeq
<1>3. SubSeq(q, 2, Len(q)) = Tail(q)
  BY TailIsSubSeq
<1>4. SubSeq(q, 1, 1) = <<q[1]>>
  <2>1. /\ SubSeq(q, 1, 1) \in Seq(Events) /\ Len(SubSeq(q, 1, 1)) = 1
        /\ SubSeq(q, 1, 1)[1] = q[1]
    BY <1>2, SubSeqProperties
  <2>2. <<q[1]>> \in Seq(Events) /\ Len(<<q[1]>>) = 1 /\ <<q[1]>>[1] = q[1]
    BY <1>2
  <2>3. \A i \in 1..Len(SubSeq(q, 1, 1)) : SubSeq(q, 1, 1)[i] = <<q[1]>>[i]
    BY <2>1, <2>2
  <2>4. QED
    BY <2>1, <2>2, <2>3, SeqEqual
<1>5. started \o <<q[1]>> = Append(started, q[1])
  BY <1>2, AppendIsConcat
<1>6. running' = r \cup {q[1]} /\ active' = a + 1
  BY DEF Drain
<1>7. QED
  BY <1>1, <1>3, <1>4, <1>5, <1>6

\* The empty queue satisfies the invariant.
LEMMA QueueInitInv == QueueInit => QueueInv
BY QueueAssumption, FS_EmptySet DEF QueueInit, QueueInv, QueueTypeOK, Bounded,
   WorkConserving, StartedInOrder, ActiveIsInFlight, EventsOnce

\* The oldest waiting event's handler is not in flight.
LEMMA WaitingNotRunning ==
  ASSUME QueueInv, queue # <<>>
  PROVE  queue[1] \notin running /\ queue[1] = accepted[Len(started) + 1]
<1>1. Len(queue) \in Nat \ {0} /\ Len(started) \in Nat
  BY DEF QueueInv, QueueTypeOK
<1>2. /\ Len(accepted) = Len(started) + Len(queue)
      /\ \A i \in 1..Len(started) : accepted[i] = started[i]
      /\ accepted[Len(started) + 1] = queue[1]
  BY <1>1, ConcatProperties DEF QueueInv, QueueTypeOK, StartedInOrder
<1>3. QED
  BY <1>1, <1>2 DEF QueueInv, EventsOnce

-----------------------------------------------------------------------------
(* The steps                                                               *)

\* An event that arrives is new, and arrives last.
LEMMA EmitStep ==
  ASSUME QueueInv, NEW e \in Events, Emit(e)
  PROVE  QueueInv'
<1>1. arriving' \in Seq(Events) /\ Len(arriving') = Len(arriving) + 1
  BY AppendProperties DEF Emit, QueueInv, QueueTypeOK
<1>2. /\ \A i \in 1..Len(arriving) : arriving'[i] = arriving[i]
      /\ arriving'[Len(arriving) + 1] = e
  BY AppendProperties DEF Emit, QueueInv, QueueTypeOK
<1>3. /\ \A i \in 1..Len(arriving) : arriving[i] # e
      /\ \A i \in 1..Len(accepted) : accepted[i] # e
  BY DEF Emit, Seen
<1>4. Len(arriving) \in Nat
  BY DEF QueueInv, QueueTypeOK
<1>5. EventsOnce'
  BY <1>1, <1>2, <1>3, <1>4 DEF Emit, QueueInv, EventsOnce
<1>6. QED
  BY <1>1, <1>5 DEF Emit, QueueInv, QueueTypeOK, Bounded, WorkConserving,
     StartedInOrder, ActiveIsInFlight

\* A refused event leaves the queue alone.
LEMMA DropStep ==
  ASSUME QueueInv, Push, Full
  PROVE  QueueInv'
<1>1. /\ arriving # <<>> /\ arriving' = Tail(arriving)
      /\ dropped' = dropped \cup {Head(arriving)}
      /\ UNCHANGED <<accepted, queue, active, running, started, mode>>
  BY DEF Push
<1>2. /\ Head(arriving) \in Events /\ arriving' \in Seq(Events)
      /\ Len(arriving') = Len(arriving) - 1
      /\ \A i \in 1..Len(arriving') : arriving'[i] = arriving[i + 1]
  BY <1>1, HeadTailProperties DEF QueueInv, QueueTypeOK
<1>3. Len(arriving) \in Nat
  BY DEF QueueInv, QueueTypeOK
<1>4. EventsOnce'
  BY <1>1, <1>2, <1>3 DEF QueueInv, EventsOnce
<1>5. QED
  BY <1>1, <1>2, <1>4 DEF QueueInv, QueueTypeOK, Bounded, WorkConserving,
     StartedInOrder, ActiveIsInFlight

\* An accepted event either starts at once, because nobody waits, or waits
\* behind others while every slot is busy.
LEMMA AcceptStep ==
  ASSUME QueueInv, Push, ~Full
  PROVE  QueueInv'
<1> DEFINE e == Head(arriving)
           q == Append(queue, e)
<1>1. /\ arriving # <<>> /\ arriving' = Tail(arriving)
      /\ accepted' = Append(accepted, e)
      /\ Drain(q, active, running)
      /\ UNCHANGED <<dropped, mode>>
  BY DEF Push
<1>2. /\ e \in Events /\ e = arriving[1] /\ arriving' \in Seq(Events)
      /\ Len(arriving') = Len(arriving) - 1
      /\ \A i \in 1..Len(arriving') : arriving'[i] = arriving[i + 1]
  BY <1>1, HeadTailProperties DEF QueueInv, QueueTypeOK
<1>3. /\ Len(arriving) \in Nat \ {0} /\ Len(accepted) \in Nat /\ Len(queue) \in Nat
      /\ Len(started) \in Nat /\ active \in Nat /\ active <= Concurrency
      /\ MaxSize \in Nat /\ Concurrency \in Nat \ {0}
  BY <1>1, EmptySeq, QueueAssumption DEF QueueInv, QueueTypeOK, Bounded
<1>4. /\ q \in Seq(Events) /\ Len(q) = Len(queue) + 1 /\ q # <<>>
      /\ \A i \in 1..Len(queue) : q[i] = queue[i]
      /\ q[Len(queue) + 1] = e
  BY <1>2, <1>3, AppendProperties DEF QueueInv, QueueTypeOK
<1>5. /\ accepted' \in Seq(Events) /\ Len(accepted') = Len(accepted) + 1
      /\ \A i \in 1..Len(accepted) : accepted'[i] = accepted[i]
      /\ accepted'[Len(accepted) + 1] = e
  BY <1>1, <1>2, AppendProperties DEF QueueInv, QueueTypeOK
<1>6. Len(queue) < MaxSize
  BY <1>3 DEF Full
<1>7. accepted' = started \o q
  <2>1. accepted' = (started \o queue) \o <<e>>
    BY <1>1, <1>2, AppendIsConcat DEF QueueInv, QueueTypeOK, StartedInOrder
  <2>2. q = queue \o <<e>>
    BY <1>2, AppendIsConcat DEF QueueInv, QueueTypeOK
  <2>3. /\ <<e>> \in Seq(Events) /\ started \in Seq(Events) /\ queue \in Seq(Events)
    BY <1>2 DEF QueueInv, QueueTypeOK
  <2>4. (started \o queue) \o <<e>> = started \o (queue \o <<e>>)
    BY <2>3, ConcatAssociative
  <2>5. QED
    BY <2>1, <2>2, <2>4
<1>8. /\ \A i, j \in 1..Len(arriving') : arriving'[i] = arriving'[j] => i = j
      /\ \A i, j \in 1..Len(accepted') : accepted'[i] = accepted'[j] => i = j
      /\ \A i \in 1..Len(arriving'), j \in 1..Len(accepted') : arriving'[i] # accepted'[j]
  <2>1. \A i \in 1..Len(arriving') : i + 1 \in 1..Len(arriving) /\ i + 1 # 1
    BY <1>2, <1>3
  <2>2. \A i \in 1..Len(accepted) : accepted[i] # e
    BY <1>2, <1>3 DEF QueueInv, EventsOnce
  <2>3. \A i \in 1..Len(arriving') : arriving'[i] # e
    BY <1>2, <1>3, <2>1 DEF QueueInv, EventsOnce
  <2> HIDE DEF e, q
  <2>4. \A i, j \in 1..Len(arriving') : arriving'[i] = arriving'[j] => i = j
    <3> SUFFICES ASSUME NEW i \in 1..Len(arriving'), NEW j \in 1..Len(arriving'),
                        arriving'[i] = arriving'[j]
                 PROVE  i = j
      OBVIOUS
    <3>1. i + 1 = j + 1
      BY <1>2, <2>1 DEF QueueInv, EventsOnce
    <3>2. QED
      BY <1>2, <1>3, <3>1
  <2>5. \A i, j \in 1..Len(accepted') : accepted'[i] = accepted'[j] => i = j
    BY <1>3, <1>5, <2>2 DEF QueueInv, EventsOnce
  <2>6. \A i \in 1..Len(arriving'), j \in 1..Len(accepted') : arriving'[i] # accepted'[j]
    BY <1>2, <1>3, <1>5, <2>1, <2>3 DEF QueueInv, EventsOnce
  <2>7. QED
    BY <2>4, <2>5, <2>6
<1>9. \A f \in running : f # e
  <2>1. \A i \in 1..Len(started) : accepted[i] = started[i] /\ i \in 1..Len(accepted)
    BY <1>3, ConcatProperties DEF QueueInv, QueueTypeOK, StartedInOrder
  <2>2. QED
    BY <1>2, <1>3, <2>1 DEF QueueInv, EventsOnce
<1> HIDE DEF e, q
<1>10. CASE active = Concurrency
  <2>1. Room(q, active) = 0
    BY <1>3, <1>4, <1>10 DEF Room
  <2>2. queue' = q /\ active' = active /\ running' = running /\ started' = started
    BY <1>1, <1>3, <1>4, <2>1, DrainNone DEF QueueInv, QueueTypeOK
  <2>3. QueueTypeOK' /\ Bounded' /\ WorkConserving'
    BY <1>1, <1>2, <1>3, <1>4, <1>5, <1>6, <1>10, <2>2
       DEF QueueInv, QueueTypeOK, Bounded, WorkConserving
  <2>4. StartedInOrder' /\ ActiveIsInFlight'
    BY <1>7, <2>2 DEF QueueInv, StartedInOrder, ActiveIsInFlight
  <2>5. EventsOnce'
    BY <1>8, <2>2 DEF QueueInv, EventsOnce
  <2>6. QED
    BY <2>3, <2>4, <2>5 DEF QueueInv
<1>11. CASE active # Concurrency
  <2>1. queue = <<>> /\ Len(queue) = 0
    BY <1>11 DEF QueueInv, WorkConserving
  <2>2. Room(q, active) = 1 /\ q[1] = e
    BY <1>3, <1>4, <1>11, <2>1 DEF Room
  <2>3. /\ queue' = Tail(q) /\ active' = active + 1
        /\ running' = running \cup {e} /\ started' = Append(started, e)
    BY <1>1, <1>3, <1>4, <2>2, DrainOne DEF QueueInv, QueueTypeOK
  <2>4. queue' \in Seq(Events) /\ Len(queue') = 0
    BY <1>4, <2>1, <2>3, HeadTailProperties
  <2>5. queue' = <<>>
    BY <2>4, EmptySeq
  <2>6. /\ started' \in Seq(Events) /\ Len(started') = Len(started) + 1
        /\ \A i \in 1..Len(started) : started'[i] = started[i]
        /\ started'[Len(started) + 1] = e
    BY <1>2, <2>3, AppendProperties DEF QueueInv, QueueTypeOK
  <2>7. accepted' = started' \o queue'
    <3>1. accepted = started
      BY <2>1, ConcatEmptySeq DEF QueueInv, QueueTypeOK, StartedInOrder
    <3>2. started' \o queue' = started'
      BY <2>5, <2>6, ConcatEmptySeq
    <3>3. QED
      BY <1>1, <2>3, <3>1, <3>2
  <2>8. IsFiniteSet(running') /\ active' = Cardinality(running')
    BY <1>9, <2>3, FS_AddElement DEF QueueInv, ActiveIsInFlight
  <2>9. \A f \in running' : \E i \in 1..Len(started') : started'[i] = f
    BY <1>3, <2>3, <2>6 DEF QueueInv, EventsOnce
  <2>10. QueueTypeOK'
    BY <1>1, <1>2, <1>3, <1>5, <2>3, <2>4, <2>6 DEF QueueInv, QueueTypeOK
  <2>11. Bounded' /\ WorkConserving'
    BY <1>3, <1>11, <2>3, <2>4, <2>5 DEF Bounded, WorkConserving
  <2>12. StartedInOrder' /\ ActiveIsInFlight'
    BY <2>7, <2>8 DEF StartedInOrder, ActiveIsInFlight
  <2>13. EventsOnce'
    BY <1>8, <2>9 DEF EventsOnce
  <2>14. QED
    BY <2>10, <2>11, <2>12, <2>13 DEF QueueInv
<1>12. QED
  BY <1>10, <1>11

\* A handler that settles frees one slot, which the oldest waiting event takes.
LEMMA FinishStep ==
  ASSUME QueueInv, NEW e \in Events, Finish(e)
  PROVE  QueueInv'
<1> DEFINE r == running \ {e}
<1>1. e \in running /\ Drain(queue, active - 1, r) /\ UNCHANGED <<inputVars, mode>>
  BY DEF Finish
<1>2. /\ Len(queue) \in Nat /\ Len(started) \in Nat /\ queue \in Seq(Events)
      /\ started \in Seq(Events) /\ active \in Nat /\ active <= Concurrency
      /\ Concurrency \in Nat \ {0}
  BY QueueAssumption DEF QueueInv, QueueTypeOK, Bounded
<1>3. IsFiniteSet(r) /\ Cardinality(r) = active - 1 /\ active - 1 \in Nat
  <2>1. IsFiniteSet(r) /\ Cardinality(r) = active - 1
    BY <1>1, FS_RemoveElement DEF QueueInv, ActiveIsInFlight
  <2>2. QED
    BY <2>1, FS_CardinalityType
<1>4. r \subseteq running /\ running \subseteq Events
  BY DEF QueueInv, QueueTypeOK
<1> HIDE DEF r
<1>5. CASE queue = <<>>
  <2>1. Room(queue, active - 1) = 0
    BY <1>2, <1>3, <1>5, EmptySeq DEF Room
  <2>2. queue' = queue /\ active' = active - 1 /\ running' = r /\ started' = started
    <3>1. Drain(queue, active - 1, r) /\ active - 1 \in Int
      BY <1>1, <1>3
    <3>2. QED
      BY <1>2, <2>1, <3>1, DrainNone
  <2>3. QueueTypeOK' /\ EventsOnce'
    BY <1>1, <1>3, <1>4, <2>2 DEF QueueInv, QueueTypeOK, EventsOnce, inputVars
  <2>4. Bounded' /\ WorkConserving' /\ ActiveIsInFlight'
    BY <1>2, <1>3, <1>5, <2>2 DEF QueueInv, Bounded, WorkConserving, ActiveIsInFlight
  <2>5. StartedInOrder'
    BY <1>1, <1>4, <2>2 DEF QueueInv, StartedInOrder, inputVars
  <2>6. QED
    BY <2>3, <2>4, <2>5 DEF QueueInv
<1>6. CASE queue # <<>>
  <2>1. active = Concurrency /\ Len(queue) >= 1
    BY <1>2, <1>6, EmptySeq DEF QueueInv, WorkConserving
  <2>2. Room(queue, active - 1) = 1
    BY <1>2, <2>1 DEF Room
  <2>3. /\ queue' = Tail(queue) /\ active' = active
        /\ running' = r \cup {queue[1]} /\ started' = Append(started, queue[1])
    BY <1>1, <1>2, <1>3, <1>6, <2>2, DrainOne
  <2>4. /\ queue' \in Seq(Events) /\ Len(queue') = Len(queue) - 1
        /\ queue[1] \in Events /\ Head(queue) = queue[1]
    BY <1>2, <1>6, <2>1, <2>3, HeadTailProperties
  <2>5. /\ started' \in Seq(Events) /\ Len(started') = Len(started) + 1
        /\ \A i \in 1..Len(started) : started'[i] = started[i]
        /\ started'[Len(started) + 1] = queue[1]
    BY <1>2, <2>3, <2>4, AppendProperties
  <2>6. started' \o queue' = started \o queue
    <3>1. started' = started \o <<queue[1]>>
      BY <1>2, <2>3, <2>4, AppendIsConcat
    <3>2. queue = <<queue[1]>> \o queue'
      <4>1. SubSeq(queue, 1, Len(queue)) = <<queue[1]>> \o SubSeq(queue, 2, Len(queue))
        BY <1>2, <2>1, SubSeqRecursiveFirst
      <4>2. SubSeq(queue, 1, Len(queue)) = queue /\ SubSeq(queue, 2, Len(queue)) = queue'
        BY <1>2, <1>6, <2>3, SubSeqFull, TailIsSubSeq
      <4>3. QED
        BY <4>1, <4>2
    <3>3. (started \o <<queue[1]>>) \o queue' = started \o (<<queue[1]>> \o queue')
      BY <1>2, <2>4, ConcatAssociative
    <3>4. QED
      BY <3>1, <3>2, <3>3
  <2>7. queue[1] \notin r
    BY <1>4, <1>6, WaitingNotRunning
  <2>8. IsFiniteSet(running') /\ active' = Cardinality(running')
    <3>1. /\ IsFiniteSet(r \cup {queue[1]})
          /\ Cardinality(r \cup {queue[1]}) = Cardinality(r) + 1
      BY <1>3, <2>7, FS_AddElement
    <3>2. (active - 1) + 1 = active
      BY <1>2
    <3>3. QED
      BY <1>3, <2>3, <3>1, <3>2
  <2>9. \A f \in running' : \E i \in 1..Len(started') : started'[i] = f
    BY <1>2, <1>4, <2>3, <2>5 DEF QueueInv, EventsOnce
  <2>10. QueueTypeOK'
    BY <1>1, <1>2, <1>4, <2>3, <2>4, <2>5 DEF QueueInv, QueueTypeOK, inputVars
  <2>11. Bounded' /\ WorkConserving'
    BY <1>2, <2>1, <2>3, <2>4, QueueAssumption DEF QueueInv, Bounded, WorkConserving
  <2>12. StartedInOrder'
    BY <1>1, <2>6 DEF QueueInv, StartedInOrder, inputVars
  <2>13. ActiveIsInFlight'
    BY <2>8 DEF ActiveIsInFlight
  <2>14. EventsOnce'
    BY <1>1, <2>9 DEF QueueInv, EventsOnce, inputVars
  <2>15. QED
    BY <2>10, <2>11, <2>12, <2>13, <2>14 DEF QueueInv
<1>7. QED
  BY <1>5, <1>6

\* Every step of the queue preserves the invariant.
LEMMA QueueStepInv == QueueInv /\ [QueueNext]_queueVars => QueueInv'
<1> SUFFICES ASSUME QueueInv, [QueueNext]_queueVars
             PROVE  QueueInv'
  OBVIOUS
<1>1. CASE Push
  BY <1>1, DropStep, AcceptStep
<1>2. CASE StartShutdown \/ ClosePool \/ Exit
  <2>1. /\ UNCHANGED <<arriving, dropped, accepted, queue, active, running, started>>
        /\ mode' \in {"draining", "closing", "exited"}
    BY <1>2 DEF StartShutdown, ClosePool, Exit, inputVars
  <2>2. QueueTypeOK'
    BY <2>1 DEF QueueInv, QueueTypeOK
  <2>3. Bounded' /\ WorkConserving' /\ StartedInOrder' /\ ActiveIsInFlight'
    BY <2>1 DEF QueueInv, Bounded, WorkConserving, StartedInOrder, ActiveIsInFlight
  <2>4. EventsOnce'
    BY <2>1 DEF QueueInv, EventsOnce
  <2>5. QED
    BY <2>2, <2>3, <2>4 DEF QueueInv
<1>3. CASE UNCHANGED queueVars
  BY <1>3 DEF queueVars, QueueInv, QueueTypeOK, Bounded, WorkConserving,
     StartedInOrder, ActiveIsInFlight, EventsOnce, inputVars
<1>4. QED
  BY <1>1, <1>2, <1>3, EmitStep, FinishStep DEF QueueNext

-----------------------------------------------------------------------------
(* Theorems                                                                *)

\* Whatever arrives and however handlers end, the queue stays within its
\* bounds, keeps every slot busy while anything waits, starts events in the
\* order of their pushes and counts its handlers right (in-memory-queue.ts:13-33).
THEOREM QueueInvariant == QueueSpec => []QueueInv
BY QueueInitInv, QueueStepInv, PTL DEF QueueSpec

\* An event is dropped only when the queue is full and every slot is busy
\* (in-memory-queue.ts:14, index.ts:485-487).
THEOREM DropsWhenFull == QueueSpec => DropsOnlyWhenFull
<1>1. QueueInv /\ [QueueNext]_queueVars =>
        (dropped' # dropped => Len(queue) = MaxSize /\ Cardinality(running) = Concurrency)
  <2> SUFFICES ASSUME QueueInv, [QueueNext]_queueVars, dropped' # dropped
               PROVE  Len(queue) = MaxSize /\ Cardinality(running) = Concurrency
    OBVIOUS
  <2>1. Push /\ Full
    BY DEF QueueNext, queueVars, inputVars, Emit, Push, Finish, StartShutdown, ClosePool, Exit
  <2>2. Len(queue) = MaxSize /\ queue # <<>>
    BY <2>1, QueueAssumption, EmptySeq DEF Full, QueueInv, QueueTypeOK, Bounded
  <2>3. QED
    BY <2>2 DEF QueueInv, WorkConserving, ActiveIsInFlight
<1>2. QED
  BY <1>1, QueueInvariant, PTL DEF QueueSpec, DropsOnlyWhenFull

-----------------------------------------------------------------------------
(* Realtime                                                                *)
(*                                                                         *)
(* Which sockets the server keeps, and what its counter of pending         *)
(* executions counts.                                                      *)

ServerTypes ==
  /\ server \in [Sockets -> {"none", "lookup", "registered"}]
  /\ serverOpen \in [Sockets -> BOOLEAN]

LEMMA OpenStep ==
  ServerTypes /\ RegisteredIsOpen /\ [RealtimeNext]_realtimeVars
    => ServerTypes' /\ RegisteredIsOpen'
<1> SUFFICES ASSUME ServerTypes, RegisteredIsOpen, [RealtimeNext]_realtimeVars
             PROVE  ServerTypes' /\ RegisteredIsOpen'
  OBVIOUS
<1> DEFINE Goal == ServerTypes' /\ RegisteredIsOpen'
<1> USE DEF ServerTypes, RegisteredIsOpen
<1>1. ASSUME UNCHANGED <<server, serverOpen, leaked>> PROVE Goal
  BY <1>1
<1>2. ASSUME NEW s \in Sockets, OpenSocket(s) \/ ClientCloses(s) \/ Deliver(s) \/ Break(s)
      PROVE  Goal
  BY <1>1, <1>2 DEF OpenSocket, ClientCloses, Deliver, Break, socketVars
<1>3. ASSUME NEW s \in Sockets, Connect(s) PROVE Goal
  BY <1>3 DEF Connect, HandleConnection
<1>4. ASSUME NEW s \in Sockets, Register(s) PROVE Goal
  BY <1>4 DEF Register
<1>5. ASSUME NEW s \in Sockets, LookupFails(s) PROVE Goal
  BY <1>5 DEF LookupFails
<1>6. ASSUME NEW s \in Sockets, ServerCloses(s) PROVE Goal
  BY <1>6 DEF ServerCloses, Left
<1>7. CASE NewSession
  BY <1>1, <1>7 DEF NewSession
<1>8. ASSUME NEW t \in Txs, \/ InsertRow(t) \/ Notify(t) \/ CountPending(t) \/ HandlerFails(t)
                           \/ SettleRow(t) \/ ReportOutcome(t) \/ LedgerFails(t)
      PROVE  Goal
  BY <1>1, <1>8 DEF InsertRow, Notify, CountPending, HandlerFails, SettleRow, ReportOutcome,
     LedgerFails, socketVars
<1>10. CASE Restart
  BY <1>10 DEF Restart
<1>9. CASE UNCHANGED realtimeVars
  BY <1>1, <1>9 DEF realtimeVars, socketVars
<1> QED
  BY <1>2, <1>3, <1>4, <1>5, <1>6, <1>7, <1>8, <1>9, <1>10 DEF RealtimeNext

\* A socket the server keeps for a user is open, or the server has not seen its
\* end yet, unless it closed during its lookup (handleConnection).
THEOREM OpenSockets == RealtimeSpec => []RegisteredIsOpen
<1>1. RealtimeInit => ServerTypes /\ RegisteredIsOpen
  BY DEF RealtimeInit, ServerTypes, RegisteredIsOpen
<1> QED
  BY <1>1, OpenStep, PTL DEF RealtimeSpec

-----------------------------------------------------------------------------
(* The counter                                                             *)

CountTypes ==
  /\ row \in [Txs -> {"none", "PENDING", "settled"}]
  /\ reports \in [Txs -> Seq({"TRADE_PENDING", "TRADE_OUTCOME"})]
  /\ handler \in [Txs -> {"none", "runs", "counted", "failed", "died"}]
  /\ reporting \in [Txs -> Nat]
  /\ pendingExecutions \in Nat /\ skewed \in BOOLEAN

\* Of a trade without a row nothing has been said, and nothing counted.
NothingBefore ==
  \A t \in Txs : row[t] = "none" => reports[t] = <<>> /\ handler[t] \in {"none", "runs"}

\* The checker reports what it has settled, once unless the counter is skewed,
\* and no handler runs for a manual trade.
InHand ==
  \A t \in Txs :
    /\ reporting[t] > 0 => row[t] = "settled"
    /\ t \in Manual => handler[t] \in {"none", "died"}
    /\ t \notin Manual /\ ~skewed => reporting[t] <= 1

\* Trades the counter was lowered for before it is raised for them.
Ahead == {t \in Txs : handler[t] = "runs" /\ LoweredBefore(t)}

\* The counter makes up for what was lowered too early.
Balanced == ~skewed => pendingExecutions + Cardinality(Ahead) = Cardinality(Owed)

CountInv == CountTypes /\ NothingBefore /\ InHand /\ Balanced

LEMMA SubsetsFinite == \A S \in SUBSET Txs : IsFiniteSet(S) /\ Cardinality(S) \in Nat
BY RealtimeAssumption, FS_Subset, FS_CardinalityType

LEMMA CountedFinite ==
  /\ IsFiniteSet(Ahead) /\ Cardinality(Ahead) \in Nat
  /\ IsFiniteSet(Owed) /\ Cardinality(Owed) \in Nat
BY SubsetsFinite DEF Ahead, Owed

\* A message about a trade with a row.
LEMMA ReportTypes ==
  ASSUME CountTypes, NothingBefore, NEW t \in Txs, row[t] # "none",
         NEW type \in {"TRADE_PENDING", "TRADE_OUTCOME"},
         SendToUser([type |-> type, tx |-> t])
  PROVE  /\ reports' \in [Txs -> Seq({"TRADE_PENDING", "TRADE_OUTCOME"})]
         /\ \A u \in Txs : row[u] = "none" => reports'[u] = <<>>
<1>1. reports' = [reports EXCEPT ![t] = Append(reports[t], type)]
  BY DEF SendToUser
<1>2. Append(reports[t], type) \in Seq({"TRADE_PENDING", "TRADE_OUTCOME"})
  BY AppendProperties DEF CountTypes
<1> QED
  BY <1>1, <1>2 DEF CountTypes, NothingBefore

\* A trade that is counted is owed, or it makes up for being lowered before.
LEMMA CountPendingKeeps == ASSUME CountInv, NEW t \in Txs, CountPending(t) PROVE CountInv'
<1>1. /\ handler[t] = "runs" /\ Told(t) /\ handler' = [handler EXCEPT ![t] = "counted"]
      /\ pendingExecutions' = pendingExecutions + 1
      /\ UNCHANGED <<row, reports, reporting, skewed>>
  BY DEF CountPending
<1>2. row[t] # "none"
  <2> SUFFICES ASSUME reports[t] = <<>> PROVE FALSE
    BY DEF CountInv, NothingBefore
  <2>1. 1 .. Len(reports[t]) = {}
    BY EmptySeq
  <2> QED
    BY <1>1, <2>1 DEF Told
<1>3. CountTypes' /\ NothingBefore' /\ InHand'
  BY <1>1, <1>2 DEF CountInv, CountTypes, NothingBefore, InHand
<1>4. CASE LoweredBefore(t)
  <2>1. t \in Ahead /\ Ahead' = Ahead \ {t} /\ Owed' = Owed
    BY <1>1, <1>4 DEF Ahead, Owed, LoweredBefore, CountInv, CountTypes
  <2>2. Cardinality(Ahead') = Cardinality(Ahead) - 1
    BY <2>1, CountedFinite, FS_RemoveElement
  <2>3. Balanced'
    BY <1>1, <2>1, <2>2, CountedFinite DEF CountInv, CountTypes, Balanced
  <2> QED
    BY <1>3, <2>3 DEF CountInv
<1>5. CASE ~LoweredBefore(t)
  <2>1. t \notin Owed /\ Owed' = Owed \cup {t} /\ Ahead' = Ahead
    BY <1>1, <1>2, <1>5 DEF Ahead, Owed, LoweredBefore, CountInv, CountTypes
  <2>2. Cardinality(Owed') = Cardinality(Owed) + 1
    BY <2>1, CountedFinite, FS_AddElement
  <2>3. Balanced'
    BY <1>1, <2>1, <2>2, CountedFinite DEF CountInv, CountTypes, Balanced
  <2> QED
    BY <1>3, <2>3 DEF CountInv
<1> QED
  BY <1>4, <1>5

LEMMA HandlerFailsKeeps == ASSUME CountInv, NEW t \in Txs, HandlerFails(t) PROVE CountInv'
<1>1. /\ handler[t] = "runs" /\ row[t] # "none"
      /\ handler' = [handler EXCEPT ![t] = "failed"]
      /\ skewed' = (skewed \/ LoweredBefore(t))
      /\ UNCHANGED <<row, reports, reporting, pendingExecutions>>
  BY DEF HandlerFails
<1>2. skewed' \in BOOLEAN /\ (~skewed' => ~skewed /\ ~LoweredBefore(t))
  BY <1>1, Zenon
<1>3. CountTypes' /\ NothingBefore' /\ InHand'
  BY <1>1, <1>2 DEF CountInv, CountTypes, NothingBefore, InHand
<1>4. ASSUME ~LoweredBefore(t) PROVE Ahead' = Ahead /\ Owed' = Owed
  BY <1>1, <1>4 DEF Ahead, Owed, LoweredBefore, CountInv, CountTypes
<1> QED
  BY <1>1, <1>2, <1>3, <1>4 DEF CountInv, Balanced

\* The row of a trade that is owed is settled: it is owed still.
LEMMA SettleRowKeeps == ASSUME CountInv, NEW t \in Txs, SettleRow(t) PROVE CountInv'
<1>1. /\ row[t] \in {"PENDING", "settled"} /\ row' = [row EXCEPT ![t] = "settled"]
      /\ reporting' = [reporting EXCEPT ![t] = reporting[t] + 1]
      /\ skewed' = (skewed \/ (row[t] = "settled" /\ t \notin Manual))
      /\ UNCHANGED <<reports, handler, pendingExecutions>>
  BY DEF SettleRow
<1>2. /\ skewed' \in BOOLEAN
      /\ ~skewed' => ~skewed /\ (row[t] = "PENDING" \/ t \in Manual)
  BY <1>1, Zenon
<1>3. CountTypes' /\ NothingBefore'
  BY <1>1, <1>2 DEF CountInv, CountTypes, NothingBefore
<1>4. InHand'
  BY <1>1, <1>2 DEF CountInv, CountTypes, InHand
<1>5. ASSUME ~skewed' PROVE Ahead' = Ahead /\ Owed' = Owed
  <2>1. handler[t] = "counted" => row[t] = "PENDING"
    BY <1>2, <1>5 DEF CountInv, InHand
  <2>2. reporting'[t] > 0 /\ row'[t] = "settled"
        /\ \A u \in Txs \ {t} : row'[u] = row[u] /\ reporting'[u] = reporting[u]
    BY <1>1 DEF CountInv, CountTypes
  <2>3. handler[t] = "runs" => row[t] = "PENDING"
    BY <1>2, <1>5 DEF CountInv, InHand
  <2>4. Owed' = Owed
    BY <1>1, <2>1, <2>2 DEF Owed
  <2>5. Ahead' = Ahead
    BY <1>1, <2>2, <2>3 DEF Ahead, LoweredBefore
  <2> QED
    BY <2>4, <2>5
<1> QED
  BY <1>1, <1>2, <1>3, <1>4, <1>5 DEF CountInv, Balanced

\* The outcome of a trade is reported: it is owed no longer, or the counter has
\* been lowered ahead of its handler.
LEMMA OutcomeKeeps == ASSUME CountInv, NEW t \in Txs, ReportOutcome(t) PROVE CountInv'
<1>1. /\ reporting[t] > 0 /\ reporting' = [reporting EXCEPT ![t] = reporting[t] - 1]
      /\ pendingExecutions' = IF t \notin Manual THEN Lowered(pendingExecutions)
                              ELSE pendingExecutions
      /\ skewed' = (skewed \/ Skews(t))
      /\ SendToUser([type |-> "TRADE_OUTCOME", tx |-> t])
      /\ UNCHANGED <<row, handler>>
  BY DEF ReportOutcome, Reported, Outcome, Lowers
<1>2. skewed' \in BOOLEAN /\ (~skewed' => ~skewed /\ ~Skews(t))
  BY <1>1, Zenon
<1>3. row[t] = "settled" /\ reporting[t] \in Nat
  BY <1>1 DEF CountInv, InHand, CountTypes
<1>4. CountTypes' /\ NothingBefore'
  <2>1. /\ reports' \in [Txs -> Seq({"TRADE_PENDING", "TRADE_OUTCOME"})]
        /\ \A u \in Txs : row[u] = "none" => reports'[u] = <<>>
    BY <1>1, <1>3, ReportTypes DEF CountInv
  <2>2. pendingExecutions' \in Nat
    BY <1>1 DEF CountInv, CountTypes, Lowered
  <2>3. reporting' \in [Txs -> Nat]
    BY <1>1, <1>3 DEF CountInv, CountTypes
  <2> QED
    BY <1>1, <1>2, <2>1, <2>2, <2>3 DEF CountInv, CountTypes, NothingBefore
<1>5. InHand'
  BY <1>1, <1>2, <1>3 DEF CountInv, CountTypes, InHand
<1>6. ASSUME ~skewed' PROVE pendingExecutions' + Cardinality(Ahead)' = Cardinality(Owed)'
  <2>1. pendingExecutions + Cardinality(Ahead) = Cardinality(Owed) /\ pendingExecutions \in Nat
    BY <1>2, <1>6 DEF CountInv, Balanced, CountTypes
  <2>2. t \notin Manual => reporting[t] = 1 /\ reporting'[t] = 0
    BY <1>1, <1>2, <1>3, <1>6 DEF CountInv, InHand, CountTypes
  <2>3. \A u \in Txs \ {t} : reporting'[u] = reporting[u]
    BY <1>1 DEF CountInv, CountTypes
  <2>4. CASE handler[t] \notin {"runs", "counted"}
    <3>1. Ahead' = Ahead /\ Owed' = Owed
      BY <1>1, <2>3, <2>4 DEF Ahead, Owed, LoweredBefore
    <3>2. t \notin Manual => ~(pendingExecutions > 0)
      BY <1>2, <1>6, <2>4 DEF Skews
    <3>3. pendingExecutions' = pendingExecutions
      BY <1>1, <2>1, <3>2 DEF Lowered
    <3> QED
      BY <2>1, <3>1, <3>3
  <2>5. CASE handler[t] \in {"runs", "counted"}
    <3>1. t \notin Manual
      BY <2>5 DEF CountInv, InHand
    <3>2. pendingExecutions' = pendingExecutions - 1
      BY <1>1, <1>2, <1>6, <2>1, <2>5, <3>1 DEF Skews, Lowered
    <3>3. CASE handler[t] = "runs"
      <4>1. t \notin Ahead /\ Ahead' = Ahead \cup {t} /\ Owed' = Owed
        BY <1>1, <1>3, <2>2, <2>3, <3>1, <3>3 DEF Ahead, Owed, LoweredBefore
      <4>2. Cardinality(Ahead') = Cardinality(Ahead) + 1
        BY <4>1, CountedFinite, FS_AddElement
      <4> QED
        BY <2>1, <3>2, <4>1, <4>2, CountedFinite
    <3>4. CASE handler[t] = "counted"
      <4>1. t \in Owed /\ Owed' = Owed \ {t} /\ Ahead' = Ahead
        BY <1>1, <1>3, <2>2, <2>3, <3>1, <3>4 DEF Ahead, Owed, LoweredBefore
      <4>2. Cardinality(Owed') = Cardinality(Owed) - 1
        BY <4>1, CountedFinite, FS_RemoveElement
      <4> QED
        BY <2>1, <3>2, <4>1, <4>2, CountedFinite
    <3> QED
      BY <2>5, <3>3, <3>4
  <2> QED
    BY <2>4, <2>5
<1> QED
  BY <1>4, <1>5, <1>6 DEF CountInv, Balanced

LEMMA LedgerFailsCounts == ASSUME CountInv, NEW t \in Txs, LedgerFails(t) PROVE CountInv'
<1>1. /\ reporting[t] > 0 /\ reporting' = [reporting EXCEPT ![t] = reporting[t] - 1]
      /\ skewed' = (skewed \/ handler[t] \in {"runs", "counted"})
      /\ UNCHANGED <<row, reports, handler, pendingExecutions>>
  BY DEF LedgerFails, Reported
<1>2. skewed' \in BOOLEAN /\ (~skewed' => ~skewed /\ handler[t] \notin {"runs", "counted"})
  BY <1>1, Zenon
<1>3. CountTypes' /\ NothingBefore' /\ InHand'
  BY <1>1, <1>2 DEF CountInv, CountTypes, NothingBefore, InHand
<1>4. ASSUME handler[t] \notin {"runs", "counted"} PROVE Ahead' = Ahead /\ Owed' = Owed
  BY <1>1, <1>4 DEF Ahead, Owed, LoweredBefore, CountInv, CountTypes
<1> QED
  BY <1>1, <1>2, <1>3, <1>4 DEF CountInv, Balanced

LEMMA RestartCounts == ASSUME CountInv, Restart PROVE CountInv'
<1>1. /\ handler' = [t \in Txs |-> IF row[t] = "none" THEN handler[t] ELSE "died"]
      /\ reporting' = [t \in Txs |-> 0] /\ pendingExecutions' = 0 /\ skewed' = FALSE
      /\ UNCHANGED <<row, reports>>
  BY DEF Restart
<1>2. CountTypes' /\ NothingBefore'
  BY <1>1 DEF CountInv, CountTypes, NothingBefore
<1>4. \A t \in Txs : reporting'[t] = 0 /\ handler'[t] \in {handler[t], "died"}
  BY <1>1
<1>5. InHand'
  BY <1>4 DEF CountInv, InHand
<1>3. Ahead' = {} /\ Owed' = {}
  BY <1>1 DEF Ahead, Owed, LoweredBefore, CountInv, NothingBefore
<1> QED
  BY <1>1, <1>2, <1>3, <1>5, FS_EmptySet DEF CountInv, Balanced

LEMMA CountStep == CountInv /\ [RealtimeNext]_realtimeVars => CountInv'
<1> SUFFICES ASSUME CountInv, [RealtimeNext]_realtimeVars PROVE CountInv'
  OBVIOUS
<1>1. ASSUME UNCHANGED tradeVars PROVE CountInv'
  BY <1>1 DEF tradeVars, CountInv, CountTypes, NothingBefore, InHand, Balanced, Ahead, Owed,
     LoweredBefore
<1>2. ASSUME NEW s \in Sockets,
             \/ OpenSocket(s) \/ Connect(s) \/ ClientCloses(s) \/ Deliver(s)
             \/ Register(s) \/ LookupFails(s) \/ ServerCloses(s) \/ Break(s)
      PROVE  CountInv'
  BY <1>1, <1>2 DEF OpenSocket, Connect, ClientCloses, Deliver, Register, LookupFails,
                    ServerCloses, Break
<1>3. CASE NewSession
  BY <1>1, <1>3 DEF NewSession
<1>4. ASSUME NEW t \in Txs, InsertRow(t) PROVE CountInv'
  <2>1. row' = [row EXCEPT ![t] = "PENDING"] /\ row[t] = "none"
        /\ UNCHANGED <<reports, handler, reporting, pendingExecutions, skewed>>
    BY <1>4 DEF InsertRow
  <2>2. CountTypes' /\ NothingBefore' /\ InHand'
    BY <2>1 DEF CountInv, CountTypes, NothingBefore, InHand
  <2>3. Ahead' = Ahead /\ Owed' = Owed
    BY <2>1 DEF Ahead, Owed, LoweredBefore, CountInv, CountTypes, NothingBefore, InHand
  <2> QED
    BY <2>1, <2>2, <2>3 DEF CountInv, Balanced
<1>5. ASSUME NEW t \in Txs, Notify(t) PROVE CountInv'
  <2>1. row[t] # "none" /\ SendToUser([type |-> "TRADE_PENDING", tx |-> t])
        /\ UNCHANGED <<row, handler, reporting, pendingExecutions, skewed>>
    BY <1>5 DEF Notify, Pending
  <2>2. CountTypes' /\ NothingBefore' /\ InHand'
    BY <2>1, ReportTypes DEF CountInv, CountTypes, NothingBefore, InHand
  <2> QED
    BY <2>1, <2>2 DEF CountInv, Balanced, Ahead, Owed, LoweredBefore
<1>6. ASSUME NEW t \in Txs, \/ CountPending(t) \/ HandlerFails(t) \/ SettleRow(t)
                            \/ ReportOutcome(t) \/ LedgerFails(t)
      PROVE  CountInv'
  BY <1>6, CountPendingKeeps, HandlerFailsKeeps, SettleRowKeeps, OutcomeKeeps, LedgerFailsCounts
<1>7. CASE UNCHANGED realtimeVars
  BY <1>1, <1>7 DEF realtimeVars
<1> QED
  BY <1>2, <1>3, <1>4, <1>5, <1>6, <1>7, RestartCounts DEF RealtimeNext

LEMMA CountInit == RealtimeInit => CountInv
<1> SUFFICES ASSUME RealtimeInit PROVE CountInv
  OBVIOUS
<1>1. CountTypes /\ NothingBefore
  BY EmptySeq DEF RealtimeInit, CountTypes, NothingBefore
<1>3. InHand
  <2>1. \A t \in Txs : reporting[t] = 0 /\ (t \in Manual => handler[t] = "none")
    BY DEF RealtimeInit
  <2> QED
    BY <2>1 DEF InHand
<1>2. Ahead = {} /\ Owed = {} /\ pendingExecutions = 0
  BY DEF RealtimeInit, Ahead, Owed, LoweredBefore
<1> QED
  BY <1>1, <1>2, <1>3, FS_EmptySet DEF CountInv, Balanced

LEMMA CountExact == CountInv => CounterIsExact
<1> SUFFICES ASSUME CountInv, ~skewed, \A t \in Txs : row[t] = "none" \/ handler[t] # "runs"
             PROVE  pendingExecutions = Cardinality(Owed)
  BY DEF CounterIsExact
<1>1. Ahead = {}
  BY DEF Ahead, LoweredBefore
<1> QED
  BY <1>1, CountedFinite, FS_EmptySet DEF CountInv, CountTypes, Balanced

\* When no handler runs, the counter of pending executions says how many of the
\* trades it has counted are not settled or not reported, in whatever order it
\* was raised and lowered, a restart included, unless it was lowered at zero for
\* a trade counted later or for a trade never counted, or the lowering was
\* skipped or done twice (the handler of the queue, checkPendingTxs).
THEOREM ExactCount == RealtimeSpec => []CounterIsExact
BY CountInit, CountStep, CountExact, PTL DEF RealtimeSpec

-----------------------------------------------------------------------------
(* What the tab lists: an entry whose trade is settled has its outcome     *)
(* still to come on the way to the tab, behind whatever would list it.     *)

Messages == [type : {"TRADE_PENDING", "TRADE_OUTCOME"}, tx : Txs]

\* Whatever lists t is followed by its outcome.
Foretold(messages, t) ==
  \A i \in 1 .. Len(messages) : messages[i] = Pending(t) =>
    \E j \in i + 1 .. Len(messages) : messages[j] = Outcome(t)

\* The messages on their way to the tab.
Way == IF current = NoSocket THEN <<>> ELSE wire[current]

TabTypes ==
  /\ current \in Sockets \cup {NoSocket}
  /\ client \in [Sockets -> {"closed", "connecting", "open"}]
  /\ link \in [Sockets -> {"up", "broken", "1008"}]
  /\ wire \in [Sockets -> Seq(Messages)]
  /\ row \in [Txs -> {"none", "PENDING", "settled"}]
  /\ reports \in [Txs -> Seq({"TRADE_PENDING", "TRADE_OUTCOME"})]
  /\ reporting \in [Txs -> Nat]
  /\ listed \subseteq Txs

\* A closed socket carries nothing, and the tab's next one is opened only when
\* its last one is closed.
ClosedIsSilent ==
  /\ \A s \in Sockets : client[s] = "closed" => wire[s] = <<>> /\ link[s] # "up"
  /\ retry => current = NoSocket \/ client[current] = "closed"

OutcomeComes(t) ==
  row[t] = "settled" /\ reporting[t] = 0 =>
    \/ Overtaken(t) \/ t \in missed
    \/ /\ reports[t] # <<>>
       /\ t \in listed => t \in Outcomes(Way)
       /\ Foretold(Way, t)

\* Which outcomes a sequence of messages has.
LEMMA OutcomeIn ==
  ASSUME NEW messages \in Seq(Messages), NEW t \in Txs
  PROVE  t \in Outcomes(messages) <=> \E i \in 1 .. Len(messages) : messages[i] = Outcome(t)
<1>1. \A i \in 1 .. Len(messages) : messages[i] \in Messages
  OBVIOUS
<1>2. \A i \in 1 .. Len(messages) :
        messages[i] = Outcome(t) <=> messages[i].type = "TRADE_OUTCOME" /\ messages[i].tx = t
  BY <1>1 DEF Messages, Outcome
<1>3. t \in Outcomes(messages) <=>
        \E i \in 1 .. Len(messages) : messages[i].type = "TRADE_OUTCOME" /\ messages[i].tx = t
  BY DEF Outcomes
<1>4. QED
  BY <1>2, <1>3

\* A message sent behind the others: the outcome of t, or one about another
\* trade.
LEMMA WaySent ==
  ASSUME NEW messages \in Seq(Messages), NEW m \in Messages, NEW t \in Txs, m # Pending(t)
  PROVE  /\ Append(messages, m) \in Seq(Messages)
         /\ t \in Outcomes(messages) => t \in Outcomes(Append(messages, m))
         /\ Foretold(messages, t) => Foretold(Append(messages, m), t)
         /\ m = Outcome(t) => /\ t \in Outcomes(Append(messages, m))
                              /\ Foretold(Append(messages, m), t)
<1> DEFINE sent == Append(messages, m)
<1>1. /\ sent \in Seq(Messages) /\ Len(sent) = Len(messages) + 1 /\ Len(messages) \in Nat
      /\ sent[Len(messages) + 1] = m
      /\ \A i \in 1 .. Len(messages) : sent[i] = messages[i]
  OBVIOUS
<1> HIDE DEF sent
<1>2. t \in Outcomes(messages) => t \in Outcomes(sent)
  BY <1>1, OutcomeIn
<1>3. Foretold(messages, t) => Foretold(sent, t)
  BY <1>1 DEF Foretold
<1>4. m = Outcome(t) => t \in Outcomes(sent) /\ Foretold(sent, t)
  BY <1>1, OutcomeIn DEF Foretold
<1>5. QED
  BY <1>1, <1>2, <1>3, <1>4 DEF sent

\* The first message is delivered: what it lists is settled later on the way.
LEMMA WayHeard ==
  ASSUME NEW messages \in Seq(Messages), messages # <<>>, NEW t \in Txs, Foretold(messages, t),
         t \in listed => t \in Outcomes(messages)
  PROVE  /\ Tail(messages) \in Seq(Messages)
         /\ t \in AfterMessage(Head(messages)) => t \in Outcomes(Tail(messages))
         /\ Foretold(Tail(messages), t)
<1> DEFINE rest == Tail(messages)
<1>1. /\ rest \in Seq(Messages) /\ Len(rest) = Len(messages) - 1 /\ Len(messages) \in Nat \ {0}
      /\ \A i \in 1 .. Len(rest) : rest[i] = messages[i + 1]
      /\ Head(messages) = messages[1] /\ messages[1] \in Messages
  OBVIOUS
<1> HIDE DEF rest
<1>2. Foretold(rest, t)
  <2> SUFFICES ASSUME NEW i \in 1 .. Len(rest), rest[i] = Pending(t)
               PROVE  \E j \in i + 1 .. Len(rest) : rest[j] = Outcome(t)
    BY DEF Foretold
  <2>1. PICK j \in i + 2 .. Len(messages) : messages[j] = Outcome(t)
    BY <1>1 DEF Foretold
  <2>2. j - 1 \in i + 1 .. Len(rest) /\ rest[j - 1] = Outcome(t)
    BY <1>1, <2>1
  <2>3. QED
    BY <2>2
<1>3. ASSUME t \in AfterMessage(Head(messages))
      PROVE  t \in Outcomes(rest)
  <2>1. \E j \in 1 .. Len(messages) : messages[j] = Outcome(t)
    <3>1. CASE t \in listed
      BY <3>1, OutcomeIn
    <3>2. CASE t \notin listed
      <4>1. messages[1].type = "TRADE_PENDING" /\ messages[1].tx = t
        BY <1>1, <1>3, <3>2 DEF AfterMessage
      <4>2. messages[1] = Pending(t)
        BY <1>1, <4>1 DEF Pending, Messages
      <4>3. QED
        BY <1>1, <4>2 DEF Foretold
    <3>3. QED
      BY <3>1, <3>2
  <2>2. messages[1] # Outcome(t)
    BY <1>1, <1>3 DEF AfterMessage, Outcome
  <2>3. PICK j \in 2 .. Len(messages) : messages[j] = Outcome(t)
    BY <1>1, <2>1, <2>2
  <2>4. j - 1 \in 1 .. Len(rest) /\ rest[j - 1] = Outcome(t)
    BY <1>1, <2>3
  <2>5. QED
    BY <1>1, <2>4, OutcomeIn
<1>4. QED
  BY <1>1, <1>2, <1>3 DEF rest

TabInv == TabTypes /\ ClosedIsSilent /\ \A t \in Txs : OutcomeComes(t)

LEMMA NothingOnTheWay == Outcomes(<<>>) = {} /\ \A t \in Txs : Foretold(<<>>, t)
<1>1. 1 .. Len(<<>>) = {}
  BY EmptySeq
<1>2. QED
  BY <1>1 DEF Outcomes, Foretold

\* Nothing is said, and what is on its way stays there or counts as missed.
LEMMA WayKept ==
  ASSUME TabInv, UNCHANGED <<row, reports, reporting, listed>>, missed \subseteq missed',
         Way' = Way \/ (Way' = <<>> /\ Outcomes(Way) \subseteq missed'), NEW t \in Txs
  PROVE  OutcomeComes(t)'
<1>1. CASE Way' = Way
  BY <1>1 DEF TabInv, OutcomeComes, Overtaken
<1>2. CASE Way' = <<>> /\ Outcomes(Way) \subseteq missed'
  BY <1>2, NothingOnTheWay DEF TabInv, OutcomeComes, Overtaken
<1>3. QED
  BY <1>1, <1>2

\* What the sockets do that carries no message about a trade.
LEMMA SocketsKeepWay ==
  ASSUME TabInv, NEW s \in Sockets,
         \/ OpenSocket(s) \/ Connect(s) \/ ClientCloses(s) \/ Register(s)
         \/ LookupFails(s) \/ ServerCloses(s) \/ Break(s)
  PROVE  TabInv'
<1>1. CASE OpenSocket(s)
  <2>1. /\ retry /\ client[s] = "closed" /\ retry' = FALSE /\ current' = s
        /\ client' = [client EXCEPT ![s] = "connecting"] /\ link' = [link EXCEPT ![s] = "up"]
        /\ UNCHANGED <<row, reports, reporting, wire, listed, missed>>
    BY <1>1 DEF OpenSocket, IsFree, tradeVars
  <2>2. Way = <<>> /\ Way' = <<>>
    BY <2>1, RealtimeAssumption DEF TabInv, TabTypes, ClosedIsSilent, Way
  <2>3. \A t \in Txs : OutcomeComes(t)'
    BY <2>1, <2>2, WayKept
  <2>4. TabTypes' /\ ClosedIsSilent'
    BY <2>1, RealtimeAssumption DEF TabInv, TabTypes, ClosedIsSilent
  <2>5. QED
    BY <2>3, <2>4 DEF TabInv
<1>2. CASE Connect(s)
  <2>1. /\ client[s] = "connecting" /\ client' = [client EXCEPT ![s] = "open"]
        /\ UNCHANGED <<current, retry, link, row, reports, reporting, wire, listed, missed>>
    BY <1>2 DEF Connect, tradeVars
  <2>2. \A t \in Txs : OutcomeComes(t)'
    BY <2>1, WayKept DEF Way
  <2>3. TabTypes' /\ ClosedIsSilent'
    BY <2>1 DEF TabInv, TabTypes, ClosedIsSilent
  <2>4. QED
    BY <2>2, <2>3 DEF TabInv
<1>3. CASE ClientCloses(s)
  <2>1. /\ link[s] # "up" /\ wire[s] = <<>> /\ client' = [client EXCEPT ![s] = "closed"]
        /\ s # current => UNCHANGED retry
        /\ UNCHANGED <<current, link, row, reports, reporting, wire, listed, missed>>
    BY <1>3 DEF ClientCloses, tradeVars
  <2>2. \A t \in Txs : OutcomeComes(t)'
    BY <2>1, WayKept DEF Way
  <2>3. TabTypes' /\ ClosedIsSilent'
    BY <2>1 DEF TabInv, TabTypes, ClosedIsSilent
  <2>4. QED
    BY <2>2, <2>3 DEF TabInv
<1>4. CASE Register(s) \/ ServerCloses(s)
  <2>1. UNCHANGED <<current, retry, client, link, row, reports, reporting, wire, listed, missed>>
    BY <1>4 DEF Register, ServerCloses, tabVars, tradeVars
  <2>2. \A t \in Txs : OutcomeComes(t)'
    BY <2>1, WayKept DEF Way
  <2>3. QED
    BY <2>1, <2>2 DEF TabInv, TabTypes, ClosedIsSilent
<1>5. CASE LookupFails(s)
  <2>1. /\ link' = [link EXCEPT ![s] = IF @ = "up" THEN "1008" ELSE @]
        /\ UNCHANGED <<current, retry, client, row, reports, reporting, wire, listed, missed>>
    BY <1>5 DEF LookupFails, tabVars, tradeVars
  <2>2. \A t \in Txs : OutcomeComes(t)'
    BY <2>1, WayKept DEF Way
  <2>3. TabTypes' /\ ClosedIsSilent'
    BY <2>1 DEF TabInv, TabTypes, ClosedIsSilent
  <2>4. QED
    BY <2>2, <2>3 DEF TabInv
<1>6. CASE Break(s)
  <2>1. /\ link' = [link EXCEPT ![s] = "broken"] /\ wire' = [wire EXCEPT ![s] = <<>>]
        /\ missed' = (IF s = current THEN missed \cup Outcomes(wire[s]) ELSE missed)
        /\ UNCHANGED <<current, retry, client, row, reports, reporting, listed>>
    BY <1>6 DEF Break, tabVars, tradeVars
  <2>2. Way' = Way \/ (Way' = <<>> /\ Outcomes(Way) \subseteq missed')
    BY <2>1, RealtimeAssumption DEF TabInv, TabTypes, Way
  <2>3. \A t \in Txs : OutcomeComes(t)'
    BY <2>1, <2>2, WayKept
  <2>4. TabTypes' /\ ClosedIsSilent'
    <3>1. <<>> \in Seq(Messages)
      BY EmptySeq
    <3>2. QED
      BY <2>1, <3>1 DEF TabInv, TabTypes, ClosedIsSilent
  <2>5. QED
    BY <2>3, <2>4 DEF TabInv
<1>7. QED
  BY <1>1, <1>2, <1>3, <1>4, <1>5, <1>6

\* The effect's cleanup counts what its socket still carries as missed.
LEMMA NewSessionKeeps == ASSUME TabInv, NewSession PROVE TabInv'
<1>1. /\ retry' = TRUE /\ current' = NoSocket /\ AbandonSocket
      /\ UNCHANGED <<client, row, reports, reporting, listed>>
  BY DEF NewSession, tradeVars
<1>2. Way' = <<>> /\ missed \subseteq missed' /\ Outcomes(Way) \subseteq missed'
  BY <1>1, NothingOnTheWay DEF AbandonSocket, Way
<1>3. \A t \in Txs : OutcomeComes(t)'
  BY <1>1, <1>2, WayKept
<1>4. TabTypes' /\ ClosedIsSilent'
  <2>1. CASE current = NoSocket
    BY <1>1, <2>1 DEF AbandonSocket, TabInv, TabTypes, ClosedIsSilent
  <2>2. CASE current # NoSocket
    <3>1. link' = [link EXCEPT ![current] = "broken"] /\ wire' = [wire EXCEPT ![current] = <<>>]
          /\ current \in Sockets /\ <<>> \in Seq(Messages)
      BY <1>1, <2>2, EmptySeq DEF AbandonSocket, TabInv, TabTypes
    <3>2. QED
      BY <1>1, <3>1 DEF TabInv, TabTypes, ClosedIsSilent
  <2>3. QED
    BY <2>1, <2>2
<1>5. QED
  BY <1>3, <1>4 DEF TabInv

LEMMA DeliverKeeps == ASSUME TabInv, NEW s \in Sockets, Deliver(s) PROVE TabInv'
<1>1. /\ client[s] = "open" /\ wire[s] # <<>> /\ wire' = [wire EXCEPT ![s] = Tail(wire[s])]
      /\ listed' = (IF s = current THEN AfterMessage(Head(wire[s])) ELSE listed)
      /\ UNCHANGED <<current, retry, client, link, row, reports, reporting, missed>>
  BY DEF Deliver, tabVars, socketVars, tradeVars
<1>2. wire[s] \in Seq(Messages) /\ Tail(wire[s]) \in Seq(Messages)
  BY <1>1 DEF TabInv, TabTypes
<1>3. TabTypes' /\ ClosedIsSilent'
  <2>1. Head(wire[s]) \in Messages
    BY <1>1, <1>2 DEF TabInv, TabTypes
  <2>2. listed' \subseteq Txs
    BY <1>1, <2>1 DEF TabInv, TabTypes, AfterMessage, Messages
  <2>3. QED
    BY <1>1, <1>2, <2>2 DEF TabInv, TabTypes, ClosedIsSilent
<1>4. ASSUME NEW t \in Txs PROVE OutcomeComes(t)'
  <2>1. CASE s # current
    <3>1. Way' = Way
      BY <1>1, <2>1 DEF TabInv, TabTypes, Way
    <3>2. QED
      BY <1>1, <2>1, <3>1, WayKept
  <2>2. CASE s = current
    <3>1. Way = wire[s] /\ Way' = Tail(wire[s])
      BY <1>1, <2>2, RealtimeAssumption DEF TabInv, TabTypes, Way
    <3>2. SUFFICES ASSUME row[t] = "settled", reporting[t] = 0, ~Overtaken(t), t \notin missed
                   PROVE  /\ t \in listed' => t \in Outcomes(Way')
                          /\ Foretold(Way', t)
      BY <1>1 DEF OutcomeComes, Overtaken, TabInv
    <3>3. Foretold(wire[s], t) /\ (t \in listed => t \in Outcomes(wire[s]))
      BY <3>1, <3>2 DEF OutcomeComes, TabInv
    <3>4. /\ t \in AfterMessage(Head(wire[s])) => t \in Outcomes(Tail(wire[s]))
          /\ Foretold(Tail(wire[s]), t)
      BY <1>1, <1>2, <3>3, WayHeard
    <3>5. listed' = AfterMessage(Head(wire[s]))
      BY <1>1, <2>2
    <3>6. QED
      BY <3>1, <3>4, <3>5
  <2>3. QED
    BY <2>1, <2>2
<1>5. QED
  BY <1>3, <1>4 DEF TabInv

LEMMA FirstStays ==
  ASSUME NEW S, NEW q \in Seq(S), NEW x \in S
  PROVE  /\ Append(q, x) # <<>>
         /\ q # <<>> => Append(q, x)[1] = q[1]
<1>1. Len(Append(q, x)) = Len(q) + 1 /\ Len(q) \in Nat
  OBVIOUS
<1>2. Append(q, x) # <<>>
  BY <1>1
<1>3. ASSUME q # <<>> PROVE Append(q, x)[1] = q[1]
  <2>1. 1 \in 1 .. Len(q)
    BY <1>3, EmptySeq
  <2>2. QED
    BY <2>1, AppendProperties
<1>4. QED
  BY <1>2, <1>3

\* A report about a trade changes what is on the way to the tab only by
\* putting it behind the rest.
LEMMA SentToTab ==
  ASSUME TabInv, NEW m \in Messages, SendToUser(m),
         UNCHANGED <<current, retry, client, link, listed>>,
         row' \in [Txs -> {"none", "PENDING", "settled"}], reporting' \in [Txs -> Nat]
  PROVE  /\ TabTypes' /\ ClosedIsSilent'
         /\ Way \in Seq(Messages)
         /\ Way' = IF current \in Hearing THEN Append(Way, m) ELSE Way
         /\ \A t \in Txs : Overtaken(t) => Overtaken(t)'
         /\ \A t \in Txs : t # m.tx => reports'[t] = reports[t]
         /\ reports'[m.tx] # <<>>
<1>1. /\ wire' = [s \in Sockets |-> IF s \in Hearing THEN Append(wire[s], m) ELSE wire[s]]
      /\ reports' = [reports EXCEPT ![m.tx] = Append(reports[m.tx], m.type)]
      /\ m.tx \in Txs /\ m.type \in {"TRADE_PENDING", "TRADE_OUTCOME"}
  BY DEF SendToUser, Messages
<1>2. \A s \in Sockets : wire'[s] \in Seq(Messages)
  BY <1>1 DEF TabInv, TabTypes
<1>3. Append(reports[m.tx], m.type) \in Seq({"TRADE_PENDING", "TRADE_OUTCOME"})
  BY <1>1, AppendProperties DEF TabInv, TabTypes
<1>4. TabTypes'
  BY <1>1, <1>2, <1>3 DEF TabInv, TabTypes
<1>5. ClosedIsSilent'
  BY <1>1 DEF TabInv, TabTypes, ClosedIsSilent, Hearing
<1>6. Way \in Seq(Messages)
  BY EmptySeq DEF TabInv, TabTypes, Way
<1>7. Way' = IF current \in Hearing THEN Append(Way, m) ELSE Way
  BY <1>1, RealtimeAssumption DEF TabInv, TabTypes, Way, Hearing
<1>8. /\ reports[m.tx] # <<>> => Append(reports[m.tx], m.type)[1] = reports[m.tx][1]
      /\ Append(reports[m.tx], m.type) # <<>>
  <2>1. reports[m.tx] \in Seq({"TRADE_PENDING", "TRADE_OUTCOME"})
    BY <1>1 DEF TabInv, TabTypes
  <2>2. QED
    BY <1>1, <2>1, FirstStays
<1>9. reports'[m.tx] # <<>> /\ \A t \in Txs : t # m.tx => reports'[t] = reports[t]
  BY <1>1, <1>8 DEF TabInv, TabTypes
<1>10. \A t \in Txs : Overtaken(t) => Overtaken(t)'
  BY <1>1, <1>8 DEF TabInv, TabTypes, Overtaken
<1>11. QED
  BY <1>4, <1>5, <1>6, <1>7, <1>9, <1>10

\* It leaves the other trades as they were.
LEMMA SentAboutAnother ==
  ASSUME TabInv, NEW m \in Messages, SendToUser(m), NEW t \in Txs, m.tx # t,
         UNCHANGED <<current, retry, client, link, listed>>, missed \subseteq missed',
         row' \in [Txs -> {"none", "PENDING", "settled"}], reporting' \in [Txs -> Nat],
         row'[t] = row[t], reporting'[t] = reporting[t]
  PROVE  OutcomeComes(t)'
<1>1. m # Pending(t)
  BY DEF Pending
<1>2. SUFFICES ASSUME row[t] = "settled", reporting[t] = 0, ~Overtaken(t)', t \notin missed'
               PROVE  /\ reports'[t] # <<>> /\ (t \in listed => t \in Outcomes(Way'))
                      /\ Foretold(Way', t)
  BY DEF OutcomeComes
<1>3. reports[t] # <<>> /\ (t \in listed => t \in Outcomes(Way)) /\ Foretold(Way, t)
  BY <1>2, SentToTab DEF TabInv, OutcomeComes
<1>4. reports'[t] # <<>>
  BY <1>3, SentToTab
<1>5. Way \in Seq(Messages) /\ Way' = IF current \in Hearing THEN Append(Way, m) ELSE Way
  BY SentToTab
<1>6. /\ t \in Outcomes(Way) => t \in Outcomes(Append(Way, m))
      /\ Foretold(Way, t) => Foretold(Append(Way, m), t)
  BY <1>1, <1>5, WaySent
<1>7. QED
  BY <1>3, <1>4, <1>5, <1>6

LEMMA NotifyKeeps == ASSUME TabInv, NEW t \in Txs, Notify(t) PROVE TabInv'
<1> DEFINE m == Pending(t)
<1>1. /\ "TRADE_PENDING" \notin {reports[t][i] : i \in 1 .. Len(reports[t])}
      /\ SendToUser(m) /\ m \in Messages /\ m.tx = t
      /\ UNCHANGED <<current, retry, client, link, row, reporting, listed, missed>>
  BY DEF Notify, Told, tabVars, socketVars, Pending, Messages
<1>2. row' \in [Txs -> {"none", "PENDING", "settled"}] /\ reporting' \in [Txs -> Nat]
  BY <1>1 DEF TabInv, TabTypes
<1> HIDE DEF m
<1>3. \A u \in Txs \ {t} : OutcomeComes(u)'
  BY <1>1, <1>2, SentAboutAnother
<1>4. OutcomeComes(t)'
  <2>1. SUFFICES ASSUME row[t] = "settled", reporting[t] = 0, t \notin missed
                 PROVE  Overtaken(t)'
    BY <1>1 DEF OutcomeComes
  <2>2. reports[t] # <<>>
    BY <2>1 DEF TabInv, OutcomeComes, Overtaken
  <2>3. reports[t] \in Seq({"TRADE_PENDING", "TRADE_OUTCOME"})
    BY DEF TabInv, TabTypes
  <2>4. 1 \in 1 .. Len(reports[t]) /\ reports[t][1] \in {"TRADE_PENDING", "TRADE_OUTCOME"}
    BY <2>2, <2>3
  <2>5. Overtaken(t)
    BY <1>1, <2>2, <2>4 DEF Overtaken
  <2>6. QED
    BY <1>1, <1>2, <2>5, SentToTab
<1>5. TabTypes' /\ ClosedIsSilent'
  BY <1>1, <1>2, SentToTab
<1>6. QED
  BY <1>3, <1>4, <1>5 DEF TabInv

\* The outcome is the last of the messages on the way to the tab, or the tab
\* has no connection on which it travels.
LEMMA ReportKeeps == ASSUME TabInv, NEW t \in Txs, ReportOutcome(t) PROVE TabInv'
<1> DEFINE m == Outcome(t)
<1>1. /\ SendToUser(m)
      /\ reporting[t] > 0 /\ reporting' = [reporting EXCEPT ![t] = reporting[t] - 1]
      /\ m \in Messages /\ m.tx = t /\ m # Pending(t)
      /\ missed' = (IF current \in Hearing THEN missed ELSE missed \cup {t})
      /\ UNCHANGED <<current, retry, client, link, row, listed>>
  BY DEF ReportOutcome, Reported, tabVars, socketVars, Outcome, Pending, Messages
<1>2. /\ row' \in [Txs -> {"none", "PENDING", "settled"}] /\ reporting' \in [Txs -> Nat]
      /\ \A u \in Txs \ {t} : row'[u] = row[u] /\ reporting'[u] = reporting[u]
  BY <1>1 DEF TabInv, TabTypes
<1>3. m = Outcome(t)
  OBVIOUS
<1> HIDE DEF m
<1>4. \A u \in Txs \ {t} : OutcomeComes(u)'
  BY <1>1, <1>2, SentAboutAnother
<1>5. OutcomeComes(t)'
  <2>1. CASE current \notin Hearing
    BY <1>1, <2>1 DEF OutcomeComes
  <2>2. CASE current \in Hearing
    <3>1. Way \in Seq(Messages) /\ Way' = Append(Way, m) /\ reports'[t] # <<>>
      BY <1>1, <1>2, <2>2, SentToTab
    <3>2. t \in Outcomes(Append(Way, m)) /\ Foretold(Append(Way, m), t)
      BY <1>1, <1>3, <3>1, WaySent
    <3>3. QED
      BY <3>1, <3>2 DEF OutcomeComes
  <2>3. QED
    BY <2>1, <2>2
<1>6. TabTypes' /\ ClosedIsSilent'
  BY <1>1, <1>2, SentToTab
<1>7. QED
  BY <1>4, <1>5, <1>6 DEF TabInv

LEMMA RowsKeepWay ==
  ASSUME TabInv, NEW t \in Txs,
         InsertRow(t) \/ CountPending(t) \/ HandlerFails(t) \/ SettleRow(t) \/ LedgerFails(t)
  PROVE  TabInv'
<1>1. /\ UNCHANGED <<current, retry, client, link, wire, reports, listed>>
      /\ missed \subseteq missed'
  BY DEF InsertRow, CountPending, HandlerFails, SettleRow, LedgerFails, tabVars, socketVars
<1>2. /\ row' \in [Txs -> {"none", "PENDING", "settled"}]
      /\ reporting' \in [Txs -> Nat]
      /\ \A u \in Txs : row'[u] = "settled" /\ reporting'[u] = 0 =>
           (row[u] = "settled" /\ reporting[u] = 0) \/ u \in missed'
  <2>1. CASE InsertRow(t) \/ CountPending(t) \/ HandlerFails(t)
    BY <2>1 DEF InsertRow, CountPending, HandlerFails, TabInv, TabTypes
  <2>2. CASE SettleRow(t)
    BY <2>2 DEF SettleRow, TabInv, TabTypes
  <2>3. CASE LedgerFails(t)
    <3>1. reporting[t] > 0 /\ reporting' = [reporting EXCEPT ![t] = reporting[t] - 1]
          /\ missed' = missed \cup {t} /\ UNCHANGED row
      BY <2>3 DEF LedgerFails, Reported
    <3>2. QED
      BY <3>1 DEF TabInv, TabTypes
  <2>4. QED
    BY <2>1, <2>2, <2>3
<1>3. Way' = Way
  BY <1>1 DEF Way
<1>4. \A u \in Txs : OutcomeComes(u)'
  BY <1>1, <1>2, <1>3 DEF TabInv, OutcomeComes, Overtaken
<1>5. QED
  BY <1>1, <1>2, <1>4 DEF TabInv, TabTypes, ClosedIsSilent

\* With the server end the connections and the reports it was about to make,
\* which count as missed.
LEMMA RestartKeepsWay == ASSUME TabInv, Restart PROVE TabInv'
<1>1. /\ link' = [s \in Sockets |-> IF link[s] = "up" THEN "broken" ELSE link[s]]
      /\ wire' = [s \in Sockets |-> <<>>] /\ reporting' = [t \in Txs |-> 0]
      /\ missed' = missed \cup {t \in Txs : reporting[t] > 0}
                          \cup (IF current = NoSocket THEN {} ELSE Outcomes(wire[current]))
      /\ UNCHANGED <<current, retry, client, row, reports, listed>>
  BY DEF Restart, tabVars
<1>2. Way' = <<>> /\ Outcomes(Way) \subseteq missed'
  BY <1>1, NothingOnTheWay DEF Way, TabInv, TabTypes
<1>3. ASSUME NEW t \in Txs PROVE OutcomeComes(t)'
  <2>1. CASE reporting[t] > 0
    BY <1>1, <2>1 DEF OutcomeComes
  <2>2. CASE reporting[t] = 0
    BY <1>1, <1>2, <2>2, NothingOnTheWay DEF TabInv, OutcomeComes, Overtaken
  <2>3. QED
    BY <2>1, <2>2 DEF TabInv, TabTypes
<1>4. TabTypes' /\ ClosedIsSilent'
  <2>1. <<>> \in Seq(Messages)
    BY EmptySeq
  <2>2. QED
    BY <1>1, <2>1 DEF TabInv, TabTypes, ClosedIsSilent
<1>5. QED
  BY <1>3, <1>4 DEF TabInv

LEMMA TabStep == TabInv /\ [RealtimeNext]_realtimeVars => TabInv'
<1> SUFFICES ASSUME TabInv, [RealtimeNext]_realtimeVars PROVE TabInv'
  OBVIOUS
<1>1. ASSUME NEW s \in Sockets,
             \/ OpenSocket(s) \/ Connect(s) \/ ClientCloses(s) \/ Deliver(s)
             \/ Register(s) \/ LookupFails(s) \/ ServerCloses(s) \/ Break(s)
      PROVE  TabInv'
  BY <1>1, SocketsKeepWay, DeliverKeeps
<1>2. CASE NewSession
  BY <1>2, NewSessionKeeps
<1>3. ASSUME NEW t \in Txs, \/ InsertRow(t) \/ Notify(t) \/ CountPending(t) \/ HandlerFails(t)
                            \/ SettleRow(t) \/ ReportOutcome(t) \/ LedgerFails(t)
      PROVE  TabInv'
  BY <1>3, RowsKeepWay, NotifyKeeps, ReportKeeps
<1>4. CASE UNCHANGED realtimeVars
  <2>1. UNCHANGED <<current, retry, client, link, wire, row, reports, reporting, listed, missed>>
    BY <1>4 DEF realtimeVars, tabVars, socketVars, tradeVars
  <2>2. \A t \in Txs : OutcomeComes(t)'
    BY <2>1, WayKept DEF Way
  <2>3. QED
    BY <2>1, <2>2 DEF TabInv, TabTypes, ClosedIsSilent
<1>5. QED
  BY <1>1, <1>2, <1>3, <1>4, RestartKeepsWay DEF RealtimeNext

LEMMA TabInit == RealtimeInit => TabInv
<1> SUFFICES ASSUME RealtimeInit PROVE TabInv
  OBVIOUS
<1>1. TabTypes /\ ClosedIsSilent
  BY EmptySeq DEF RealtimeInit, TabTypes, ClosedIsSilent
<1>2. \A t \in Txs : row[t] # "settled"
  BY DEF RealtimeInit
<1>3. QED
  BY <1>1, <1>2 DEF TabInv, OutcomeComes

\* What the tab lists as pending is pending, about to be reported, or has its
\* outcome on the way to the tab, unless that was reported first or missed,
\* whatever connections break, are replaced or abandoned meanwhile, the server's
\* end and restart included (useSocket's onmessage and
\* openSocket, sendToUser, checkPendingTxs).
THEOREM TabListsPending == RealtimeSpec => []ListedIsPending
<1>1. TabInv => ListedIsPending
  BY NothingOnTheWay DEF TabInv, TabTypes, OutcomeComes, ListedIsPending, Way
<1>2. QED
  BY <1>1, TabInit, TabStep, PTL DEF RealtimeSpec
=============================================================================
