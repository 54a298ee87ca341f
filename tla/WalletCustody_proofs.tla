------------------------ MODULE WalletCustody_proofs ------------------------
(***************************************************************************)
(* For any number of requests, tokens and crashes: what a verification is  *)
(* good for, what the answer of a request that spends is worth, and that   *)
(* every address shown to the user has its key in the table.               *)
(***************************************************************************)
EXTENDS WalletCustody, TLAPS

Places == Awaiting \cup Answers \cup {"new"}

RequestTypes ==
  /\ kind \in [Calls -> Kinds]
  /\ at \in [Calls -> Places]
  /\ token \in [Calls -> Tokens \cup {NoToken}]
  /\ result \in [Calls -> {"none", "CONFIRMED", "PENDING", "FAILED"}]
  /\ tx \in [Calls -> {"none", "air", "landed", "reverted"}]
  /\ issued \in [Tokens -> Actions \cup {"never", "gone"}]
  /\ panel \in [{"export", "withdraw"} -> Tokens \cup {NoToken}]
  /\ pending \subseteq Calls /\ ledger \subseteq Calls /\ brokenOff \subseteq Calls

Unhandled == {"new", "sent"}
Unsent    == {"new", "sent", "insert", "inserted", "guard", "build"}
Allowed   == {"guard", "build", "confirm", "ledger", "pending", "touch",
              "activity", "exported"}

\* Where each kind of request can be, and before which place nothing is sent.
Route(c) ==
  /\ at[c] = "new" => kind[c] = "CREATE"
  /\ at[c] \in {"insert", "inserted"} => kind[c] = "CREATE"
  /\ at[c] \in {"guard", "build", "confirm"} => Withdraws(c) \/ kind[c] = "MANUAL"
  /\ at[c] = "ledger" => kind[c] = "MANUAL"
  /\ at[c] = "touch" => Withdraws(c)
  /\ at[c] \in Unsent => tx[c] = "none" /\ result[c] = "none"
  /\ ~(Withdraws(c) \/ kind[c] = "MANUAL") => tx[c] = "none" /\ result[c] = "none"

\* A request that was allowed to go on holds its verification.
Backed(c) ==
  /\ kind[c] \in Actions => token[c] \in Tokens
  /\ kind[c] \in Actions /\ (at[c] \in Allowed \/ tx[c] # "none")
       => <<c, token[c]>> \in authorised

\* A verification that was used is gone for everyone else.
Consumed ==
  /\ \A c \in Calls, t \in Tokens : <<c, t>> \in authorised =>
       issued[t] = "gone" /\ at[c] \notin Unhandled /\ token[c] = t
  /\ authorised \subseteq Calls \X Tokens
  /\ \A c, d \in Calls, t \in Tokens :
       <<c, t>> \in authorised /\ <<d, t>> \in authorised => c = d

\* What the poll said is true of the chain, and what was sent is written down.
Traced(c) ==
  /\ result[c] = "CONFIRMED" => tx[c] \in {"landed", "reverted"}
  /\ result[c] = "FAILED" /\ tx[c] \in {"air", "landed"} => c \in brokenOff
  /\ at[c] \in {"ledger", "pending", "touch"} => result[c] # "none"
  /\ at[c] = "touch" => result[c] = "CONFIRMED"
  /\ at[c] = "pending" => result[c] = "PENDING"
  /\ at[c] = "activity" /\ (Withdraws(c) \/ kind[c] = "MANUAL") =>
       result[c] # "none"
  /\ at[c] \in Unsent \cup {"confirm", "pending", "touch", "activity"} => c \notin brokenOff
  /\ at[c] = "activity" /\ Withdraws(c) /\ result[c] = "PENDING" => c \in pending
  /\ at[c] \in {"activity", "pending"} /\ kind[c] = "MANUAL" => c \in ledger

Answered(c) ==
  /\ at[c] = "confirmed" => tx[c] \in {"landed", "reverted"}
  /\ at[c] = "pending202" => c \in pending
  /\ kind[c] = "MANUAL" /\ at[c] \in {"confirmed", "pending202"} => c \in ledger
  /\ at[c] \in {"failed", "refused"} /\ tx[c] \in {"air", "landed"} => c \in brokenOff

CustodyInv ==
  /\ RequestTypes /\ Consumed
  /\ \A c \in Calls : Route(c) /\ Backed(c) /\ Traced(c) /\ Answered(c)

-----------------------------------------------------------------------------
(* A step of one request                                                   *)

Kept(c) == Route(c) /\ Backed(c) /\ Traced(c) /\ Answered(c)

\* Nothing about other requests changes, and no verification is given back.
OnlyOf(c) ==
  /\ \A d \in Calls \ {c} :
       /\ at'[d] = at[d] /\ kind'[d] = kind[d] /\ token'[d] = token[d]
       /\ result'[d] = result[d] /\ tx'[d] = tx[d]
       /\ d \in pending' <=> d \in pending
       /\ d \in ledger' <=> d \in ledger
       /\ d \in brokenOff' <=> d \in brokenOff
  /\ authorised \subseteq authorised'

LEMMA OthersKept ==
  ASSUME NEW c \in Calls, OnlyOf(c), NEW d \in Calls \ {c}, Kept(d)
  PROVE  Kept(d)'
BY DEF OnlyOf, Kept, Route, Backed, Traced, Answered, Withdraws

\* A step of c that uses no verification.
LEMMA StepOf ==
  ASSUME CustodyInv, NEW c \in Calls, OnlyOf(c), RequestTypes', Kept(c)',
         UNCHANGED <<issued, authorised, token>>, at'[c] \notin Unhandled
  PROVE  CustodyInv'
<1>1. \A d \in Calls : Kept(d)'
  BY OthersKept DEF CustodyInv, Kept
<1>2. Consumed'
  BY DEF CustodyInv, Consumed, OnlyOf
<1> QED
  BY <1>1, <1>2 DEF CustodyInv, Kept

-----------------------------------------------------------------------------
(* The steps                                                               *)

\* The steps of a request that was handled already and uses no verification.
Advance(c) ==
  \/ InsertWallet(c) \/ LoseInsert(c) \/ CacheWallet(c) \/ PassGuard(c)
  \/ FailUnsent(c) \/ Send(c) \/ LoseSend(c) \/ Confirm(c) \/ RecordTrade(c)
  \/ InsertPending(c) \/ Touch(c) \/ LogActivity(c) \/ StatementFails(c) \/ Chain(c)
  \/ HandleCreate(c) \/ HandleManual(c) \/ Refuse(c)

LEMMA AdvanceOnly ==
  ASSUME CustodyInv, NEW c \in Calls, Advance(c)
  PROVE  /\ OnlyOf(c) /\ RequestTypes' /\ at'[c] \notin Unhandled
         /\ UNCHANGED <<issued, authorised, token>>
<1> USE DEF CustodyInv, RequestTypes, OnlyOf, Places, Awaiting, Answers, Unhandled, GoTo,
            walletVars, verifyVars, requestVars, recordVars
<1>1. CASE InsertWallet(c) \/ LoseInsert(c) \/ CacheWallet(c)
  BY <1>1 DEF InsertWallet, LoseInsert, CacheWallet
<1>2. CASE PassGuard(c) \/ FailUnsent(c)
  BY <1>2 DEF PassGuard, FailUnsent
<1>3. CASE Send(c) \/ LoseSend(c)
  BY <1>3 DEF Send, LoseSend
<1>4. CASE Confirm(c)
  BY <1>4 DEF Confirm, Polled
<1>5. CASE RecordTrade(c)
  BY <1>5 DEF RecordTrade
<1>6. CASE InsertPending(c) \/ Touch(c)
  BY <1>6 DEF InsertPending, Touch
<1>7. CASE LogActivity(c)
  BY <1>7 DEF LogActivity, AfterActivity
<1>8. CASE StatementFails(c)
  BY <1>8 DEF StatementFails
<1>9. CASE Chain(c)
  BY <1>9 DEF Chain, Route, Unsent
<1>10. CASE HandleCreate(c) \/ HandleManual(c) \/ Refuse(c)
  BY <1>10 DEF HandleCreate, HandleManual, Refuse
<1> QED
  BY <1>1, <1>2, <1>3, <1>4, <1>5, <1>6, <1>7, <1>8, <1>9, <1>10 DEF Advance

LEMMA AdvanceKept ==
  ASSUME CustodyInv, NEW c \in Calls, Advance(c)
  PROVE  Kept(c)'
<1>0. Kept(c) /\ kind[c] \in Kinds /\ at[c] \in Places
  BY DEF CustodyInv, Kept, RequestTypes
<1> USE <1>0 DEF CustodyInv, RequestTypes, Kept, Route, Backed, Traced, Answered, Withdraws,
    Places, Awaiting, Answers, Unsent, Allowed, Kinds, Actions, GoTo,
    walletVars, verifyVars, requestVars, recordVars
<1>1. CASE InsertWallet(c) \/ LoseInsert(c) \/ CacheWallet(c)
  BY <1>1 DEF InsertWallet, LoseInsert, CacheWallet
<1>2. CASE PassGuard(c) \/ FailUnsent(c)
  BY <1>2 DEF PassGuard, FailUnsent
<1>3. CASE Send(c) \/ LoseSend(c)
  BY <1>3 DEF Send, LoseSend
<1>4. CASE Confirm(c)
  BY <1>4 DEF Confirm, Polled
<1>5. CASE RecordTrade(c)
  <2>1. /\ c \in ledger' /\ at' = [at EXCEPT ![c] = at'[c]]
        /\ UNCHANGED <<kind, token, result, tx, pending, brokenOff, authorised>>
        /\ kind[c] = "MANUAL" /\ result[c] # "none"
    BY <1>5 DEF RecordTrade
  <2>2. CASE tx[c] # "none" /\ c \notin brokenOff
    <3>1. at'[c] = "activity"
      BY <1>5, <2>2 DEF RecordTrade
    <3> QED
      BY <2>1, <2>2, <3>1
  <2>3. CASE ~(tx[c] # "none" /\ c \notin brokenOff)
    <3>1. at'[c] = "failed"
      BY <1>5, <2>3 DEF RecordTrade
    <3> QED
      BY <2>1, <2>3, <3>1
  <2> QED
    BY <2>2, <2>3
<1>6. CASE InsertPending(c) \/ Touch(c)
  BY <1>6 DEF InsertPending, Touch
<1>7. CASE LogActivity(c)
  <2> DEFINE next == AfterActivity(c)
  <2>1. /\ at' = [at EXCEPT ![c] = next] /\ at[c] = "activity"
        /\ UNCHANGED <<kind, token, result, tx, pending, ledger, brokenOff, authorised>>
    BY <1>7 DEF LogActivity
  <2>2. CASE kind[c] = "CREATE"
    <3>1. next = "created"
      BY <2>2 DEF AfterActivity
    <3> HIDE DEF next
    <3> QED
      BY <2>1, <2>2, <3>1
  <2>3. CASE kind[c] = "EXPORT_WALLET"
    <3>1. next = "exported"
      BY <2>3 DEF AfterActivity
    <3> HIDE DEF next
    <3> QED
      BY <2>1, <2>3, <3>1
  <2>4. CASE (Withdraws(c) \/ kind[c] = "MANUAL") /\ result[c] = "CONFIRMED"
    <3>1. next = "confirmed"
      BY <2>4 DEF AfterActivity
    <3> HIDE DEF next
    <3> QED
      BY <2>1, <2>4, <3>1
  <2>5. CASE (Withdraws(c) \/ kind[c] = "MANUAL") /\ result[c] = "PENDING"
    <3>1. next = IF kind[c] = "MANUAL" THEN "pending" ELSE "pending202"
      BY <2>5 DEF AfterActivity
    <3> HIDE DEF next
    <3> QED
      BY <2>1, <2>5, <3>1
  <2>6. CASE (Withdraws(c) \/ kind[c] = "MANUAL") /\ result[c] = "FAILED"
    <3>1. next = "failed"
      BY <2>6 DEF AfterActivity
    <3> HIDE DEF next
    <3> QED
      BY <2>1, <2>6, <3>1
  <2> QED
    BY <2>1, <2>2, <2>3, <2>4, <2>5, <2>6
<1>8. CASE StatementFails(c)
  BY <1>8 DEF StatementFails
<1>9. CASE Chain(c)
  BY <1>9 DEF Chain
<1>10. CASE HandleCreate(c) \/ HandleManual(c) \/ Refuse(c)
  BY <1>10 DEF HandleCreate, HandleManual, Refuse
<1> QED
  BY <1>1, <1>2, <1>3, <1>4, <1>5, <1>6, <1>7, <1>8, <1>9, <1>10 DEF Advance

LEMMA AskKept ==
  ASSUME CustodyInv, NEW c \in Calls, NEW k \in Kinds, NEW t \in Tokens \cup {NoToken},
         Ask(c, k, t), k \in Actions => t \in Tokens
  PROVE  CustodyInv'
<1> USE DEF GoTo, walletVars, verifyVars, recordVars
<1>1. RequestTypes' /\ OnlyOf(c) /\ UNCHANGED <<issued, authorised>>
  BY DEF Ask, CustodyInv, RequestTypes, OnlyOf, Places, Awaiting
<1>2. Kept(c)'
  BY DEF Ask, CustodyInv, RequestTypes, Kept, Route, Backed, Traced, Answered, Withdraws,
         Unsent, Allowed, Actions
<1>3. Consumed'
  <2>1. \A u \in Tokens : <<c, u>> \notin authorised
    BY DEF Ask, CustodyInv, Consumed, Unhandled
  <2> QED
    BY <1>1, <2>1 DEF CustodyInv, Consumed, OnlyOf
<1> QED
  BY <1>1, <1>2, <1>3, OthersKept DEF CustodyInv, Kept

\* Every request of the browser that needs a token is sent with one.
Asks(c) ==
  AskCreate(c) \/ AskExport(c) \/ AskWithdrawSOL(c) \/ AskWithdrawToken(c) \/ AskSell(c)

LEMMA AsksKept ==
  ASSUME CustodyInv, NEW c \in Calls, Asks(c)
  PROVE  CustodyInv'
<1>1. /\ panel["export"] \in Tokens \cup {NoToken}
      /\ panel["withdraw"] \in Tokens \cup {NoToken}
  BY DEF CustodyInv, RequestTypes
<1>2. PICK k \in Kinds, t \in Tokens \cup {NoToken} :
        Ask(c, k, t) /\ (k \in Actions => t \in Tokens)
  BY <1>1 DEF Asks, AskCreate, AskExport, AskWithdrawSOL, AskWithdrawToken, AskSell,
              ReadyToExport, ReadyToWithdraw, Kinds, Actions
<1> QED
  BY <1>2, AskKept

\* A verification is consumed.
LEMMA AuthoriseKept ==
  ASSUME CustodyInv, NEW c \in Calls, kind[c] \in Actions, NEW next \in {"activity", "guard"},
         IF next = "guard" THEN Withdraws(c) ELSE kind[c] = "EXPORT_WALLET",
         Authorise(c, next)
  PROVE  CustodyInv'
<1> DEFINE t == token[c]
<1>0. \/ Withdraws(c) /\ next = "guard"
      \/ kind[c] = "EXPORT_WALLET" /\ next = "activity"
  OBVIOUS
<1>1. t \in Tokens /\ at[c] = "sent" /\ t # NoToken
  BY CustodyAssumption DEF CustodyInv, Backed, Authorise
<1>2. /\ UNCHANGED <<kind, token, result, tx, pending, ledger, brokenOff, panel>>
      /\ issued' = AfterConsume(t)
      /\ authorised' = IF Verified(c) THEN authorised \cup {<<c, t>>} ELSE authorised
      /\ \E place \in {next, "refused"} :
           at' = [at EXCEPT ![c] = place] /\ (place = next => Verified(c))
  BY DEF Authorise, GoTo, requestVars, recordVars
<1>3. RequestTypes'
  <2>1. PICK place \in {next, "refused"} : at' = [at EXCEPT ![c] = place]
    BY <1>2
  <2>2. at' \in [Calls -> Places]
    BY <2>1 DEF CustodyInv, RequestTypes, Places, Awaiting, Answers
  <2>3. issued' \in [Tokens -> Actions \cup {"never", "gone"}]
    BY <1>2 DEF CustodyInv, RequestTypes, AfterConsume
  <2> QED
    BY <1>2, <2>2, <2>3 DEF CustodyInv, RequestTypes
<1>4. OnlyOf(c)
  BY <1>2 DEF CustodyInv, RequestTypes, OnlyOf
<1>5. Kept(c)'
  <2>1. tx[c] = "none" /\ result[c] = "none" /\ c \notin brokenOff
    BY <1>1 DEF CustodyInv, Route, Traced, Unsent
  <2>2. at'[c] \in {next, "refused"} /\ (at'[c] = next => <<c, t>> \in authorised')
    BY <1>2 DEF CustodyInv, RequestTypes
  <2> QED
    BY <1>0, <1>1, <1>2, <2>1, <2>2
    DEF Kept, Route, Backed, Traced, Answered, Withdraws, Unsent, Allowed, Actions
<1>6. Consumed'
  <2>0. issued \in [Tokens -> Actions \cup {"never", "gone"}] /\ at \in [Calls -> Places]
    BY DEF CustodyInv, RequestTypes
  <2>1. \A u \in Tokens : issued[u] = "gone" => issued'[u] = "gone"
    BY <1>2, <2>0 DEF AfterConsume
  <2>2. at'[c] \notin Unhandled /\ \A d \in Calls \ {c} : at'[d] = at[d]
    BY <1>2, <2>0 DEF Unhandled
  <2>3. CASE ~Verified(c)
    BY <1>2, <2>1, <2>2, <2>3 DEF CustodyInv, Consumed
  <2>4. CASE Verified(c)
    <3>1. issued[t] \in Actions
      BY <2>4 DEF Verified
    <3>2. \A d \in Calls : <<d, t>> \notin authorised
      BY <1>1, <3>1 DEF CustodyInv, Consumed, Actions
    <3>3. issued'[t] = "gone"
      BY <1>1, <1>2, <2>0, <3>1 DEF AfterConsume, Actions
    <3>4. authorised' = authorised \cup {<<c, t>>} /\ token' = token
      BY <1>2, <2>4
    <3> HIDE DEF t
    <3>5. /\ \A d \in Calls, u \in Tokens : <<d, u>> \in authorised' =>
               <<d, u>> \in authorised \/ (d = c /\ u = t)
          /\ authorised' \subseteq Calls \X Tokens
      BY <1>1, <3>4 DEF CustodyInv, Consumed
    <3>6. \A d \in Calls, u \in Tokens : <<d, u>> \in authorised' =>
            issued'[u] = "gone" /\ at'[d] \notin Unhandled /\ token'[d] = u
      BY <2>1, <2>2, <3>3, <3>4, <3>5 DEF CustodyInv, Consumed, t
    <3>7. \A d, e \in Calls, u \in Tokens :
            <<d, u>> \in authorised' /\ <<e, u>> \in authorised' => d = e
      BY <3>2, <3>5 DEF CustodyInv, Consumed
    <3> QED
      BY <3>5, <3>6, <3>7 DEF Consumed
  <2> QED
    BY <2>3, <2>4
<1> QED
  BY <1>3, <1>4, <1>5, <1>6, OthersKept DEF CustodyInv, Kept

\* What touches no request, and only makes a verification known or gone.
LEMMA TokensKept ==
  ASSUME CustodyInv, UNCHANGED <<kind, at, token, result, tx, pending, ledger, brokenOff>>,
         authorised' = authorised, RequestTypes',
         \A t \in Tokens : issued[t] = "gone" => issued'[t] = "gone"
  PROVE  CustodyInv'
BY DEF CustodyInv, Consumed, Route, Backed, Traced, Answered, Withdraws

LEMMA RestartKept ==
  ASSUME CustodyInv, Restart
  PROVE  CustodyInv'
<1> DEFINE Lost(c) == at[c] \in Awaiting
<1>1. /\ UNCHANGED <<kind, token, result, tx, pending, ledger, authorised, panel>>
      /\ issued' = [t \in Tokens |-> IF issued[t] = "never" THEN "never" ELSE "gone"]
      /\ at' = [c \in Calls |-> IF Lost(c) THEN "failed" ELSE at[c]]
      /\ \A c \in Calls : c \in brokenOff' <=> c \in brokenOff \/ (Lost(c) /\ tx[c] # "none")
      /\ brokenOff' \subseteq Calls
  BY DEF Restart, requestVars, CustodyInv, RequestTypes
<1>2. RequestTypes'
  BY <1>1 DEF CustodyInv, RequestTypes, Places, Answers
<1>3. Consumed'
  BY <1>1 DEF CustodyInv, Consumed, Unhandled, Actions, RequestTypes
<1>4. ASSUME NEW c \in Calls PROVE Kept(c)'
  <2>1. CASE Lost(c)
    <3>1. at'[c] = "failed" /\ (tx[c] # "none" => c \in brokenOff')
      BY <1>1, <2>1
    <3> QED
      BY <1>1, <3>1 DEF CustodyInv, Kept, Route, Backed, Traced, Answered, Withdraws,
                        Unsent, Allowed
  <2>2. CASE ~Lost(c)
    <3>1. at'[c] = at[c] /\ (c \in brokenOff' <=> c \in brokenOff)
      BY <1>1, <2>2
    <3> QED
      BY <1>1, <3>1 DEF CustodyInv, Kept, Route, Backed, Traced, Answered, Withdraws
  <2> QED
    BY <2>1, <2>2
<1> QED
  BY <1>2, <1>3, <1>4 DEF CustodyInv, Kept

LEMMA CustodyStep == CustodyInv /\ [CustodyNext]_custodyVars => CustodyInv'
<1> SUFFICES ASSUME CustodyInv, [CustodyNext]_custodyVars PROVE CustodyInv'
  OBVIOUS
<1> USE DEF walletVars, verifyVars, requestVars, recordVars
<1>1. ASSUME NEW c \in Calls, Advance(c) PROVE CustodyInv'
  BY <1>1, AdvanceOnly, AdvanceKept, StepOf
<1>2. ASSUME NEW c \in Calls, Asks(c) PROVE CustodyInv'
  BY <1>2, AsksKept
<1>3. ASSUME NEW c \in Calls, HandleExport(c) \/ HandleWithdrawal(c) PROVE CustodyInv'
  BY <1>3, AuthoriseKept DEF HandleExport, HandleWithdrawal, Withdraws, Actions
<1>4. ASSUME NEW c \in Calls, UpdateEncryption(c) \/ CacheMigrated(c) PROVE CustodyInv'
  BY <1>4, TokensKept DEF UpdateEncryption, CacheMigrated, CustodyInv, RequestTypes
<1>5. ASSUME NEW t \in Tokens, Expire(t) PROVE CustodyInv'
  BY <1>5, TokensKept DEF Expire, CustodyInv, RequestTypes
<1>6. ASSUME NEW t \in Tokens, NEW action \in Actions, Verify(t, action) PROVE CustodyInv'
  <2>1. RequestTypes'
    BY <1>6 DEF Verify, CustodyInv, RequestTypes
  <2> QED
    BY <1>6, <2>1, TokensKept DEF Verify, CustodyInv, RequestTypes
<1>7. CASE FetchWallet
  BY <1>7, TokensKept DEF FetchWallet, CustodyInv, RequestTypes
<1>8. CASE Restart
  BY <1>8, RestartKept
<1>9. CASE UNCHANGED custodyVars
  BY <1>9, TokensKept DEF custodyVars, CustodyInv, RequestTypes
<1> QED
  BY <1>1, <1>2, <1>3, <1>4, <1>5, <1>6, <1>7, <1>8, <1>9 DEF CustodyNext, Advance, Asks

LEMMA CustodyInvariant == CustodySpec => []CustodyInv
<1>1. CustodyInit => CustodyInv
  BY DEF CustodyInit, CustodyInv, RequestTypes, Consumed, Route, Backed, Traced, Answered,
         Withdraws, Kinds, Places, Actions, Unsent, Allowed
<1> QED
  BY <1>1, CustodyStep, PTL DEF CustodySpec

\* A verification lets one request act and no more, and nothing is revealed or
\* withdrawn without one, over crashes too (consume, and the routes that ask it).
THEOREM OneUse == CustodySpec => []VerifiedOnce
<1>1. CustodyInv => VerifiedOnce
  <2> SUFFICES ASSUME CustodyInv PROVE VerifiedOnce
    OBVIOUS
  <2>1. \A p, q \in authorised : p[2] = q[2] => p = q
    BY DEF CustodyInv, Consumed
  <2>2. \A c \in Calls : Acted(c) => <<c, token[c]>> \in authorised
    BY DEF CustodyInv, Backed, Acted, Allowed
  <2> QED
    BY <2>1, <2>2 DEF VerifiedOnce
<1> QED
  BY <1>1, CustodyInvariant, PTL

\* The transaction of a request told to be confirmed is on the chain, executed or
\* failed there, one told to be pending has its row, and one told to have failed
\* spends nothing unless something broke after its send (the withdrawal routes,
\* POST /trade/manual, confirmWithTimeout).
THEOREM TrueAnswers == CustodySpec => []AnswersHold
<1>1. CustodyInv => AnswersHold
  BY DEF CustodyInv, Answered, AnswersHold
<1> QED
  BY <1>1, CustodyInvariant, PTL

-----------------------------------------------------------------------------
(* The addresses: while no two creations overlap there is one key, in the  *)
(* row, in the cache and in whatever the user was told.                    *)

\* A key that is migrated, or could be, is the one that was there at first.
Legacy ==
  /\ migration \in [Calls -> {"none", "update", "updated"}]
  /\ rowLegacy \/ cacheLegacy \/ (\E c \in Calls : migration[c] # "none") => row = LegacyKey

Creates(c) == at[c] \in {"insert", "inserted"}

OneCreator == \A c, d \in Calls : Creates(c) /\ Creates(d) => c = d

\* Where a creation is tells what the row has.
RowOf(c) ==
  /\ at[c] = "insert" => row = NoKey
  /\ at[c] = "inserted" \/ (at[c] = "activity" /\ kind[c] = "CREATE") => row = c

\* The cache lags behind the row only between the two steps of a creation.
CacheAgrees == cached = row \/ (cached = NoKey /\ \E d \in Calls : at[d] = "inserted")

OneKey == OneCreator /\ (\A c \in Calls : RowOf(c)) /\ CacheAgrees /\ shown \subseteq {row} \ {NoKey}

AddressInv == Legacy /\ (~doubtful => OneKey)

\* A step that leaves the keys, and the creations under way, alone.
LEMMA KeysKept ==
  ASSUME AddressInv, UNCHANGED <<row, rowLegacy, cached, cacheLegacy, shown, doubtful>>,
         migration' \in [Calls -> {"none", "update", "updated"}],
         \A c \in Calls : migration'[c] # "none" => row = LegacyKey,
         \A c \in Calls : /\ Creates(c)' => at'[c] = at[c]
                          /\ at[c] = "inserted" => at'[c] = "inserted"
                          /\ at'[c] = "activity" /\ kind'[c] = "CREATE" =>
                               at[c] = "activity" /\ kind[c] = "CREATE"
  PROVE  AddressInv'
<1>1. Legacy'
  BY DEF AddressInv, Legacy
<1>2. ASSUME OneKey PROVE OneKey'
  BY <1>2 DEF OneKey, OneCreator, RowOf, CacheAgrees, Creates
<1>3. QED
  BY <1>1, <1>2 DEF AddressInv

\* The requests that are no creations, up to their last step but one.
LEMMA OthersKeepKeys ==
  ASSUME CustodyInv, AddressInv, NEW c \in Calls,
         \/ Asks(c) \/ Refuse(c) \/ PassGuard(c) \/ FailUnsent(c) \/ Send(c) \/ LoseSend(c)
         \/ Confirm(c) \/ RecordTrade(c) \/ InsertPending(c) \/ Touch(c)
         \/ StatementFails(c) \/ Chain(c)
  PROVE  AddressInv'
<1> USE DEF walletVars, verifyVars, requestVars, recordVars, GoTo, Creates
<1>0. /\ at \in [Calls -> Places] /\ kind \in [Calls -> Kinds]
      /\ Route(c) /\ Traced(c)
      /\ migration \in [Calls -> {"none", "update", "updated"}]
      /\ \A d \in Calls : migration[d] # "none" => row = LegacyKey
  BY DEF CustodyInv, RequestTypes, AddressInv, Legacy
<1>1. CASE Asks(c)
  BY <1>0, <1>1, KeysKept DEF Asks, AskCreate, AskExport, AskWithdrawSOL, AskWithdrawToken,
                              AskSell, Ask
<1>2. CASE Refuse(c) \/ PassGuard(c) \/ FailUnsent(c) \/ Send(c) \/ LoseSend(c) \/ Confirm(c)
  BY <1>0, <1>2, KeysKept DEF Refuse, PassGuard, FailUnsent, Send, LoseSend, Confirm
<1>3. CASE RecordTrade(c) \/ InsertPending(c) \/ Touch(c)
  <2>1. kind[c] # "CREATE"
    BY <1>0, <1>3 DEF RecordTrade, InsertPending, Touch, Route, Traced, Withdraws
  <2>2. QED
    BY <1>0, <1>3, <2>1, KeysKept DEF RecordTrade, InsertPending, Touch
<1>4. CASE StatementFails(c) \/ Chain(c)
  BY <1>0, <1>4, KeysKept DEF StatementFails, Chain
<1>5. QED
  BY <1>1, <1>2, <1>3, <1>4

\* Those that decrypt the key begin a migration only of the key that was there.
LEMMA DecryptKeepsKeys ==
  ASSUME CustodyInv, AddressInv, NEW c \in Calls,
         HandleExport(c) \/ HandleWithdrawal(c) \/ HandleManual(c)
  PROVE  AddressInv'
<1>1. /\ UNCHANGED <<row, rowLegacy, cached, cacheLegacy, shown, doubtful, kind>>
      /\ Decrypt(c) \/ UNCHANGED migration
      /\ \E place \in {"activity", "guard", "refused"} : at' = [at EXCEPT ![c] = place]
      /\ at[c] = "sent" /\ kind[c] # "CREATE"
  BY DEF HandleExport, HandleWithdrawal, HandleManual, Authorise, GoTo, requestVars, Withdraws
<1>2. /\ migration' \in [Calls -> {"none", "update", "updated"}]
      /\ \A d \in Calls : migration'[d] # "none" => row = LegacyKey
  BY <1>1 DEF AddressInv, Legacy, Decrypt
<1>3. at \in [Calls -> Places]
  BY DEF CustodyInv, RequestTypes
<1>4. QED
  BY <1>1, <1>2, <1>3, KeysKept DEF Creates

\* A creation that begins finds no key and no other creation, or is told the
\* key that is there.
LEMMA HandleCreateKeepsKeys ==
  ASSUME CustodyInv, AddressInv, NEW c \in Calls, HandleCreate(c) PROVE AddressInv'
<1>1. /\ UNCHANGED <<row, rowLegacy, cached, cacheLegacy, migration, kind>>
      /\ at[c] = "sent" /\ kind[c] = "CREATE" /\ at \in [Calls -> Places]
  BY DEF HandleCreate, requestVars, CustodyInv, RequestTypes
<1>2. Legacy'
  BY <1>1 DEF AddressInv, Legacy
<1>3. SUFFICES ASSUME ~doubtful' PROVE OneKey'
  BY <1>2 DEF AddressInv
<1>4. CASE HasWallet(cached)
  <2>1. /\ at' = [at EXCEPT ![c] = "created"] /\ shown' = shown \cup {cached}
        /\ UNCHANGED doubtful
    BY <1>4 DEF HandleCreate, GoTo
  <2>2. OneKey /\ cached = row /\ row # NoKey
    BY <1>3, <1>4, <2>1 DEF AddressInv, OneKey, CacheAgrees, HasWallet
  <2>3. QED
    BY <1>1, <2>1, <2>2 DEF OneKey, OneCreator, Creates, RowOf, CacheAgrees
<1>5. CASE ~HasWallet(cached)
  <2>1. /\ at' = [at EXCEPT ![c] = "insert"] /\ shown' = shown
        /\ doubtful' = (doubtful \/ BeginsCreating(c))
    BY <1>5 DEF HandleCreate, GoTo
  <2>2. OneKey /\ cached = NoKey /\ \A d \in Calls : ~Creates(d)
    BY <1>1, <1>3, <1>5, <2>1 DEF AddressInv, HasWallet, BeginsCreating, Creates
  <2>3. row = NoKey
    BY <2>2 DEF OneKey, CacheAgrees, Creates
  <2>4. QED
    BY <1>1, <2>1, <2>2, <2>3 DEF OneKey, OneCreator, Creates, RowOf, CacheAgrees
<1>6. QED
  BY <1>4, <1>5

\* The only creation there is makes the row, then the cache.
LEMMA InsertKeepsKeys ==
  ASSUME CustodyInv, AddressInv, NEW c \in Calls, InsertWallet(c) \/ LoseInsert(c)
  PROVE  AddressInv'
<1>1. /\ at[c] = "insert" /\ row' = (IF row = NoKey THEN c ELSE row)
      /\ \E place \in {"inserted", "failed"} : at' = [at EXCEPT ![c] = place]
      /\ LoseInsert(c) => doubtful'
      /\ UNCHANGED <<rowLegacy, cached, cacheLegacy, migration, shown, kind>>
      /\ at \in [Calls -> Places]
  BY DEF InsertWallet, LoseInsert, GoTo, requestVars, CustodyInv, RequestTypes
<1>2. NoKey # LegacyKey /\ \A d \in Calls : d # NoKey
  BY CustodyAssumption DEF Keys
<1>3. Legacy'
  BY <1>1, <1>2 DEF AddressInv, Legacy
<1>4. SUFFICES ASSUME ~doubtful', InsertWallet(c) PROVE OneKey'
  BY <1>1, <1>3 DEF AddressInv
<1>5. OneKey /\ at' = [at EXCEPT ![c] = "inserted"]
  BY <1>4 DEF AddressInv, InsertWallet, GoTo
<1>6. row = NoKey /\ row' = c
  BY <1>1, <1>5 DEF OneKey, RowOf
<1>7. \A d \in Calls : at[d] # "inserted" /\ ~(at[d] = "activity" /\ kind[d] = "CREATE")
  BY <1>2, <1>5, <1>6 DEF OneKey, RowOf
<1>8. cached = NoKey /\ shown = {}
  BY <1>5, <1>6 DEF OneKey, CacheAgrees
<1>9. \A d \in Calls \ {c} : at'[d] = at[d] /\ ~Creates(d)
  BY <1>1, <1>5 DEF OneKey, OneCreator, Creates
<1>10. at'[c] = "inserted"
  BY <1>1, <1>5
<1>11. OneCreator' /\ CacheAgrees'
  BY <1>1, <1>8, <1>9, <1>10 DEF OneCreator, Creates, CacheAgrees
<1>12. ASSUME NEW d \in Calls PROVE RowOf(d)'
  BY <1>1, <1>6, <1>7, <1>9, <1>10 DEF RowOf, Creates
<1>13. QED
  BY <1>1, <1>8, <1>11, <1>12 DEF OneKey

LEMMA CacheKeepsKeys ==
  ASSUME CustodyInv, AddressInv, NEW c \in Calls, CacheWallet(c) \/ LogActivity(c)
  PROVE  AddressInv'
<1>1. at \in [Calls -> Places] /\ Route(c) /\ Traced(c)
  BY DEF CustodyInv, RequestTypes
<1>2. CASE CacheWallet(c)
  <2>1. /\ at[c] = "inserted" /\ at' = [at EXCEPT ![c] = "activity"]
        /\ cached' = c /\ cacheLegacy' = FALSE
        /\ UNCHANGED <<row, rowLegacy, migration, shown, doubtful, kind>>
    BY <1>2 DEF CacheWallet, GoTo, requestVars
  <2>2. Legacy'
    BY <2>1 DEF AddressInv, Legacy
  <2>3. ASSUME OneKey PROVE OneKey'
    <3>1. row = c
      BY <2>1, <2>3 DEF OneKey, RowOf
    <3>2. QED
      BY <1>1, <2>1, <2>3, <3>1 DEF OneKey, OneCreator, Creates, RowOf, CacheAgrees
  <2>4. QED
    BY <2>1, <2>2, <2>3 DEF AddressInv
<1>3. CASE LogActivity(c)
  <2>1. /\ at[c] = "activity" /\ at' = [at EXCEPT ![c] = AfterActivity(c)]
        /\ shown' = (IF kind[c] = "CREATE" THEN shown \cup {c} ELSE shown)
        /\ UNCHANGED <<row, rowLegacy, cached, cacheLegacy, migration, doubtful, kind>>
    BY <1>3 DEF LogActivity, GoTo, requestVars
  <2>2. AfterActivity(c) \notin {"insert", "inserted", "activity"}
    BY DEF AfterActivity
  <2>3. Legacy'
    BY <2>1 DEF AddressInv, Legacy
  <2>4. ASSUME OneKey PROVE OneKey'
    <3>1. kind[c] = "CREATE" => row = c /\ c # NoKey
      BY <2>1, <2>4, CustodyAssumption DEF OneKey, RowOf, Keys
    <3>2. shown' \subseteq {row} \ {NoKey}
      BY <2>1, <2>4, <3>1 DEF OneKey
    <3>3. \A d \in Calls : at'[d] = at[d] \/ at'[d] \notin {"insert", "inserted", "activity"}
      BY <1>1, <2>1, <2>2
    <3>4. \A d \in Calls : at[d] = "inserted" => at'[d] = "inserted"
      BY <1>1, <2>1
    <3>5. OneCreator' /\ \A d \in Calls : RowOf(d)'
      BY <2>1, <2>4, <3>3 DEF OneKey, OneCreator, Creates, RowOf
    <3>6. CacheAgrees'
      BY <2>1, <2>4, <3>4 DEF OneKey, CacheAgrees
    <3>7. QED
      BY <2>1, <3>2, <3>5, <3>6 DEF OneKey
  <2>5. QED
    BY <2>1, <2>3, <2>4 DEF AddressInv
<1>4. QED
  BY <1>2, <1>3

LEMMA MigrationKeepsKeys ==
  ASSUME CustodyInv, AddressInv, NEW c \in Calls, UpdateEncryption(c) \/ CacheMigrated(c)
  PROVE  AddressInv'
<1>1. /\ UNCHANGED <<row, shown, doubtful, kind, at>>
      /\ row = LegacyKey
      /\ cached' \in {cached, row}
      /\ migration' \in [Calls -> {"none", "update", "updated"}]
  BY DEF UpdateEncryption, CacheMigrated, requestVars, AddressInv, Legacy
<1>2. QED
  BY <1>1 DEF AddressInv, Legacy, OneKey, OneCreator, Creates, RowOf, CacheAgrees

LEMMA RestartKeepsKeys ==
  ASSUME CustodyInv, AddressInv, Restart
  PROVE  AddressInv'
<1>1. /\ cached' = row /\ cacheLegacy' = rowLegacy /\ migration' = [c \in Calls |-> "none"]
      /\ at' = [c \in Calls |-> IF at[c] \in Awaiting THEN "failed" ELSE at[c]]
      /\ UNCHANGED <<row, rowLegacy, shown, doubtful, kind>>
  BY DEF Restart, requestVars
<1>2. Legacy'
  BY <1>1 DEF AddressInv, Legacy
<1>3. \A c \in Calls : at'[c] \notin {"insert", "inserted", "activity"}
  BY <1>1 DEF Awaiting
<1>4. QED
  BY <1>1, <1>2, <1>3 DEF AddressInv, OneKey, OneCreator, Creates, RowOf, CacheAgrees

LEMMA AddressStep == CustodyInv /\ AddressInv /\ [CustodyNext]_custodyVars => AddressInv'
<1> SUFFICES ASSUME CustodyInv, AddressInv, [CustodyNext]_custodyVars PROVE AddressInv'
  OBVIOUS
<1>1. ASSUME UNCHANGED <<walletVars, kind, at>> PROVE AddressInv'
  BY <1>1 DEF walletVars, AddressInv, Legacy, OneKey, OneCreator, Creates, RowOf, CacheAgrees
<1>2. ASSUME NEW c \in Calls,
             \/ Asks(c) \/ Refuse(c) \/ PassGuard(c) \/ FailUnsent(c) \/ Send(c) \/ LoseSend(c)
             \/ Confirm(c) \/ RecordTrade(c) \/ InsertPending(c) \/ Touch(c)
             \/ StatementFails(c) \/ Chain(c)
      PROVE  AddressInv'
  BY <1>2, OthersKeepKeys
<1>3. ASSUME NEW c \in Calls,
             \/ HandleExport(c) \/ HandleWithdrawal(c) \/ HandleManual(c)
             \/ HandleCreate(c) \/ InsertWallet(c) \/ LoseInsert(c)
             \/ CacheWallet(c) \/ LogActivity(c) \/ UpdateEncryption(c) \/ CacheMigrated(c)
      PROVE  AddressInv'
  BY <1>3, DecryptKeepsKeys, HandleCreateKeepsKeys, InsertKeepsKeys, CacheKeepsKeys,
     MigrationKeepsKeys
<1>4. ASSUME NEW t \in Tokens, Expire(t) \/ \E action \in Actions : Verify(t, action)
      PROVE  AddressInv'
  BY <1>1, <1>4 DEF Expire, Verify, requestVars
<1>5. CASE FetchWallet
  <2>1. /\ cached # NoKey /\ shown' = shown \cup {cached}
        /\ UNCHANGED <<row, rowLegacy, cached, cacheLegacy, migration, doubtful, kind, at>>
    BY <1>5 DEF FetchWallet, requestVars
  <2>2. QED
    BY <2>1 DEF AddressInv, Legacy, OneKey, OneCreator, Creates, RowOf, CacheAgrees
<1>6. CASE Restart
  BY <1>6, RestartKeepsKeys
<1>7. CASE UNCHANGED custodyVars
  BY <1>1, <1>7 DEF custodyVars, requestVars
<1>8. QED
  BY <1>2, <1>3, <1>4, <1>5, <1>6, <1>7 DEF CustodyNext, Asks

\* Whatever address the user was told has its key in the table, over crashes and
\* migrations too, unless two creations overlapped or an executed insert was
\* taken to have failed (createWallet, getWalletInfo, migrateLegacyEncryption).
THEOREM NoAddressLost == CustodySpec => []AddressesKept
<1>1. CustodyInit => AddressInv
  <2>1. SUFFICES ASSUME CustodyInit PROVE AddressInv
    OBVIOUS
  <2>2. rowLegacy \/ cacheLegacy => row = LegacyKey
    <3>1. SUFFICES ASSUME row # LegacyKey PROVE ~rowLegacy /\ ~cacheLegacy
      OBVIOUS
    <3>2. rowLegacy = (row = LegacyKey) /\ cacheLegacy = rowLegacy
      BY <2>1 DEF CustodyInit
    <3>3. rowLegacy = FALSE
      BY <3>1, <3>2
    <3>4. QED
      BY <3>2, <3>3
  <2>3. /\ cached = row /\ shown = {} /\ migration = [c \in Calls |-> "none"]
        /\ at = [c \in Calls |-> "new"]
    BY <2>1 DEF CustodyInit
  <2>4. QED
    BY <2>2, <2>3 DEF AddressInv, Legacy, OneKey, OneCreator, Creates, RowOf, CacheAgrees
<1>2. AddressInv => AddressesKept
  BY DEF AddressInv, OneKey, AddressesKept
<1>3. QED
  BY <1>1, <1>2, CustodyInvariant, AddressStep, PTL DEF CustodySpec
=============================================================================
