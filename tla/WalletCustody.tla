--------------------------- MODULE WalletCustody ----------------------------
(***************************************************************************)
(* The trading wallet of one user: how it comes to be, how its key is      *)
(* moved to the newer encryption, and the requests that reveal the key or  *)
(* spend with it (walletManager.ts, sensitiveActionManager.ts, the wallet  *)
(* routes and POST /trade/manual of index.ts), with the browser that sends *)
(* them (useWallet.ts, WalletPanel.tsx).                                   *)
(*                                                                         *)
(* Each request is a process that interleaves at its awaits: an awaited    *)
(* statement or call of the node is executed, fails, or fails after it was *)
(* executed only where that matters (a send whose answer is lost).  The    *)
(* process can crash between any two steps; a statement under way is then  *)
(* executed or never will be.                                              *)
(*                                                                         *)
(* A key is named after the request that generated it, and an encrypted    *)
(* key is the key it decrypts to.  Amounts, balances and addresses are     *)
(* left to WalletFunds; guards that only look at them may refuse.          *)
(***************************************************************************)
EXTENDS Naturals, FiniteSets

CONSTANTS
  Calls,        \* the requests of the browser
  Tokens,       \* the verification tokens that can be issued
  LegacyKey,    \* a key stored before encryption version 2
  NoKey, NoToken,
  MaxRestarts   \* bound: how often the process crashes

Keys == Calls \cup {LegacyKey}

ASSUME CustodyAssumption ==
  /\ LegacyKey \notin Calls /\ NoKey \notin Keys
  /\ NoToken \notin Tokens
  /\ MaxRestarts \in Nat

VARIABLES
  row,         \* the row of table wallets: its key
  rowLegacy,   \* whether the row's encryption_version is 1
  cached,      \* WalletManager.cache: the key of the user's record
  cacheLegacy,
  migration,   \* migrateLegacyEncryption, as each request started it
  issued,      \* SensitiveActionManager.verifications: the action of each token
  panel,       \* the tokens WalletPanel holds: for the export, for withdrawals
  kind, at, token,  \* each request: what it asks, where it is, what it carries
  result,      \* what the confirmation poll of its transaction said
  tx,          \* what became of its transaction
  pending,     \* rows of pending_transactions
  ledger,      \* rows of trade_executions
  shown,       \* public keys the user was told to be theirs
  restarts,
  authorised,  \* history: <<request, token>> that passed a verification
  doubtful,    \* history: a creation began while another was under way, or one
               \* was told that an insert failed that had been executed
  brokenOff    \* history: requests something failed for after their send

walletVars  == <<row, rowLegacy, cached, cacheLegacy, migration, shown, doubtful>>
verifyVars  == <<issued, panel, authorised>>
requestVars == <<kind, token>>
recordVars  == <<pending, ledger, brokenOff>>
custodyVars == <<walletVars, verifyVars, requestVars, at, result, tx,
                 recordVars, restarts>>

Actions == {"EXPORT_WALLET", "WITHDRAW_SOL", "WITHDRAW_TOKEN"}
Kinds   == Actions \cup {"CREATE", "MANUAL"}

\* Where a request is: the first ones await what they are named after.
Awaiting == {"sent", "insert", "inserted", "guard", "build", "confirm",
             "ledger", "pending", "touch", "activity"}
Answers  == {"created", "exported", "confirmed", "pending202", "refused", "failed"}

CustodyInit ==
  /\ row \in {NoKey, LegacyKey} /\ cached = row
  /\ rowLegacy = (row = LegacyKey) /\ cacheLegacy = rowLegacy
  /\ migration = [c \in Calls |-> "none"]
  /\ issued = [t \in Tokens |-> "never"]
  /\ panel = [slot \in {"export", "withdraw"} |-> NoToken]
  /\ kind = [c \in Calls |-> "CREATE"] /\ at = [c \in Calls |-> "new"]
  /\ token = [c \in Calls |-> NoToken]
  /\ result = [c \in Calls |-> "none"] /\ tx = [c \in Calls |-> "none"]
  /\ pending = {} /\ ledger = {}
  /\ shown = {} /\ restarts = 0
  /\ authorised = {} /\ doubtful = FALSE /\ brokenOff = {}

GoTo(c, place) == at' = [at EXCEPT ![c] = place]
Withdraws(c)   == kind[c] \in {"WITHDRAW_SOL", "WITHDRAW_TOKEN"}

-----------------------------------------------------------------------------
(* The browser                                                             *)

Ask(c, k, t) ==
  /\ at[c] = "new"
  /\ GoTo(c, "sent")
  /\ kind' = [kind EXCEPT ![c] = k]
  /\ token' = [token EXCEPT ![c] = t]
  /\ UNCHANGED <<walletVars, verifyVars, result, tx, recordVars, restarts>>

\* createWallet of useWallet; its button is shown while there is no wallet, and
\* another tab's panel may show it too.
AskCreate(c) == Ask(c, "CREATE", NoToken)

\* revealExport and validateWithdraw ask for a token first, and keep it after.
ReadyToExport   == panel["export"] # NoToken
ReadyToWithdraw == panel["withdraw"] # NoToken

AskExport(c) == ReadyToExport /\ Ask(c, "EXPORT_WALLET", panel["export"])

AskWithdrawSOL(c) == ReadyToWithdraw /\ Ask(c, "WITHDRAW_SOL", panel["withdraw"])

\* The hook has this one too, though no button of the panel leads to it.
AskWithdrawToken(c) == ReadyToWithdraw /\ Ask(c, "WITHDRAW_TOKEN", panel["withdraw"])

\* executeSell of a token's row.
AskSell(c) == Ask(c, "MANUAL", NoToken)

\* Where verifySensitive keeps what it got: one slot for both withdrawals.
SlotOf(action) == IF action = "EXPORT_WALLET" THEN "export" ELSE "withdraw"

\* The panel asks for a verification, and its route issues one.
Verify(t, action) ==
  /\ issued[t] = "never"
  /\ issued' = [issued EXCEPT ![t] = action]
  /\ panel' = [panel EXCEPT ![SlotOf(action)] = t]
  /\ UNCHANGED <<walletVars, authorised, requestVars, at, result, tx,
                 recordVars, restarts>>

\* fetchWallet, answered by getWalletInfo from the cached record.
FetchWallet ==
  /\ cached # NoKey
  /\ shown' = shown \cup {cached}
  /\ UNCHANGED <<row, rowLegacy, cached, cacheLegacy, migration, doubtful, verifyVars,
                 requestVars, at, result, tx, recordVars, restarts>>

-----------------------------------------------------------------------------
(* SensitiveActionManager                                                  *)

\* Mutant: a token is looked up and left where it is.
Mut_AfterConsume(t) == issued

\* consume deletes the entry it finds, whatever it then says of it.
AfterConsume(t) == [issued EXCEPT ![t] = IF @ = "never" THEN @ ELSE "gone"]

Verified(c) == issued[token[c]] = kind[c]

\* Ten minutes after it was issued a token is of no use: consume compares
\* expiresAt, and cleanup deletes the entry at its next turn.
Expire(t) ==
  /\ issued[t] \in Actions
  /\ issued' = [issued EXCEPT ![t] = "gone"]
  /\ UNCHANGED <<walletVars, panel, authorised, requestVars, at, result, tx,
                 recordVars, restarts>>

-----------------------------------------------------------------------------
(* createWallet                                                            *)

\* Mutant: the record that is there already is not looked for.
Mut_HasWallet(key) == FALSE

HasWallet(key) == key # NoKey

BeginsCreating(c) == \E d \in Calls \ {c} : at[d] \in {"insert", "inserted"}

\* Up to the insert; a user who has a wallet is told its key.
HandleCreate(c) ==
  /\ at[c] = "sent" /\ kind[c] = "CREATE"
  /\ \/ /\ HasWallet(cached)
        /\ shown' = shown \cup {cached}
        /\ GoTo(c, "created")
        /\ UNCHANGED doubtful
     \/ /\ ~HasWallet(cached)
        /\ doubtful' = (doubtful \/ BeginsCreating(c))
        /\ GoTo(c, "insert")
        /\ UNCHANGED shown
  /\ UNCHANGED <<row, rowLegacy, cached, cacheLegacy, migration, verifyVars,
                 requestVars, result, tx, recordVars, restarts>>

\* INSERT ... ON CONFLICT (user_id) DO NOTHING.
InsertWallet(c) ==
  /\ at[c] = "insert"
  /\ row' = IF row = NoKey THEN c ELSE row
  /\ GoTo(c, "inserted")
  /\ UNCHANGED <<rowLegacy, cached, cacheLegacy, migration, shown, doubtful, verifyVars,
                 requestVars, result, tx, recordVars, restarts>>

\* The insert is executed and the connection breaks before its answer.
LoseInsert(c) ==
  /\ at[c] = "insert"
  /\ row' = IF row = NoKey THEN c ELSE row
  /\ doubtful' = TRUE
  /\ GoTo(c, "failed")
  /\ UNCHANGED <<rowLegacy, cached, cacheLegacy, migration, shown, verifyVars,
                 requestVars, result, tx, recordVars, restarts>>

\* After the insert, whatever it did.
CacheWallet(c) ==
  /\ at[c] = "inserted"
  /\ cached' = c /\ cacheLegacy' = FALSE
  /\ GoTo(c, "activity")
  /\ UNCHANGED <<row, rowLegacy, migration, shown, doubtful, verifyVars,
                 requestVars, result, tx, recordVars, restarts>>

-----------------------------------------------------------------------------
(* getKeypair and migrateLegacyEncryption                                  *)

\* A key of the old encryption is encrypted anew, by a task nobody awaits.
\* (A withdrawal asks for its key twice; the second task would write the same.)
Decrypt(c) ==
  migration' = IF cacheLegacy THEN [migration EXCEPT ![c] = "update"] ELSE migration

\* updateEncryption, which leaves the public key alone.
UpdateEncryption(c) ==
  /\ migration[c] = "update"
  /\ \/ rowLegacy' = FALSE /\ migration' = [migration EXCEPT ![c] = "updated"]
     \/ UNCHANGED rowLegacy /\ migration' = [migration EXCEPT ![c] = "none"]
  /\ UNCHANGED <<row, cached, cacheLegacy, shown, doubtful, verifyVars, requestVars, at,
                 result, tx, recordVars, restarts>>

\* The record the task was given, of which there is one per user and process,
\* goes back into the cache under its new version.
CacheMigrated(c) ==
  /\ migration[c] = "updated"
  /\ cached' = LegacyKey /\ cacheLegacy' = FALSE
  /\ migration' = [migration EXCEPT ![c] = "none"]
  /\ UNCHANGED <<row, rowLegacy, shown, doubtful, verifyVars, requestVars, at,
                 result, tx, recordVars, restarts>>

-----------------------------------------------------------------------------
(* The routes that need a verification                                     *)

\* The checks before consume: confirmText, the amount, the address.
Refuse(c) ==
  /\ at[c] \in {"sent", "guard"} /\ kind[c] # "CREATE"
  /\ GoTo(c, "refused")
  /\ UNCHANGED <<walletVars, verifyVars, requestVars, result, tx, recordVars, restarts>>

\* consume and what a route does before its first await: 401, 404 or on.
Authorise(c, next) ==
  /\ at[c] = "sent"
  /\ issued' = AfterConsume(token[c])
  /\ authorised' = IF Verified(c) THEN authorised \cup {<<c, token[c]>>} ELSE authorised
  /\ IF Verified(c) /\ cached # NoKey
     THEN GoTo(c, next) /\ Decrypt(c)
     ELSE GoTo(c, "refused") /\ UNCHANGED migration
  /\ UNCHANGED <<row, rowLegacy, cached, cacheLegacy, shown, doubtful, panel,
                 requestVars, result, tx, recordVars, restarts>>

\* The key is decrypted, the export is logged, then the key is answered.
HandleExport(c) == kind[c] = "EXPORT_WALLET" /\ Authorise(c, "activity")

\* A withdrawal awaits its balance check next.
HandleWithdrawal(c) == Withdraws(c) /\ Authorise(c, "guard")

\* POST /trade/manual: no verification.
HandleManual(c) ==
  /\ at[c] = "sent" /\ kind[c] = "MANUAL" /\ cached # NoKey
  /\ GoTo(c, "guard")
  /\ Decrypt(c)
  /\ UNCHANGED <<row, rowLegacy, cached, cacheLegacy, shown, doubtful, verifyVars,
                 requestVars, result, tx, recordVars, restarts>>

\* The balance, and the quote of a trade, say that it may go on.
PassGuard(c) ==
  /\ at[c] = "guard"
  /\ GoTo(c, "build")
  /\ UNCHANGED <<walletVars, verifyVars, requestVars, result, tx, recordVars, restarts>>

-----------------------------------------------------------------------------
(* withdrawSOL, withdrawToken and executeTrade                             *)

\* Nothing was sent: the blockhash, the mint, the quote or the preflight failed.
\* A trade records that, a withdrawal answers 500.
FailUnsent(c) ==
  /\ at[c] = "build"
  /\ result' = [result EXCEPT ![c] = "FAILED"]
  /\ GoTo(c, IF kind[c] = "MANUAL" THEN "ledger" ELSE "failed")
  /\ UNCHANGED <<walletVars, verifyVars, requestVars, tx, recordVars, restarts>>

Send(c) ==
  /\ at[c] = "build"
  /\ tx' = [tx EXCEPT ![c] = "air"]
  /\ GoTo(c, "confirm")
  /\ UNCHANGED <<walletVars, verifyVars, requestVars, result, recordVars, restarts>>

\* The node took the transaction and its answer was lost: as if not sent.
LoseSend(c) ==
  /\ at[c] = "build"
  /\ tx' = [tx EXCEPT ![c] = "air"]
  /\ brokenOff' = brokenOff \cup {c}
  /\ result' = [result EXCEPT ![c] = "FAILED"]
  /\ GoTo(c, IF kind[c] = "MANUAL" THEN "ledger" ELSE "failed")
  /\ UNCHANGED <<walletVars, verifyVars, requestVars, pending, ledger, restarts>>

\* Mutant: an error the poll sees counts as an end of the transaction.
Mut_Polled(c) == IF tx[c] = "air" THEN {"PENDING", "CONFIRMED"} ELSE {"CONFIRMED"}

\* confirmWithTimeout of either class.  Its deadline may pass before anything is
\* seen.  The node reports a confirmation also of a transaction that failed, and
\* its error alone before that: an error ends a trade, and leaves a withdrawal
\* to the checker.
Polled(c) ==
  {"PENDING"} \cup (IF tx[c] \in {"landed", "reverted"} THEN {"CONFIRMED"} ELSE {})
              \cup (IF tx[c] = "reverted" /\ kind[c] = "MANUAL" THEN {"FAILED"} ELSE {})

\* Where each goes from there: a trade to its record; a withdrawal to its
\* pending row, or to touch.
Confirm(c) ==
  /\ at[c] = "confirm"
  /\ \E polled \in Polled(c) :
       /\ result' = [result EXCEPT ![c] = polled]
       /\ GoTo(c, IF kind[c] = "MANUAL" THEN "ledger"
                  ELSE IF polled = "PENDING" THEN "pending" ELSE "touch")
  /\ UNCHANGED <<walletVars, verifyVars, requestVars, tx, recordVars, restarts>>

-----------------------------------------------------------------------------
(* What is written down                                                    *)

\* tradeExecutionRepo.insert; a trade with a hash is logged next.
RecordTrade(c) ==
  /\ at[c] = "ledger"
  /\ ledger' = ledger \cup {c}
  /\ GoTo(c, IF tx[c] # "none" /\ c \notin brokenOff THEN "activity" ELSE "failed")
  /\ UNCHANGED <<walletVars, verifyVars, requestVars, result, tx, pending, brokenOff, restarts>>

\* pendingTxRepo.insert: a trade's last step, a withdrawal's last but one.
InsertPending(c) ==
  /\ at[c] = "pending"
  /\ pending' = pending \cup {c}
  /\ GoTo(c, IF kind[c] = "MANUAL" THEN "pending202" ELSE "activity")
  /\ UNCHANGED <<walletVars, verifyVars, requestVars, result, tx, ledger, brokenOff,
                 restarts>>

Touch(c) ==
  /\ at[c] = "touch"
  /\ GoTo(c, "activity")
  /\ UNCHANGED <<walletVars, verifyVars, requestVars, result, tx, recordVars, restarts>>

\* Where a request goes once its activity row is there.
AfterActivity(c) ==
  CASE kind[c] = "CREATE" -> "created"
    [] kind[c] = "EXPORT_WALLET" -> "exported"
    [] result[c] = "CONFIRMED" -> "confirmed"
    [] result[c] = "PENDING" -> IF kind[c] = "MANUAL" THEN "pending" ELSE "pending202"
    [] OTHER -> "failed"

\* walletActivityRepo.insert, of every kind of request.
LogActivity(c) ==
  /\ at[c] = "activity"
  /\ GoTo(c, AfterActivity(c))
  /\ shown' = IF kind[c] = "CREATE" THEN shown \cup {c} ELSE shown
  /\ UNCHANGED <<row, rowLegacy, cached, cacheLegacy, migration, doubtful, verifyVars,
                 requestVars, result, tx, pending, ledger, brokenOff, restarts>>

\* A statement fails, or the poll of a withdrawal cannot reach the node (that of
\* a trade asks again): the request answers 500.
StatementFails(c) ==
  /\ \/ at[c] \in {"insert", "ledger", "pending", "touch", "activity"}
     \/ at[c] = "confirm" /\ Withdraws(c)
  /\ GoTo(c, "failed")
  /\ brokenOff' = IF tx[c] = "none" THEN brokenOff ELSE brokenOff \cup {c}
  /\ UNCHANGED <<walletVars, verifyVars, requestVars, result, tx, pending, ledger, restarts>>

-----------------------------------------------------------------------------
(* The chain, and the process                                              *)

\* A transaction is executed or fails there; one that is forgotten stays in the air.
Chain(c) ==
  /\ tx[c] = "air"
  /\ \E outcome \in {"landed", "reverted"} : tx' = [tx EXCEPT ![c] = outcome]
  /\ UNCHANGED <<walletVars, verifyVars, requestVars, at, result, recordVars, restarts>>

\* The process dies and starts anew: initialize reads the table, the
\* verifications and everything under way are lost.
Restart ==
  LET lost == {c \in Calls : at[c] \in Awaiting} IN
  /\ restarts < MaxRestarts
  /\ restarts' = restarts + 1
  /\ cached' = row /\ cacheLegacy' = rowLegacy
  /\ migration' = [c \in Calls |-> "none"]
  /\ issued' = [t \in Tokens |-> IF issued[t] = "never" THEN "never" ELSE "gone"]
  /\ at' = [c \in Calls |-> IF c \in lost THEN "failed" ELSE at[c]]
  /\ brokenOff' = brokenOff \cup {c \in lost : tx[c] # "none"}
  /\ UNCHANGED <<row, rowLegacy, shown, doubtful, panel, authorised, requestVars,
                 result, tx, pending, ledger>>

CustodyNext ==
  \/ \E c \in Calls :
       \/ AskCreate(c) \/ AskExport(c) \/ AskWithdrawSOL(c) \/ AskWithdrawToken(c) \/ AskSell(c)
       \/ HandleCreate(c) \/ InsertWallet(c) \/ LoseInsert(c) \/ CacheWallet(c)
       \/ UpdateEncryption(c) \/ CacheMigrated(c)
       \/ Refuse(c) \/ HandleExport(c) \/ HandleWithdrawal(c) \/ HandleManual(c)
       \/ PassGuard(c) \/ FailUnsent(c) \/ Send(c) \/ LoseSend(c) \/ Confirm(c)
       \/ RecordTrade(c) \/ InsertPending(c) \/ Touch(c) \/ LogActivity(c)
       \/ StatementFails(c) \/ Chain(c)
  \/ \E t \in Tokens : Expire(t) \/ \E action \in Actions : Verify(t, action)
  \/ FetchWallet \/ Restart

CustodySpec == CustodyInit /\ [][CustodyNext]_custodyVars

-----------------------------------------------------------------------------
(* Properties                                                              *)

CustodyTypeOK ==
  /\ row \in Keys \cup {NoKey} /\ cached \in Keys \cup {NoKey}
  /\ rowLegacy \in BOOLEAN /\ cacheLegacy \in BOOLEAN /\ doubtful \in BOOLEAN
  /\ migration \in [Calls -> {"none", "update", "updated"}]
  /\ issued \in [Tokens -> Actions \cup {"never", "gone"}]
  /\ panel \in [{"export", "withdraw"} -> Tokens \cup {NoToken}]
  /\ kind \in [Calls -> Kinds]
  /\ at \in [Calls -> Awaiting \cup Answers \cup {"new"}]
  /\ token \in [Calls -> Tokens \cup {NoToken}]
  /\ result \in [Calls -> {"none", "CONFIRMED", "PENDING", "FAILED"}]
  /\ tx \in [Calls -> {"none", "air", "landed", "reverted"}]
  /\ pending \subseteq Calls /\ ledger \subseteq Calls
  /\ brokenOff \subseteq Calls
  /\ shown \subseteq Keys
  /\ restarts \in 0 .. MaxRestarts
  /\ authorised \subseteq Calls \X Tokens

\* What a verification is for: the key was revealed, or a withdrawal was sent.
Acted(c) ==
  /\ kind[c] \in Actions
  /\ at[c] = "exported" \/ tx[c] # "none"

\* A verification lets one request act and no more, however many were sent with
\* it (the panel keeps the token it has used), before or after a restart; and
\* no key is revealed and nothing withdrawn without one (consume).
VerifiedOnce ==
  /\ \A p, q \in authorised : p[2] = q[2] => p = q
  /\ \A c \in Calls : Acted(c) => <<c, token[c]>> \in authorised

\* Every address the user was told to be theirs has its key in the table, also
\* after a restart, so what is paid to it can be spent (createWallet,
\* migrateLegacyEncryption).  Not so once two creations overlapped or an insert
\* was executed and its answer lost: the second key is then cached and shown
\* although the row has the first.
AddressesKept == ~doubtful => shown \subseteq {row}

\* What a request was answered holds: the transaction of one told to be confirmed
\* is on the chain, executed or failed there (the poll looks at the status before
\* it looks at the error, so the answer does not tell which); one told to be
\* pending has the row the checker looks for, and one told to have failed or been
\* refused spends nothing, unless something failed after its send (the withdrawal
\* routes, POST /trade/manual, confirmWithTimeout).
AnswersHold ==
  \A c \in Calls :
    /\ at[c] = "confirmed" => tx[c] \in {"landed", "reverted"}
    /\ at[c] = "pending202" => c \in pending
    /\ kind[c] = "MANUAL" /\ at[c] \in {"confirmed", "pending202"} => c \in ledger
    /\ at[c] \in {"failed", "refused"} /\ tx[c] \in {"air", "landed"} => c \in brokenOff
=============================================================================
