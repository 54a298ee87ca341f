-------------------------- MODULE TransactionParser --------------------------
(***************************************************************************)
(* What a transaction is taken for: the event read off its logs            *)
(* (parseHeuristic and shouldEnrich of                                     *)
(* ingestion/public-rpc-provider.ts), and the event made of its parsed     *)
(* form (ingestion/transaction-parser.ts).                                 *)
(*                                                                         *)
(* Amounts are whole numbers of one unit; symbols, slots, program          *)
(* identifiers, decimals and time stamps are left out.  The fee payer is   *)
(* the first account, so there always is a signer.                         *)
(***************************************************************************)
EXTENDS Integers, Sequences, FiniteSets, SequencesExt

CONSTANTS
  Wallets,       \* addresses that sign, own and send
  Mints, Sol,    \* tokens, and among them wrapped SOL
  Program,       \* the descriptor of a subscription to a program
  Absent,        \* a field that is not there
  Transactions,  \* what the node may tell of
  Settings       \* what may be watched when it does

\* What a token account holds that does not exist: it is in no list of balances.
Closed == -1

TokenAccount ==
  [owner : Wallets, mint : Mints, pre : Nat \cup {Closed}, post : Nat \cup {Closed}]

\* The ends of a token's transfer are token accounts, which are no wallets.
Instruction ==
  [kind : {"SOL"}, source : Wallets, destination : Wallets, mint : {Absent}, amount : Nat]
    \cup [kind : {"TOKEN", "DEX"}, source : {Absent}, destination : {Absent},
          mint : Mints \cup {Absent}, amount : Nat]

ASSUME ParserAssumption ==
  /\ Sol \in Mints
  /\ Program \notin Wallets /\ Absent \notin Wallets \cup Mints
  /\ \A t \in Transactions : /\ t.keys \in Seq(Wallets) /\ t.keys # <<>>
                            /\ t.accounts \in Seq(TokenAccount)
                            /\ t.instructions \in Seq(Instruction)
  /\ \A s \in Settings : s.watched \subseteq Wallets

VARIABLES
  tx,           \* a transaction: logs, keys, accounts with balances, instructions
  via,          \* whose subscription the notification came by
  settings,     \* watchedWallets, trackedTokenMints, watchLargeTransfers
  stage,        \* "logs", "parsing" or "emitted"
  parsedEvent   \* the event, as far as it is made

parserVars == <<tx, via, settings, stage, parsedEvent>>

-----------------------------------------------------------------------------
(* The logs                                                                *)

\* What the logs say: the programs in them, the address taken for a mint (the one
\* that is named as such, else the one mentioned most often), the amount.
ParseHeuristic(logs) ==
  LET type == IF logs.dex THEN "SWAP" ELSE IF logs.system THEN "TRANSFER" ELSE "UNKNOWN" IN
  [type |-> type, direction |-> type,
   wallet |-> IF via = Program THEN Absent ELSE via,
   mint |-> logs.mint, amount |-> logs.amount, sol |-> Absent,
   confidence |-> IF via # Program \/ logs.amount # Absent THEN "MEDIUM" ELSE "LOW"]

ShouldEnrich(e) ==
  \/ via # Program
  \/ e.type = "TRANSFER" /\ settings.large
  \/ /\ e.type = "SWAP"
     /\ settings.watched # {} \/ (settings.tracked # {} /\ e.mint \in settings.tracked \cup {Absent})

-----------------------------------------------------------------------------
(* The balances                                                            *)

Before == [i \in DOMAIN tx.accounts |-> tx.accounts[i].pre]
After  == [i \in DOMAIN tx.accounts |-> tx.accounts[i].post]

\* The accounts of a wallet and a mint that a list of balances has.
Listed(held, w, m) ==
  {i \in DOMAIN tx.accounts :
     tx.accounts[i].owner = w /\ tx.accounts[i].mint = m /\ held[i] # Closed}

\* What a list leaves in the map's entry: the last of several, or zero.
LastOf(held, w, m) ==
  IF Listed(held, w, m) = {} THEN 0 ELSE held[Max(Listed(held, w, m))]

\* Mutant: an account that is closed is passed over.
Mut_RawDelta(w, m) ==
  IF Listed(After, w, m) = {} THEN 0 ELSE LastOf(After, w, m) - LastOf(Before, w, m)

RawDelta(w, m) == LastOf(After, w, m) - LastOf(Before, w, m)

\* The mints in collectTokenDeltas of one owner.
DeltasOf(w) == {m \in Mints : RawDelta(w, m) # 0}

\* Where the map has the entry: in the order in which the lists first name it.
Place(w, m) ==
  IF Listed(Before, w, m) # {} THEN Min(Listed(Before, w, m))
  ELSE Len(tx.accounts) + Min(Listed(After, w, m))

Size(n) == IF n < 0 THEN -n ELSE n

\* The first of the mints with the greatest amount, as the sort has them.
Dominant(w, mints) ==
  LET greatest == {m \in mints : \A k \in mints : Size(RawDelta(w, k)) <= Size(RawDelta(w, m))}
  IN CHOOSE m \in greatest : \A k \in greatest : Place(w, m) <= Place(w, k)

-----------------------------------------------------------------------------
(* The wallet, the program and the transfer                                *)

InKeys(w)  == Contains(tx.keys, w)
OwnsSome(w) == \E i \in DOMAIN tx.accounts : tx.accounts[i].owner = w

\* preferredWallet, else a watched wallet among the accounts, else among the
\* owners, in the order in which they came to be watched; else the fee payer.
MatchedWallets ==
  LET there == {w \in settings.watched : InKeys(w)}
      owning == {w \in settings.watched : OwnsSome(w)}
  IN IF via # Program THEN {via}
     ELSE IF there # {} THEN there
     ELSE IF owning # {} THEN owning ELSE {tx.keys[1]}

HasDex ==
  tx.logs.dex \/ \E i \in DOMAIN tx.instructions : tx.instructions[i].kind = "DEX"

Transfers == {i \in DOMAIN tx.instructions : tx.instructions[i].kind \in {"SOL", "TOKEN"}}

\* Mutant: the first transfer of the transaction.
Mut_PickTransfer(w) == tx.instructions[Min(Transfers)]

PickTransfer(w) ==
  LET own == {i \in Transfers : w \in {tx.instructions[i].source, tx.instructions[i].destination}}
  IN tx.instructions[Min(IF own = {} THEN Transfers ELSE own)]

-----------------------------------------------------------------------------
(* enrichEventFromParsedTransaction                                        *)

Swapped(base, w) ==
  LET sol    == RawDelta(w, Sol)
      tokens == DeltasOf(w) \ {Sol}
      risen  == {m \in tokens : RawDelta(w, m) > 0}
      fallen == {m \in tokens : RawDelta(w, m) < 0}
      Swap   == [base EXCEPT !.type = "SWAP", !.direction = "SWAP", !.confidence = "HIGH",
                             !.sol = IF sol = 0 THEN base.sol ELSE Size(sol)]
      Of(m)  == [Swap EXCEPT !.mint = m, !.amount = Size(RawDelta(w, m))]
      Sure(e, direction) == [e EXCEPT !.direction = direction, !.confidence = "EXACT"]
  IN IF risen # {} /\ sol < 0 THEN Sure(Of(Dominant(w, risen)), "BUY")
     ELSE IF fallen # {} /\ sol > 0 THEN Sure(Of(Dominant(w, fallen)), "SELL")
     ELSE IF tokens # {} THEN Of(Dominant(w, tokens))
     ELSE Swap

Transferred(base, t) ==
  [base EXCEPT !.type = "TRANSFER", !.direction = "TRANSFER",
               !.mint = IF t.kind = "SOL" THEN Sol
                        ELSE IF t.mint = Absent THEN base.mint ELSE t.mint,
               !.amount = t.amount,
               !.sol = IF t.kind = "SOL" THEN t.amount ELSE base.sol,
               !.confidence = IF t.kind = "SOL" THEN "EXACT" ELSE "HIGH"]

Enriched(base, w) ==
  LET named == [base EXCEPT !.wallet = w] IN
  IF HasDex THEN Swapped(named, w)
  ELSE IF Transfers # {} THEN Transferred(named, PickTransfer(w))
  ELSE [named EXCEPT !.confidence = "MEDIUM"]

ParserInit ==
  /\ tx \in Transactions /\ settings \in Settings
  /\ via \in settings.watched \cup {Program}
  /\ stage = "logs" /\ parsedEvent = Absent

\* processNotification up to its await, or to its end.
ReadLogs ==
  /\ stage = "logs"
  /\ parsedEvent' = ParseHeuristic(tx.logs)
  /\ stage' = IF ShouldEnrich(parsedEvent') THEN "parsing" ELSE "emitted"
  /\ UNCHANGED <<tx, via, settings>>

\* The parsed transaction has come.
Enrich ==
  /\ stage = "parsing"
  /\ \E w \in MatchedWallets : parsedEvent' = Enriched(parsedEvent, w)
  /\ stage' = "emitted"
  /\ UNCHANGED <<tx, via, settings>>

\* What is watched may change while it is awaited.
Rewatch ==
  /\ stage = "parsing"
  /\ settings' \in Settings
  /\ UNCHANGED <<tx, via, stage, parsedEvent>>

ParserNext == ReadLogs \/ Enrich \/ Rewatch

ParserSpec == ParserInit /\ [][ParserNext]_parserVars

-----------------------------------------------------------------------------
(* Properties                                                              *)

\* By how much what a wallet holds of a mint has grown, over all its accounts.
Holds(amount) == IF amount = Closed THEN 0 ELSE amount
GrownIn(a, w, m) == IF a.owner = w /\ a.mint = m THEN Holds(a.post) - Holds(a.pre) ELSE 0
Growth(w, m) ==
  LET grown[i \in 0 .. Len(tx.accounts)] ==
        IF i = 0 THEN 0 ELSE grown[i - 1] + GrownIn(tx.accounts[i], w, m)
  IN grown[Len(tx.accounts)]

\* Whether a wallet has two accounts of one mint, of which the map keeps one.
Twins(w) ==
  \E i, j \in DOMAIN tx.accounts :
    /\ i # j /\ tx.accounts[i].owner = w /\ tx.accounts[j].owner = w
    /\ tx.accounts[i].mint = tx.accounts[j].mint

\* A swap is reported as a purchase or a sale exactly if its wallet gave wrapped
\* SOL for a token, or a token for it, and then with the amounts that changed
\* hands, of the token of which most did, also when the accounts were opened or
\* closed in the transaction itself (collectTokenDeltas, findSolDelta).  A wallet
\* with two accounts of a mint is not so lucky, and native SOL is not looked at.
DirectionIsTrue ==
  LET w == parsedEvent.wallet
      sure == parsedEvent.confidence \in {"EXACT", "HIGH"}
      rose(m) == IF Growth(w, m) > 0 THEN Growth(w, m) ELSE 0
      fell(m) == IF Growth(w, m) < 0 THEN -Growth(w, m) ELSE 0
  IN stage = "emitted" /\ parsedEvent.type = "SWAP" /\ sure /\ ~Twins(w) =>
       /\ parsedEvent.direction = "BUY" <=> fell(Sol) > 0 /\ \E m \in Mints \ {Sol} : rose(m) > 0
       /\ parsedEvent.direction = "SELL" <=> rose(Sol) > 0 /\ \E m \in Mints \ {Sol} : fell(m) > 0
       /\ parsedEvent.direction = "BUY" =>
            /\ parsedEvent.sol = fell(Sol) /\ parsedEvent.amount = rose(parsedEvent.mint)
            /\ \A m \in Mints \ {Sol} : rose(m) <= parsedEvent.amount
       /\ parsedEvent.direction = "SELL" =>
            /\ parsedEvent.sol = rose(Sol) /\ parsedEvent.amount = fell(parsedEvent.mint)
            /\ \A m \in Mints \ {Sol} : fell(m) <= parsedEvent.amount

\* A transfer that is reported with an amount of SOL for a wallet that sent or
\* received SOL itself is one of its own, though other transfers come before it
\* in the transaction (pickTransferInstruction).
OwnTransfer ==
  LET Own(t) == t.kind = "SOL" /\ parsedEvent.wallet \in {t.source, t.destination}
      some == {i \in DOMAIN tx.instructions : Own(tx.instructions[i])}
  IN stage = "emitted" /\ parsedEvent.type = "TRANSFER" /\ parsedEvent.confidence = "EXACT" /\ some # {} =>
       \E i \in some : tx.instructions[i].amount = parsedEvent.sol
=============================================================================
