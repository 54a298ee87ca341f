------------------------- MODULE MCTransactionParser -------------------------
(* Every small swap over three token accounts and every small payment of    *)
(* two instructions, under three settings of the watch lists.               *)
EXTENDS TransactionParser

CONSTANTS w1, w2, wsol, m1, m2

TwoWallets == {w1, w2}
ThreeMints == {wsol, m1, m2}

\* Who holds what, of three accounts; the second has twins.
Holdings == {<<<<w1, wsol>>, <<w1, m1>>, <<w1, m2>>>>, <<<<w1, m1>>, <<w1, wsol>>, <<w1, m1>>>>,
             <<<<w1, wsol>>, <<w2, m1>>, <<w1, m1>>>>, <<<<w2, m1>>, <<w2, wsol>>, <<w1, m2>>>>}
Balances == {Closed, 1, 2} \X {Closed, 1, 2} \ {<<Closed, Closed>>}
Accounts == {[i \in 1 .. 3 |-> [owner |-> h[i][1], mint |-> h[i][2],
                               pre |-> b[i][1], post |-> b[i][2]]] :
             h \in Holdings, b \in [1 .. 3 -> Balances]}

Sends(a, b, n) == [kind |-> "SOL", source |-> a, destination |-> b, mint |-> Absent, amount |-> n]
Moves(m, n)    == [kind |-> "TOKEN", source |-> Absent, destination |-> Absent, mint |-> m, amount |-> n]
Dex            == [kind |-> "DEX", source |-> Absent, destination |-> Absent, mint |-> Absent, amount |-> 0]

NoLogs  == [dex |-> FALSE, system |-> FALSE, mint |-> Absent, amount |-> Absent]
DexLogs == [NoLogs EXCEPT !.dex = TRUE, !.mint = m1]

SystemLogs == [NoLogs EXCEPT !.system = TRUE, !.amount = 1]

Swaps == {[keys |-> <<k>>, accounts |-> a, logs |-> l, instructions |-> <<Dex>>] :
          k \in TwoWallets, a \in Accounts, l \in {NoLogs, DexLogs}}
Payments == {[keys |-> k, accounts |-> <<>>, logs |-> l, instructions |-> i] :
             k \in {<<w1, w2>>, <<w2, w1>>}, l \in {NoLogs, SystemLogs},
             i \in [1 .. 2 -> {Sends(w1, w1, 1), Sends(w2, w1, 2), Sends(w2, w2, 3),
                               Moves(m1, 4), Moves(Absent, 5)}] \cup {<<>>}}

SomeTransactions == Swaps \cup Payments
SomeSettings == {[watched |-> {}, tracked |-> {}, large |-> TRUE],
                 [watched |-> {w1}, tracked |-> {}, large |-> FALSE],
                 [watched |-> {w1, w2}, tracked |-> {m1}, large |-> FALSE]}
=============================================================================
