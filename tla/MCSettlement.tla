---------------------------- MODULE MCSettlement ----------------------------
(* One trade, from its match on, and two passes of the checker.             *)
EXTENDS Settlement

CONSTANTS d1, cA, s1, wA, p1, p2

OneDelivery == {d1}
OneCond     == {cA}
OneSig      == {s1}
OneWallet   == {wA}
TwoPasses   == {p1, p2}

OneByOne  == OneDelivery \X (1..1)
OnlyTrade == [c \in OneCond |-> <<"TRADE">>]
OwnWallet == [c \in OneCond |-> wA]
LimitTwo  == [c \in OneCond |-> 2]

=============================================================================
