-------------------------- MODULE MCTradeExecution --------------------------
(* Small instances of TradeExecution.                                      *)
EXTENDS TradeExecution, TLC

CONSTANTS d1, d2, cA, cB, s1, s2, wA

TwoDeliveries == {d1, d2}
OneCond       == {cA}
TwoConds      == {cA, cB}
OneSig        == {s1}
TwoSigs       == {s1, s2}
OneWallet     == {wA}

\* The TRADE dispatches of two deliveries, by their place among the actions.
TwoByOne  == TwoDeliveries \X (1..1)
TwoByFive == TwoDeliveries \X (1..5)

\* cA trades once, cB (where there is one) without a limit, on the same wallet.
BothTrade    == [c \in TwoConds |-> <<"TRADE">>]
EveryAction  == [c \in OneCond |-> <<"NOTIFY", "TRADE", "WEBHOOK", "LOG", "TRADE">>]
SharedWallet == [c \in TwoConds |-> wA]
OwnWallet    == [c \in OneCond |-> wA]
LimitTwo     == [c \in OneCond |-> 2]
OnceAndNoLimit == [c \in TwoConds |-> IF c = cA THEN 1 ELSE Unlimited]

\* Deliveries are interchangeable, and so are signatures.
Symmetry == Permutations(TwoDeliveries) \cup Permutations(TwoSigs)
=============================================================================
