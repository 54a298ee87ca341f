--------------------------- MODULE MCWalletFunds ---------------------------
(* Automated trades on a wallet that holds enough for all but one of them,  *)
(* fees included, and a manual trade on another.                           *)
EXTENDS WalletFunds, TLC

CONSTANTS a1, a2, m1, wA, wB

TwoTrades   == {a1, a2}
OneManual   == {m1}
TwoWallets  == {wA, wB}
SpendsOnTwo == [t \in Spends |-> IF t \in Dispatches THEN wA ELSE wB]
TwoEach     == [t \in Spends |-> 2]
FiveHeld    == [w \in Wallets |-> 5]
=============================================================================
