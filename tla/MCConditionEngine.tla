------------------------- MODULE MCConditionEngine -------------------------
(* Small instances of ConditionEngine.                                     *)
EXTENDS ConditionEngine, TLC

CONSTANTS short, long, activity, w1, m1, s1, s2

ThreeConds == {short, long, activity}
OneBurst   == {short}

Plain == [wallet |-> Nothing, mint |-> Nothing, tx |-> Nothing, minimum |-> 0,
          window |-> 0, cooldown |-> 1]

\* A burst of three swaps in one unit and one of four in two, on one mint, and
\* any purchase of a wallet; the second wants no cooldown and gets the default.
ThreeDefs == [c \in ThreeConds |->
  CASE c = short -> [kind |-> "SWAP_BURST", mint |-> m1, minimum |-> 3, window |-> 1] @@ Plain
    [] c = long  -> [kind |-> "SWAP_BURST", mint |-> m1, minimum |-> 4, window |-> 2, cooldown |-> 0] @@ Plain
    [] c = activity -> [kind |-> "WALLET_ACTIVITY", wallet |-> w1, tx |-> "BUY"] @@ Plain]

BurstDef == [c \in OneBurst |-> ThreeDefs[c]]

Swap(s, m, logs, direction) ==
  [sig |-> s, type |-> "SWAP", direction |-> direction, wallet |-> w1, mint |-> m,
   logs |-> logs, sol |-> 1, low |-> FALSE]

\* A purchase of the mint by the wallet, and a swap that only mentions the mint.
TwoEvents == {Swap(s1, m1, {}, "BUY"), Swap(s2, Nothing, {m1}, "SWAP")}
=============================================================================
