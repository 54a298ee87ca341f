----------------------------- MODULE TradeOnce ------------------------------
(***************************************************************************)
(* What trade automation promises, without how: a condition matched by an  *)
(* event is traded on at most once, and a condition with an execution      *)
(* limit is traded on at most that often, whatever is delivered again,     *)
(* fails or restarts in between.                                           *)
(***************************************************************************)
EXTENDS Naturals, FiniteSets

CONSTANTS Conds, Sigs, Limit, Unlimited

VARIABLE sends    \* how many transactions were sent for a condition and event

SentFor(c) == {s \in Sigs : sends[<<c, s>>] > 0}

Init == sends = [p \in Conds \X Sigs |-> 0]

Send(c, s) ==
  /\ sends[<<c, s>>] = 0
  /\ Limit[c] # Unlimited => Cardinality(SentFor(c)) < Limit[c]
  /\ sends' = [sends EXCEPT ![<<c, s>>] = 1]

Next == \E c \in Conds, s \in Sigs : Send(c, s)

Spec == Init /\ [][Next]_sends
=============================================================================
