------------------------ MODULE MCConditionRegistry ------------------------
(* A small instance of ConditionRegistry.                                  *)
EXTENDS ConditionRegistry, TLC

CONSTANTS c1, c2, w1, m1, q1, q2

TwoConds  == {c1, c2}
OneWallet == {w1}
OneMint   == {m1}
TwoSlots  == {q1, q2}

\* A volume condition and one on large transfers, of one wallet and one mint.
SameWallet == [c \in TwoConds |-> w1]
SameMint   == [c \in TwoConds |-> m1]
Volume     == {c1}
Transfers  == {c2}

Symmetry == Permutations(TwoSlots)
=============================================================================
