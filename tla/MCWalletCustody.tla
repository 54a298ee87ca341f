-------------------------- MODULE MCWalletCustody --------------------------
(* Two requests of one user, two verification tokens and one crash: a      *)
(* creation can overlap another, and a token can be sent twice.             *)
EXTENDS WalletCustody, TLC

CONSTANTS c1, c2, t1, t2

TwoCalls == {c1, c2}
TwoTokens  == {t1, t2}
CustodySymmetry == Permutations(TwoCalls) \cup Permutations(TwoTokens)
=============================================================================
