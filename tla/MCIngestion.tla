---------------------------- MODULE MCIngestion ----------------------------
(* Two providers, one wallet that is watched, and a transaction that its    *)
(* subscription and that of a program tell of.                              *)
EXTENDS Ingestion, TLC

CONSTANTS w1, s1

OneWallet     == {w1}
OneSignature  == {s1}
=============================================================================
