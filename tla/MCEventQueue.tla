---------------------------- MODULE MCEventQueue ----------------------------
(* A small instance of EventQueue: more events than can wait and run.      *)
EXTENDS EventQueue

CONSTANTS e1, e2, e3, e4, e5

FiveEvents == {e1, e2, e3, e4, e5}
=============================================================================
