--------------------------- MODULE MCMessageQueue ---------------------------
(***************************************************************************)
(* MessageQueue for the model checker: two threads that use the queue in   *)
(* every way and two that consume it.                                      *)
(***************************************************************************)
EXTENDS MessageQueue

CONSTANTS u1, u2, c1, c2, m1
=============================================================================
