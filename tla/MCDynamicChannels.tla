------------------------- MODULE MCDynamicChannels -------------------------
(***************************************************************************)
(* DynamicChannels for the model checker.                                  *)
(***************************************************************************)
EXTENDS DynamicChannels

CONSTANT c1
=============================================================================
