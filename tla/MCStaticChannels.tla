-------------------------- MODULE MCStaticChannels --------------------------
(***************************************************************************)
(* StaticChannels for the model checker: two plug-ins, and each of the two *)
(* kinds of client.                                                        *)
(***************************************************************************)
EXTENDS StaticChannels

CONSTANTS p1, p2, b1, b2, b3

TheClients ==
    {[async |-> FALSE, disconnects |-> TRUE], [async |-> TRUE, disconnects |-> FALSE]}
=============================================================================
