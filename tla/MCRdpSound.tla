----------------------------- MODULE MCRdpSound -----------------------------
(***************************************************************************)
(* RdpSound for the model checker.  MCRdpSound.cfg: connections that end   *)
(* between two waves.  MCRdpSoundCut.cfg: connections that end anywhere.   *)
(***************************************************************************)
EXTENDS RdpSound

CONSTANTS w1, w2
=============================================================================
