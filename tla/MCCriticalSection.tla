------------------------ MODULE MCCriticalSection ------------------------
(***************************************************************************)
(* CriticalSection for the model checker: three threads, the fewest of     *)
(* which two can queue behind a third.                                     *)
(***************************************************************************)
EXTENDS CriticalSection

CONSTANTS t1, t2, t3
=============================================================================
