---------------------------- MODULE MCThreadPool ----------------------------
(***************************************************************************)
(* ThreadPool for the model checker: two clients race for two threads, one *)
(* of which SetThreadpoolThreadMinimum starts, and malloc may fail.        *)
(***************************************************************************)
EXTENDS ThreadPool

CONSTANTS w1, w2, c1, c2, k1, k2, i1, i2, i3
=============================================================================
