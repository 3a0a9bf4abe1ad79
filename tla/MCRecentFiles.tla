--------------------------- MODULE MCRecentFiles ---------------------------
(***************************************************************************)
(* RecentFiles for the model checker: one editor, a full list of three.    *)
(***************************************************************************)
EXTENDS RecentFiles

CONSTANTS e1, f1, f2, f3, f4
=============================================================================
