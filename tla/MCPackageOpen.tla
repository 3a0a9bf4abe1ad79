--------------------------- MODULE MCPackageOpen ---------------------------
(***************************************************************************)
(* PackageOpen for the model checker.                                      *)
(***************************************************************************)
EXTENDS PackageOpen

CONSTANTS d1, d2
=============================================================================
