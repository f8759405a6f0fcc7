--------------------------- MODULE MCPersonalAccount ---------------------------
(***************************************************************************)
(* The personal account for TLC.  Admins other than the creator are         *)
(* interchangeable: no property names one.                                  *)
(***************************************************************************)
EXTENDS PersonalProperties, TLC

Symmetry == Permutations(Admin \ {Creator})
================================================================================
