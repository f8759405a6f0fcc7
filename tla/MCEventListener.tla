---------------------------- MODULE MCEventListener ----------------------------
(***************************************************************************)
(* The listener on small trees of blocks.                                   *)
(***************************************************************************)
EXTENDS EventListener, TLC

Symmetry == Permutations(Tx)
===============================================================================
