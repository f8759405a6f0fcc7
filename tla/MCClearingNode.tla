---------------------------- MODULE MCClearingNode ----------------------------
(***************************************************************************)
(* A clearing bank's node and the chain on small instances.                 *)
(***************************************************************************)
EXTENDS ClearingNode, TLC

\* Every bank is in a province of its own.
OwnProvince == [b \in Bank |-> b]

Symmetry == Permutations(User) \cup Permutations(TxId)
===============================================================================
