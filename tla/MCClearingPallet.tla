--------------------------- MODULE MCClearingPallet ---------------------------
(***************************************************************************)
(* The clearing pallet on small instances.                                  *)
(***************************************************************************)
EXTENDS ClearingPallet, TLC

\* All banks' CIDs start with the same two bytes.
OneProvince == [b \in Bank |-> "AH"]

Symmetry ==
    Permutations(User) \cup Permutations(Bank) \cup Permutations(Peer) \cup Permutations(TxId)
===============================================================================
