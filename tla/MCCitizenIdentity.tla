--------------------------- MODULE MCCitizenIdentity ---------------------------
(***************************************************************************)
(* The citizen identity pallet on small instances.                          *)
(***************************************************************************)
EXTENDS CitizenIdentity, TLC

OneTown == {<<"p", "c", "t">>}
TwoTowns == {<<"p", "c", "t">>, <<"p", "d", "t">>}

OneDay == {<<1, 1>>}

TwoWindows == {<<1, 2>>, <<2, 2>>}

Symmetry == Permutations(Cid) \cup Permutations(Account)
===============================================================================
