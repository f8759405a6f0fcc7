------------------------------ MODULE MCJointVote ------------------------------
(***************************************************************************)
(* Two institutions: one whose only admin was seated at genesis, and one    *)
(* of two admins who are citizens.                                          *)
(***************************************************************************)
EXTENDS JointVote, TLC

CONSTANTS n, p, c1, c2, c3, a1, a2, a3

TwoInstitutions == {n, p}
Roles == {<<n, "chair">>, <<p, "member">>}
Thresholds == (n :> 1) @@ (p :> 2)
Weights == (n :> 19) @@ (p :> 1)
Seats == (n :> <<[account |-> a3, cid |-> NoCid]>>)
         @@ (p :> <<[account |-> a1, cid |-> c1], [account |-> a2, cid |-> c2]>>)
Wallets == (c1 :> a1) @@ (c2 :> a2) @@ (c3 :> a3)
===============================================================================
