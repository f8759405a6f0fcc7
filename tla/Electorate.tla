------------------------------- MODULE Electorate -------------------------------
(***************************************************************************)
(* What citizen identity promises to the votes: every number has at most    *)
(* one wallet and every wallet one number; whoever has the right to vote    *)
(* changes over time; a roll, once taken, keeps its members, and its total  *)
(* is their number.  CitizenIdentity implements it, JointVote builds on it. *)
(***************************************************************************)
EXTENDS StorageMap, Integers, FiniteSets

CONSTANTS Cid, Account, Scope

VARIABLES
    wallet,     \* number -> its wallet
    standing,   \* numbers with a valid identity, whatever their passport's dates
    voters,     \* scope -> numbers with the right to vote now
    rolls       \* rolls taken: scope, members and total

electorateVars == <<wallet, standing, voters, rolls>>

ElectorateInit ==
    /\ wallet = EmptyMap
    /\ standing = {}
    /\ voters = [s \in Scope |-> {}]
    /\ rolls = {}

\* A number gets its first or another wallet.
BindWallet(c, a) ==
    /\ \A d \in DOMAIN wallet : wallet[d] # a
    /\ wallet' = Insert(wallet, c, a)
    /\ UNCHANGED <<standing, voters, rolls>>

\* Identities are written or the date advances.
ChangeVoters ==
    /\ standing' \in SUBSET (DOMAIN wallet)
    /\ voters' \in [Scope -> SUBSET (DOMAIN wallet)]
    /\ UNCHANGED <<wallet, rolls>>

Roll(s) == [scope |-> s, members |-> voters[s], total |-> Cardinality(voters[s])]

TakeRoll(s) ==
    /\ rolls' = rolls \cup {Roll(s)}
    /\ UNCHANGED <<wallet, standing, voters>>

ElectorateNext ==
    \/ \E c \in Cid, a \in Account : BindWallet(c, a)
    \/ ChangeVoters
    \/ \E s \in Scope : TakeRoll(s)

ElectorateSpec == ElectorateInit /\ [][ElectorateNext]_electorateVars
===============================================================================
