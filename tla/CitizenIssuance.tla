---------------------------- MODULE CitizenIssuance ----------------------------
(***************************************************************************)
(* The certification reward (issuance/citizen-issuance/src/lib.rs): the     *)
(* first voting identity of a number queues a reward, the end of the block  *)
(* pays the queue in order.                                                 *)
(***************************************************************************)
EXTENDS Integers, FiniteSets, Sequences

CONSTANTS
    MaxCount,        \* CITIZEN_ISSUANCE_MAX_COUNT
    HighCount,       \* CITIZEN_ISSUANCE_HIGH_REWARD_COUNT
    HighReward,      \* CITIZEN_ISSUANCE_HIGH_REWARD
    NormalReward     \* CITIZEN_ISSUANCE_NORMAL_REWARD

ASSUME IssuanceAssumption ==
    /\ MaxCount \in Nat /\ HighCount \in Nat
    /\ NormalReward \in Nat \ {0} /\ HighReward \in Nat /\ HighReward > NormalReward

VARIABLES
    RewardedCount,
    IdentityRewardClaimed,          \* numbers
    AccountRewarded,                \* wallets
    PendingRewards,                 \* sequence of the block
    PendingIdentityRewardClaimed,
    PendingAccountRewarded,
    paid                            \* history: the rewards paid, in order

issuanceVars == <<RewardedCount, IdentityRewardClaimed, AccountRewarded, PendingRewards,
                  PendingIdentityRewardClaimed, PendingAccountRewarded, paid>>

IssuanceInit ==
    /\ RewardedCount = 0
    /\ IdentityRewardClaimed = {}
    /\ AccountRewarded = {}
    /\ PendingRewards = << >>
    /\ PendingIdentityRewardClaimed = {}
    /\ PendingAccountRewarded = {}
    /\ paid = << >>

\* reward_amount_at
RewardAmountAt(count) == IF count < HighCount THEN HighReward ELSE NormalReward

\* Mutant: the rewards queued in this block are not looked at.
RewardDuePaidOnly(a, c) ==
    /\ c \notin IdentityRewardClaimed
    /\ a \notin AccountRewarded
    /\ RewardedCount < MaxCount

\* try_queue_certification_reward's conditions.
RewardDue(a, c) ==
    /\ c \notin IdentityRewardClaimed \cup PendingIdentityRewardClaimed
    /\ a \notin AccountRewarded \cup PendingAccountRewarded
    /\ RewardedCount + Len(PendingRewards) < MaxCount

\* on_voting_identity_registered: a reward that is not due is skipped.
OnVotingIdentityRegistered(a, c) ==
    /\ IF RewardDue(a, c)
       THEN /\ PendingRewards' = Append(PendingRewards, [account |-> a, cid |-> c])
            /\ PendingIdentityRewardClaimed' = PendingIdentityRewardClaimed \cup {c}
            /\ PendingAccountRewarded' = PendingAccountRewarded \cup {a}
       ELSE UNCHANGED <<PendingRewards, PendingIdentityRewardClaimed, PendingAccountRewarded>>
    /\ UNCHANGED <<RewardedCount, IdentityRewardClaimed, AccountRewarded, paid>>

Queued(field) == {PendingRewards[i][field] : i \in 1..Len(PendingRewards)}

\* on_finalize: the queue is paid in order and the marks of the block are cleared.
OnFinalizeRewards ==
    /\ paid' = paid \o [i \in 1..Len(PendingRewards) |->
                          [account |-> PendingRewards[i].account, cid |-> PendingRewards[i].cid,
                           reward |-> RewardAmountAt(RewardedCount + i - 1)]]
    /\ RewardedCount' = RewardedCount + Len(PendingRewards)
    /\ IdentityRewardClaimed' = IdentityRewardClaimed \cup Queued("cid")
    /\ AccountRewarded' = AccountRewarded \cup Queued("account")
    /\ PendingIdentityRewardClaimed' = PendingIdentityRewardClaimed \ Queued("cid")
    /\ PendingAccountRewarded' = PendingAccountRewarded \ Queued("account")
    /\ PendingRewards' = << >>

-------------------------------------------------------------------------------
\* No number and no wallet is ever paid a second reward, no more rewards are
\* paid than the institution allows, and the higher reward goes to exactly the
\* first HighCount of them, however registrations, upgrades, rebindings and
\* revocations fall into blocks.
RewardedOnce ==
    /\ \A i, j \in 1..Len(paid) :
          paid[i].cid = paid[j].cid \/ paid[i].account = paid[j].account => i = j
    /\ Len(paid) =< MaxCount
    /\ \A i \in 1..Len(paid) : (paid[i].reward = HighReward) = (i =< HighCount)
===============================================================================
