----------------------------- MODULE ClearingRates -----------------------------
(***************************************************************************)
(* The fee rates clearing banks set for themselves                          *)
(* (transaction/offchain/src/fee_config.rs): a bank announces a new rate,   *)
(* every block puts a bounded number of the announced rates that are due    *)
(* into force, and the joint vote sets a global maximum.                    *)
(***************************************************************************)
EXTENDS StorageMap, Integers, FiniteSets

CONSTANTS
    Bank,            \* CIDs of the clearing banks
    RateMin,         \* L2_FEE_RATE_BP_MIN
    RateMax,         \* L2_FEE_RATE_BP_MAX
    RateChoice,      \* the rates tried by proposals and by the joint vote
    RateDelay,       \* RATE_CHANGE_DELAY_BLOCKS
    RateBudget,      \* MAX_L2_FEE_ACTIVATIONS_PER_BLOCK
    MaxBlock         \* bound on the block number

ASSUME RatesAssumption ==
    /\ RateMin \in Nat \ {0} /\ RateMax \in Nat /\ RateMin =< RateMax
    /\ RateChoice \subseteq Nat
    /\ RateDelay \in Nat \ {0} /\ RateBudget \in Nat \ {0}
    /\ MaxBlock \in Nat

VARIABLES
    now,                \* frame_system block number
    L2FeeRateBp,        \* bank -> rate in force; 0 when none was ever set
    L2FeeRateProposed,  \* bank -> announced rate and the block it is due at
    MaxL2FeeRateBp,     \* global maximum; 0 when never set
    announcedAt         \* history: bank -> block of its latest announcement

rateVars == <<L2FeeRateBp, L2FeeRateProposed, MaxL2FeeRateBp, announcedAt>>

RatesTypeOK ==
    /\ now \in Nat
    /\ L2FeeRateBp \in [Bank -> Nat]
    /\ IsMap(L2FeeRateProposed, Bank, [rate : Nat, effective_at : Nat])
    /\ MaxL2FeeRateBp \in Nat
    /\ announcedAt \in [Bank -> Nat]

\* do_propose_l2_fee_rate's range: the larger of the global maximum and RateMax.
RateAllowed(rate) ==
    /\ rate >= RateMin
    /\ rate =< MaxL2FeeRateBp \/ rate =< RateMax

\* Mutant: announcing another rate keeps the date of the announcement before it.
AnnouncementKeepingDate(b, rate) ==
    [rate |-> rate,
     effective_at |-> IF b \in DOMAIN L2FeeRateProposed
                      THEN L2FeeRateProposed[b].effective_at ELSE now + RateDelay]

\* The entry an announcement leaves; it replaces the one before it.
Announcement(b, rate) == [rate |-> rate, effective_at |-> now + RateDelay]

\* do_propose_l2_fee_rate, by an authorised role of a bank that may be bound.
ProposeRate(b, rate) ==
    /\ RateAllowed(rate)
    /\ L2FeeRateProposed' = Insert(L2FeeRateProposed, b, Announcement(b, rate))
    /\ announcedAt' = [announcedAt EXCEPT ![b] = now]
    /\ UNCHANGED <<L2FeeRateBp, MaxL2FeeRateBp>>

\* do_set_max_l2_fee_rate, from the joint vote.
SetMaxRate(max) ==
    /\ max \in RateMin..RateMax
    /\ MaxL2FeeRateBp' = max
    /\ UNCHANGED <<L2FeeRateBp, L2FeeRateProposed, announcedAt>>

Due(block) == {b \in DOMAIN L2FeeRateProposed :
                  block >= L2FeeRateProposed[b].effective_at}

\* What the scan of activate_pending_rates collects: it walks the map in the order of
\* hashed keys, any order here, and stops at the budget.
Collectable(block) ==
    {S \in SUBSET Due(block) :
        Cardinality(S) = IF Cardinality(Due(block)) =< RateBudget
                         THEN Cardinality(Due(block)) ELSE RateBudget}

\* The announcements left once those of S are in force.
ProposalsLeft(S) == [b \in DOMAIN L2FeeRateProposed \ S |-> L2FeeRateProposed[b]]

\* on_initialize: the next block starts and activate_pending_rates runs.
ActivateRates ==
    /\ now' = now + 1
    /\ \E S \in Collectable(now') :
          /\ L2FeeRateBp' = [b \in Bank |->
                                IF b \in S THEN L2FeeRateProposed[b].rate
                                ELSE L2FeeRateBp[b]]
          /\ L2FeeRateProposed' = ProposalsLeft(S)
    /\ UNCHANGED <<MaxL2FeeRateBp, announcedAt>>

-------------------------------------------------------------------------------
(* Properties.                                                               *)

\* A rate comes into force no sooner than RATE_CHANGE_DELAY_BLOCKS after the bank's
\* latest announcement, however announcements replace one another and whatever is left
\* over by the block's budget: customers had the whole notice to leave the bank.
NoticeGiven ==
    [][\A b \in Bank : L2FeeRateBp'[b] # L2FeeRateBp[b]
                          => now' - announcedAt[b] >= RateDelay]_<<now, rateVars>>
===============================================================================
