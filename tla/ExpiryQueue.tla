------------------------------ MODULE ExpiryQueue ------------------------------
(***************************************************************************)
(* The expiry index and the automatic timeout pipeline                      *)
(* (votingengine/src/expiry.rs, first half of on_initialize).  A bucket is  *)
(* the list stored at one block; the index is the set of <<block, id>>      *)
(* pairs, so which entries of a bucket a budget-limited visit drains first  *)
(* is left open.                                                            *)
(***************************************************************************)
EXTENDS ProposalStore

CONSTANTS
    MaxProposalsPerExpiry,     \* capacity of one bucket
    MaxAutoFinalizePerBlock,   \* items the pipeline may process in a block
    WeightAllowance,           \* items its weight budget admits in a block
    MaxManualExecutionAttempts \* failures after which a queue gives up

ASSUME ExpiryAssumption ==
    /\ MaxProposalsPerExpiry \in Nat
    /\ MaxAutoFinalizePerBlock \in Nat \ {0}
    /\ WeightAllowance \in Nat \ {0}
    /\ MaxManualExecutionAttempts \in Nat \ {0}

VARIABLES
    ProposalsByExpiry,         \* set of <<block, id>>
    PendingExpiryBucket,       \* cursor: a bucket left half done, or NoBucket
    AutoFinalizeRetryStates,   \* id -> failed attempts so far
    AutoFinalizeDeadLetters    \* ids the pipeline has given up on

expiryVars == <<ProposalsByExpiry, PendingExpiryBucket,
                AutoFinalizeRetryStates, AutoFinalizeDeadLetters>>

\* Option::None of the cursor: no stage ends before block 0, so bucket 0 is empty.
NoBucket == 0

ExpiryTypeOK ==
    /\ ProposalsByExpiry \subseteq (Nat \X ProposalId)
    /\ PendingExpiryBucket \in Nat
    /\ IsMap(AutoFinalizeRetryStates, ProposalId, AttemptRecord)
    /\ AutoFinalizeDeadLetters \subseteq ProposalId

ExpiryInit ==
    /\ ProposalsByExpiry = {}
    /\ PendingExpiryBucket = NoBucket
    /\ AutoFinalizeRetryStates = EmptyMap
    /\ AutoFinalizeDeadLetters = {}

ExpiryBucket(b) == {p \in ProposalId : <<b, p>> \in ProposalsByExpiry}

\* The capacity check of schedule_proposal_expiry, on the index it meets.
HasRoomIn(index, b) ==
    Cardinality({p \in ProposalId : <<b, p>> \in index}) < MaxProposalsPerExpiry

BucketHasRoom(b) == HasRoomIn(ProposalsByExpiry, b)

\* The sets auto_finalize_expiry_bucket may drain from bucket b: as many
\* entries as the count budget and the weight budget both admit.
Drains(b, count, allowance) ==
    LET size == Cardinality(ExpiryBucket(b))
        fits(n) == n <= size /\ n <= count /\ n <= allowance
    IN  {T \in SUBSET ExpiryBucket(b) :
           /\ fits(Cardinality(T))
           /\ ~fits(Cardinality(T) + 1)}

\* Mutant: take(expiry) without putting the rest back.
TakeBucket(b, T) == ProposalsByExpiry' = ProposalsByExpiry \ ({b} \X ProposalId)

\* The bucket after draining T, and whether anything stays behind.
DrainBucket(b, T) == ProposalsByExpiry' = ProposalsByExpiry \ ({b} \X T)

\* Mutant: a half-drained bucket is not reported.
NeverRemaining(b, T) == FALSE

HasRemaining(b, T) == ExpiryBucket(b) # T

\* The retry record and dead letter of p are dropped.
ForgetAutoFinalize(p) ==
    /\ AutoFinalizeRetryStates' = Remove(AutoFinalizeRetryStates, p)
    /\ AutoFinalizeDeadLetters' = AutoFinalizeDeadLetters \ {p}

FailedFinalizations(p) ==
    IF p \in DOMAIN AutoFinalizeRetryStates
    THEN AutoFinalizeRetryStates[p].attempts + 1 ELSE 1

\* The error branch of auto_finalize_expiry_bucket: one more attempt after a
\* backoff, or the dead letter when attempts or bucket space run out.
DeferAutoFinalize(p) ==
    LET attempts == FailedFinalizations(p)
        next == now + Backoff(attempts)
    IN  IF attempts < MaxManualExecutionAttempts /\ BucketHasRoom(next)
        THEN /\ ProposalsByExpiry' = ProposalsByExpiry \cup {<<next, p>>}
             /\ AutoFinalizeRetryStates' =
                  Insert(AutoFinalizeRetryStates, p,
                         [attempts |-> attempts, next_attempt_at |-> next])
             /\ UNCHANGED AutoFinalizeDeadLetters
        ELSE /\ AutoFinalizeRetryStates' = Remove(AutoFinalizeRetryStates, p)
             /\ AutoFinalizeDeadLetters' = AutoFinalizeDeadLetters \cup {p}
             /\ UNCHANGED ProposalsByExpiry
===============================================================================
