----------------------------- MODULE ProposalStore -----------------------------
(***************************************************************************)
(* The proposal table of the voting engine and the status machine every     *)
(* handler goes through (votingengine/src/lifecycle.rs, id.rs, types.rs).   *)
(***************************************************************************)
EXTENDS Naturals, FiniteSets, StorageMap

CONSTANTS
    MaxProposals,      \* bound: proposal ids are 0 .. MaxProposals - 1
    Subject,           \* institutions (by CID) and personal accounts
    VotingDuration     \* VOTING_DURATION_BLOCKS, length of one voting stage

ASSUME StoreAssumption ==
    /\ MaxProposals \in Nat \ {0}
    /\ VotingDuration \in Nat

VARIABLES
    now,               \* frame_system::block_number
    NextProposalId,    \* primary-key counter
    Proposals          \* StorageMap: id -> proposal

ProposalId == 0 .. (MaxProposals - 1)

Kind   == {"internal", "joint"}
Stage  == {"internal", "joint", "referendum"}
Status == {"VOTING", "PASSED", "REJECTED", "EXECUTED", "EXECUTION_FAILED"}

\* A proposal.  subject is the single key Proposal::subject_keys returns.
ProposalRecord ==
    [kind : Kind, stage : Stage, status : Status, subject : Subject, end : Nat]

IsTerminalStatus(st) == st \in {"REJECTED", "EXECUTED", "EXECUTION_FAILED"}

ValidStatusTransition(old, new) ==
    <<old, new>> \in {<<"VOTING", "PASSED">>, <<"VOTING", "REJECTED">>,
                      <<"PASSED", "EXECUTED">>, <<"PASSED", "EXECUTION_FAILED">>}

\* Mutant: every decision gives the lock back, as removing the active slot does.
ReleaseOnAnyDecision(prop, st) == st # "VOTING"

\* should_release_internal_proposal_mutexes
ShouldReleaseMutexes(prop, st) ==
    \/ IsTerminalStatus(st)
    \/ prop.kind = "joint" /\ prop.stage = "joint" /\ st = "PASSED"

Exists(p) == p \in DOMAIN Proposals

HasStatus(p, st) == Exists(p) /\ Proposals[p].status = st

\* ensure_open_proposal: end is the last block in which a vote counts.
IsOpen(p) == HasStatus(p, "VOTING") /\ now <= Proposals[p].end

\* Past its end and still undecided.
IsOverdue(p) == HasStatus(p, "VOTING") /\ now > Proposals[p].end

\* set_proposal_status: the only writer of a status besides creation.
SetProposalStatus(p, st) ==
    /\ Exists(p)
    /\ ValidStatusTransition(Proposals[p].status, st)
    /\ Proposals' = [Proposals EXCEPT ![p].status = st]

\* allocate_proposal_id: ids are handed out in order and never reused.
AllocateProposalId(p) ==
    /\ p = NextProposalId
    /\ p \in ProposalId
    /\ NextProposalId' = NextProposalId + 1

\* The backoff after the a-th failure, 2^min(a, 6) blocks.
Backoff(a) == IF a >= 6 THEN 64 ELSE <<2, 4, 8, 16, 32>>[a]

\* PendingExecutionState of the automatic queues.
AttemptRecord == [attempts : Nat, next_attempt_at : Nat]
===============================================================================
