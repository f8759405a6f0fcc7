---------------------------- MODULE ExecutionQueue ----------------------------
(***************************************************************************)
(* The queues behind a passed proposal (votingengine/src/execution.rs and   *)
(* the retry part of lifecycle.rs): automatic execution with backoff, the   *)
(* manual-retry window with its deadline buckets, the terminal side effects *)
(* owed after a failure, and the business notifications still owed.         *)
(***************************************************************************)
EXTENDS ProposalStore

CONSTANTS
    ExecutionRetryGraceBlocks,            \* length of the manual-retry window
    MaxExecutionRetryDeadlinesPerBlock,   \* capacity of one deadline bucket
    RescheduleTries                       \* buckets tried in a row (100)

ASSUME ExecutionAssumption ==
    /\ ExecutionRetryGraceBlocks \in Nat
    /\ MaxExecutionRetryDeadlinesPerBlock \in Nat
    /\ RescheduleTries \in Nat

VARIABLES
    PendingProposalExecutions,          \* id -> attempts, next attempt
    PendingTerminalFinalizations,       \* id -> attempts, next attempt
    TerminalFinalizationDeadLetters,    \* ids whose side effects were given up
    ProposalExecutionRetryStates,       \* id -> manual attempts, deadline
    ExecutionRetryDeadlines,            \* set of <<block, id>>
    PendingExecutionRetryExpirations,   \* ids no deadline bucket had room for
    PendingTerminalCleanups             \* ids whose failure notice is owed

executionVars ==
    <<PendingProposalExecutions, PendingTerminalFinalizations,
      TerminalFinalizationDeadLetters, ProposalExecutionRetryStates,
      ExecutionRetryDeadlines, PendingExecutionRetryExpirations,
      PendingTerminalCleanups>>

RetryRecord == [manual_attempts : Nat, retry_deadline : Nat]

ExecutionTypeOK ==
    /\ IsMap(PendingProposalExecutions, ProposalId, AttemptRecord)
    /\ IsMap(PendingTerminalFinalizations, ProposalId, AttemptRecord)
    /\ TerminalFinalizationDeadLetters \subseteq ProposalId
    /\ IsMap(ProposalExecutionRetryStates, ProposalId, RetryRecord)
    /\ ExecutionRetryDeadlines \subseteq (Nat \X ProposalId)
    /\ PendingExecutionRetryExpirations \subseteq ProposalId
    /\ PendingTerminalCleanups \subseteq ProposalId

ExecutionInit ==
    /\ PendingProposalExecutions = EmptyMap
    /\ PendingTerminalFinalizations = EmptyMap
    /\ TerminalFinalizationDeadLetters = {}
    /\ ProposalExecutionRetryStates = EmptyMap
    /\ ExecutionRetryDeadlines = {}
    /\ PendingExecutionRetryExpirations = {}
    /\ PendingTerminalCleanups = {}

\* Mutant: an entry counts as due in one block only.
DueExactly(queue) == {p \in DOMAIN queue : queue[p].next_attempt_at = now}

\* The entries of an automatic queue whose next attempt is due.
Due(queue) == {p \in DOMAIN queue : queue[p].next_attempt_at <= now}

FirstAttempt == [attempts |-> 0, next_attempt_at |-> now]

\* The entry after one more failure, retried after the backoff.
Deferred(entry) ==
    [attempts |-> entry.attempts + 1,
     next_attempt_at |-> now + Backoff(entry.attempts + 1)]

DeadlineBucket(b) == {p \in ProposalId : <<b, p>> \in ExecutionRetryDeadlines}

DeadlineBucketsWithRoom(from) ==
    {b \in from .. (from + RescheduleTries - 1) :
        Cardinality(DeadlineBucket(b)) < MaxExecutionRetryDeadlinesPerBlock}

\* reschedule_execution_retry_deadline: the first bucket with room.
RescheduleDeadline(p, from) ==
    \E b \in DeadlineBucketsWithRoom(from) :
       /\ \A c \in DeadlineBucketsWithRoom(from) : b <= c
       /\ ExecutionRetryDeadlines' = ExecutionRetryDeadlines \cup {<<b, p>>}

\* Mutant: the error of a full bucket is swallowed.
RescheduleOrLose(p, from) ==
    /\ \/ RescheduleDeadline(p, from)
       \/ DeadlineBucketsWithRoom(from) = {} /\ UNCHANGED ExecutionRetryDeadlines
    /\ UNCHANGED PendingExecutionRetryExpirations

\* ... and when none has, queue_pending_retry_expiration.
RescheduleOrQueue(p, from) ==
    \/ /\ RescheduleDeadline(p, from)
       /\ UNCHANGED PendingExecutionRetryExpirations
    \/ /\ DeadlineBucketsWithRoom(from) = {}
       /\ PendingExecutionRetryExpirations' =
            PendingExecutionRetryExpirations \cup {p}
       /\ UNCHANGED ExecutionRetryDeadlines

\* schedule_execution_retry opens the manual-retry window.  Its early return
\* for a window already open is never taken (PassedIsQueued), so the model
\* has no step for it and would deadlock there.
ScheduleExecutionRetry(p) ==
    LET deadline == now + ExecutionRetryGraceBlocks
    IN  /\ p \notin DOMAIN ProposalExecutionRetryStates
        /\ RescheduleOrQueue(p, deadline)
        /\ ProposalExecutionRetryStates' =
             Insert(ProposalExecutionRetryStates, p,
                    [manual_attempts |-> 0, retry_deadline |-> deadline])
===============================================================================
