----------------------------- MODULE VotingEngine -----------------------------
(***************************************************************************)
(* The voting engine pallet (citizenchain/runtime/votingengine/src) as one  *)
(* state machine: the extrinsics that decide, retry and cancel proposals,   *)
(* and the on_initialize hook of every block, which walks its queues in a   *)
(* fixed order.  Extrinsics run only between two hooks (phase "body").      *)
(* Each hook action is one iteration of a loop of the code, that is one     *)
(* storage transaction; nothing else runs between them.                     *)
(***************************************************************************)
EXTENDS ProposalMutex, ExpiryQueue, ExecutionQueue, CleanupQueue

CONSTANTS
    MaxBlock,             \* bound on the block number
    LastCreateBlock,      \* bound: no proposal is created after this block
    Kinds,                \* the proposal kinds created, a subset of Kind
    Outcomes,             \* what a business callback may answer
    Faults,               \* which external handlers may return Err
    ExecutionsPerBlock,   \* executions the weight budget admits in a block
    MaxPendingRetryExpirationsPerBlock  \* items per block of three queues

ASSUME EngineAssumption ==
    /\ MaxBlock \in Nat
    /\ LastCreateBlock \in Nat
    /\ Kinds \subseteq Kind
    /\ Outcomes \subseteq {"Executed", "RetryableFailed", "FatalFailed", "Ignored"}
    /\ Faults \subseteq {"callback", "track", "notify"}
    /\ ExecutionsPerBlock \in Nat \ {0}
    /\ MaxPendingRetryExpirationsPerBlock \in Nat \ {0}

VARIABLES
    hook,       \* where on_initialize is: phase, items left, budget left
    effects,    \* id -> how often its business action has been committed
    notified    \* ids whose business module has accepted the failure notice

hookVars == <<hook, effects, notified>>
storeVars == <<now, NextProposalId, Proposals>>
vars == <<storeVars, mutexVars, expiryVars, executionVars, cleanupVars, hookVars>>

Phase == {"body", "expiry_cursor", "expiry_now", "execute", "finalize",
          "retry_pending", "deadlines", "notify", "activate", "cleanup"}

TypeOK ==
    /\ now \in Nat
    /\ NextProposalId \in Nat
    /\ IsMap(Proposals, ProposalId, ProposalRecord)
    /\ MutexTypeOK
    /\ ExpiryTypeOK
    /\ ExecutionTypeOK
    /\ CleanupTypeOK
    /\ hook \in [phase : Phase, todo : SUBSET ProposalId,
                 budget : Nat, blocked : BOOLEAN]
    /\ effects \in [ProposalId -> Nat]
    /\ notified \subseteq ProposalId

Body == [phase |-> "body", todo |-> {}, budget |-> 0, blocked |-> FALSE]

Init ==
    /\ now = 0
    /\ NextProposalId = 0
    /\ Proposals = EmptyMap
    /\ MutexInit
    /\ ExpiryInit
    /\ ExecutionInit
    /\ CleanupInit
    /\ hook = Body
    /\ effects = [p \in ProposalId |-> 0]
    /\ notified = {}

InBody == hook.phase = "body"

-------------------------------------------------------------------------------
(* Side effects shared by the handlers.                                      *)

\* Mutant: a refused notice is dropped instead of queued.
NotifyAndForget(p) ==
    /\ PendingTerminalCleanups' = PendingTerminalCleanups \ {p}
    /\ notified' \in {notified \cup {p}} \cup
                      (IF "notify" \in Faults THEN {notified} ELSE {})

\* notify_execution_failed_terminal_or_queue
NotifyOrQueue(p) ==
    \/ /\ notified' = notified \cup {p}
       /\ PendingTerminalCleanups' = PendingTerminalCleanups \ {p}
    \/ /\ "notify" \in Faults
       /\ PendingTerminalCleanups' = PendingTerminalCleanups \cup {p}
       /\ UNCHANGED notified

\* apply_terminal_side_effects, the part common to the terminal statuses,
\* when the Track accepts the status.
TerminalSideEffects(p) ==
    /\ ScheduleCleanup(p)
    /\ ProposalExecutionRetryStates' = Remove(ProposalExecutionRetryStates, p)
    /\ PendingExecutionRetryExpirations' = PendingExecutionRetryExpirations \ {p}
    /\ ReleaseMutexes(p)
    /\ UNCHANGED <<PendingCleanupQueue, PendingProposalCleanups>>

\* ... for REJECTED and EXECUTED,
FinishTerminal(p) ==
    /\ TerminalSideEffects(p)
    /\ PendingTerminalCleanups' = PendingTerminalCleanups \ {p}
    /\ UNCHANGED notified

\* ... and for EXECUTION_FAILED, which the business module is told of.
FinishFailed(p) == TerminalSideEffects(p) /\ NotifyOrQueue(p)

\* set_status_and_emit for a decision on a proposal in VOTING.
SetStatusAndEmit(p, st) ==
    /\ SetProposalStatus(p, st)
    /\ RemoveActiveProposal(Proposals[p].subject, p)
    /\ ForgetAutoFinalize(p)
    /\ IF st = "PASSED"
       THEN /\ PendingProposalExecutions' =
                 Insert(PendingProposalExecutions, p, FirstAttempt)
            /\ IF ShouldReleaseMutexes(Proposals[p], st)
               THEN ReleaseMutexes(p)
               ELSE UNCHANGED <<InternalProposalMutexes, ProposalMutexBindings>>
            /\ UNCHANGED <<ProposalExecutionRetryStates, notified, cleanupVars,
                           PendingExecutionRetryExpirations, PendingTerminalCleanups>>
       ELSE /\ FinishTerminal(p)
            /\ UNCHANGED PendingProposalExecutions
    /\ UNCHANGED <<now, NextProposalId, effects, PendingTerminalFinalizations,
                   TerminalFinalizationDeadLetters, ExecutionRetryDeadlines>>

\* The expiry index once p is taken off the bucket of its first stage.
WithoutOldExpiry(p) == ProposalsByExpiry \ {<<Proposals[p].end + 1, p>>}

\* advance_joint_to_referendum: the old bucket is left before the new one is
\* asked for room.
AdvanceToReferendum(p) ==
    LET end == now + VotingDuration
    IN  /\ Proposals' = [Proposals EXCEPT ![p].stage = "referendum", ![p].end = end]
        /\ HasRoomIn(WithoutOldExpiry(p), end + 1)
        /\ ProposalsByExpiry' = WithoutOldExpiry(p) \cup {<<end + 1, p>>}
        /\ ReleaseMutexes(p)
        /\ UNCHANGED <<now, NextProposalId, ActiveProposalsBySubject, executionVars,
                       cleanupVars, effects, notified>>

\* finalize_timeout of the internal and joint tracks, when it decides.  A
\* tally that already decides the vote cannot meet a timeout, but the code
\* reads it again and so does the model.
TimeoutDecides(p) ==
    /\ IsOverdue(p)
    /\ \E st \in {"PASSED", "REJECTED"} :
          /\ Proposals[p].stage = "internal" => st = "REJECTED"
          /\ Proposals[p].stage = "joint" => st = "PASSED"
          /\ SetStatusAndEmit(p, st)
    /\ UNCHANGED ProposalsByExpiry

\* finalize_timeout of the joint stage without unanimity.
TimeoutAdvances(p) ==
    /\ IsOverdue(p)
    /\ Proposals[p].stage = "joint"
    /\ AdvanceToReferendum(p)

\* A passed proposal turns EXECUTION_FAILED with its side effects.
FailAndFinish(p) ==
    /\ SetProposalStatus(p, "EXECUTION_FAILED")
    /\ FinishFailed(p)

-------------------------------------------------------------------------------
(* Extrinsics, between two hooks.                                            *)

\* Creation of a proposal by one of the tracks: allocate_and_lock and
\* finish_proposal_create of internal-vote, do_create_joint_proposal.
CreateProposal(p, s, kind, mutexKind) ==
    LET end == now + VotingDuration
    IN  /\ InBody
        /\ now <= LastCreateBlock
        /\ kind = "joint" => mutexKind = "Regular"
        /\ AllocateProposalId(p)
        /\ TryAddActiveProposal(s, p)
        /\ AcquireMutex(p, s, mutexKind)
        /\ Proposals' =
             Insert(Proposals, p, [kind |-> kind, stage |-> kind, subject |-> s,
                                   status |-> "VOTING", end |-> end])
        /\ BucketHasRoom(end + 1)
        /\ ProposalsByExpiry' = ProposalsByExpiry \cup {<<end + 1, p>>}
        /\ UNCHANGED <<now, PendingExpiryBucket, AutoFinalizeRetryStates,
                       AutoFinalizeDeadLetters, executionVars, cleanupVars, hookVars>>

\* The vote that decides an open proposal.  The joint stage never rejects.
DecideByVote(p, st) ==
    /\ InBody
    /\ IsOpen(p)
    /\ Proposals[p].stage = "joint" => st = "PASSED"
    /\ SetStatusAndEmit(p, st)
    /\ UNCHANGED <<hook, ProposalsByExpiry, PendingExpiryBucket>>

\* The vote that ends the joint stage without unanimity.
AdvanceByVote(p) ==
    /\ InBody
    /\ IsOpen(p)
    /\ Proposals[p].stage = "joint"
    /\ AdvanceToReferendum(p)
    /\ UNCHANGED <<hook, PendingExpiryBucket, AutoFinalizeRetryStates,
                   AutoFinalizeDeadLetters>>

\* finalize_proposal: anybody may settle an overdue proposal.  Unlike the
\* hook, the extrinsic keeps the retry record of a proposal that advances.
FinalizeProposal(p) ==
    /\ InBody
    /\ \/ TimeoutDecides(p)
       \/ /\ TimeoutAdvances(p)
          /\ UNCHANGED <<AutoFinalizeRetryStates, AutoFinalizeDeadLetters>>
    /\ UNCHANGED <<hook, PendingExpiryBucket>>

\* retry_passed_proposal by an administrator of the snapshot; attempts that
\* end in Err roll back and are not steps.
RetryPassedProposal(p, outcome) ==
    LET state == ProposalExecutionRetryStates[p]
        last == state.manual_attempts + 1 >= MaxManualExecutionAttempts
    IN  /\ InBody
        /\ HasStatus(p, "PASSED")
        /\ p \in DOMAIN ProposalExecutionRetryStates
        /\ now <= state.retry_deadline
        /\ state.manual_attempts < MaxManualExecutionAttempts
        /\ \/ /\ outcome = "Executed"
              /\ SetProposalStatus(p, "EXECUTED")
              /\ effects' = [effects EXCEPT ![p] = @ + 1]
              /\ FinishTerminal(p)
           \/ /\ outcome = "FatalFailed" \/ (outcome = "RetryableFailed" /\ last)
              /\ FailAndFinish(p)
              /\ UNCHANGED effects
           \/ /\ outcome = "RetryableFailed" /\ ~last
              /\ ProposalExecutionRetryStates' =
                   [ProposalExecutionRetryStates EXCEPT ![p].manual_attempts = @ + 1]
              /\ UNCHANGED <<Proposals, InternalProposalMutexes, ProposalMutexBindings,
                             PendingExecutionRetryExpirations, PendingTerminalCleanups,
                             cleanupVars, effects, notified>>
        /\ UNCHANGED <<now, NextProposalId, ActiveProposalsBySubject, expiryVars,
                       PendingProposalExecutions, PendingTerminalFinalizations,
                       TerminalFinalizationDeadLetters, ExecutionRetryDeadlines, hook>>

\* cancel_passed_proposal: needs the owner's consent, not a retry window; the
\* execution queue entry stays and is dropped by the next hook.
CancelPassedProposal(p) ==
    /\ InBody
    /\ HasStatus(p, "PASSED")
    /\ FailAndFinish(p)
    /\ UNCHANGED <<now, NextProposalId, ActiveProposalsBySubject, expiryVars,
                   PendingProposalExecutions, PendingTerminalFinalizations,
                   TerminalFinalizationDeadLetters, ExecutionRetryDeadlines,
                   hook, effects>>

-------------------------------------------------------------------------------
(* on_initialize, phase by phase.  Entering a phase collects its items.      *)

\* What a loop bounded by n items may take from the map S in hash order.
Batch(S, n) ==
    {T \in SUBSET S : Cardinality(T) <= n /\ (T = S \/ Cardinality(T) = n)}

Enter(phase, items, budget) ==
    hook' = [phase |-> phase, todo |-> items, budget |-> budget, blocked |-> FALSE]

PhaseDone(phase) == hook.phase = phase /\ hook.todo = {}

Item(phase, p) == hook.phase = phase /\ p \in hook.todo

DropItem(p) == hook' = [hook EXCEPT !.todo = @ \ {p}]

\* A new block starts with the bucket an earlier block left half done.
NewBlock ==
    /\ InBody
    /\ now < MaxBlock
    /\ now' = now + 1
    /\ \E T \in Drains(PendingExpiryBucket, MaxAutoFinalizePerBlock, WeightAllowance) :
         LET remaining == HasRemaining(PendingExpiryBucket, T)
         IN  /\ DrainBucket(PendingExpiryBucket, T)
             /\ PendingExpiryBucket' = IF remaining THEN PendingExpiryBucket ELSE NoBucket
             /\ hook' = [phase |-> "expiry_cursor", todo |-> T, blocked |-> remaining,
                         budget |-> MaxAutoFinalizePerBlock - Cardinality(T)]
    /\ UNCHANGED <<NextProposalId, Proposals, mutexVars, AutoFinalizeRetryStates,
                   AutoFinalizeDeadLetters, executionVars, cleanupVars, effects, notified>>

\* Items the weight left over by the cursor's bucket still admits: the items
\* done cost at most what was reserved for them, plus one bucket read.
LeftoverAllowances ==
    LET done == MaxAutoFinalizePerBlock - hook.budget
    IN  IF done = 0 THEN {WeightAllowance}
        ELSE {w \in 0 .. WeightAllowance : w + done + 1 >= WeightAllowance}

\* Then comes this block's own bucket, unless the cursor's bucket has items
\* left or has used up the count budget.
EnterExpiryNow ==
    /\ PhaseDone("expiry_cursor")
    /\ IF hook.budget > 0 /\ ~hook.blocked
       THEN \E w \in LeftoverAllowances : \E T \in Drains(now, hook.budget, w) :
              /\ DrainBucket(now, T)
              /\ PendingExpiryBucket' = IF HasRemaining(now, T) THEN now
                                        ELSE PendingExpiryBucket
              /\ Enter("expiry_now", T, 0)
       ELSE /\ Enter("expiry_now", {}, 0)
            /\ UNCHANGED <<ProposalsByExpiry, PendingExpiryBucket>>
    /\ UNCHANGED <<storeVars, mutexVars, AutoFinalizeRetryStates,
                   AutoFinalizeDeadLetters, executionVars, cleanupVars, effects, notified>>

ExpiryItem(p) == Item("expiry_cursor", p) \/ Item("expiry_now", p)

\* An entry whose proposal is gone, decided or was given a new end.
SkipExpired(p) ==
    /\ ExpiryItem(p)
    /\ ~IsOverdue(p)
    /\ ForgetAutoFinalize(p)
    /\ DropItem(p)
    /\ UNCHANGED <<storeVars, mutexVars, ProposalsByExpiry, PendingExpiryBucket,
                   executionVars, cleanupVars, effects, notified>>

AutoFinalize(p) ==
    /\ ExpiryItem(p)
    /\ \/ TimeoutDecides(p)
       \/ TimeoutAdvances(p) /\ ForgetAutoFinalize(p)
    /\ DropItem(p)
    /\ UNCHANGED PendingExpiryBucket

\* finalize_timeout returns Err: the rejection callback or the Track refuses,
\* or the bucket of the referendum's end is full.
AutoFinalizeFails(p) ==
    /\ ExpiryItem(p)
    /\ IsOverdue(p)
    /\ IF Proposals[p].stage = "joint"
       THEN ~HasRoomIn(WithoutOldExpiry(p), now + VotingDuration + 1)
       ELSE Faults \cap {"callback", "track"} # {}
    /\ DeferAutoFinalize(p)
    /\ DropItem(p)
    /\ UNCHANGED <<storeVars, mutexVars, PendingExpiryBucket, executionVars,
                   cleanupVars, effects, notified>>

-------------------------------------------------------------------------------
(* process_pending_proposal_executions                                       *)

EnterExecute ==
    /\ PhaseDone("expiry_now")
    /\ \E T \in Batch(Due(PendingProposalExecutions), ExecutionsPerBlock) :
          Enter("execute", T, 0)
    /\ UNCHANGED <<storeVars, mutexVars, expiryVars, executionVars, cleanupVars,
                   effects, notified>>

\* Everything but the proposal's own outcome stays as it is.
executeFrame ==
    <<now, NextProposalId, ActiveProposalsBySubject, expiryVars,
      TerminalFinalizationDeadLetters>>

\* An entry left behind by a cancellation, or an orphan.
SkipExecution(p) ==
    /\ Item("execute", p)
    /\ ~HasStatus(p, "PASSED")
    /\ PendingProposalExecutions' = Remove(PendingProposalExecutions, p)
    /\ DropItem(p)
    /\ UNCHANGED <<executeFrame, Proposals, InternalProposalMutexes, ProposalMutexBindings,
                   PendingTerminalFinalizations, ProposalExecutionRetryStates,
                   ExecutionRetryDeadlines, PendingExecutionRetryExpirations,
                   PendingTerminalCleanups, cleanupVars, effects, notified>>

\* The callback answers and the Track accepts: apply_automatic_execution_outcome.
ExecuteProposal(p, outcome) ==
    /\ Item("execute", p)
    /\ HasStatus(p, "PASSED")
    /\ PendingProposalExecutions' = Remove(PendingProposalExecutions, p)
    /\ DropItem(p)
    /\ \/ /\ outcome = "Executed"
          /\ SetProposalStatus(p, "EXECUTED")
          /\ effects' = [effects EXCEPT ![p] = @ + 1]
          /\ FinishTerminal(p)
          /\ UNCHANGED ExecutionRetryDeadlines
       \/ /\ \/ outcome = "FatalFailed"
             \/ outcome = "RetryableFailed" /\ Proposals[p].kind # "internal"
          /\ FailAndFinish(p)
          /\ UNCHANGED <<effects, ExecutionRetryDeadlines>>
       \/ /\ outcome = "RetryableFailed" /\ Proposals[p].kind = "internal"
          /\ ScheduleExecutionRetry(p)
          /\ UNCHANGED <<Proposals, InternalProposalMutexes, ProposalMutexBindings,
                         PendingTerminalCleanups, cleanupVars, effects, notified>>
    /\ UNCHANGED <<executeFrame, PendingTerminalFinalizations>>

\* Mutant: what the callback did before the error stays.
KeepCallbackEffects(p) == effects' = [effects EXCEPT ![p] = @ + 1]

\* TransactionOutcome::Rollback: the business action leaves no trace.
RollbackCallback(p) == UNCHANGED effects

\* The transaction rolled back: handle_automatic_execution_failure.
ExecutionFails(p) ==
    LET entry == PendingProposalExecutions[p]
    IN  /\ Item("execute", p)
        /\ HasStatus(p, "PASSED")
        /\ "Ignored" \in Outcomes \/ Faults \cap {"callback", "track"} # {}
        /\ RollbackCallback(p)
        /\ DropItem(p)
        /\ IF entry.attempts + 1 >= MaxManualExecutionAttempts
           THEN /\ SetProposalStatus(p, "EXECUTION_FAILED")
                /\ PendingProposalExecutions' = Remove(PendingProposalExecutions, p)
                /\ PendingTerminalFinalizations' =
                     Insert(PendingTerminalFinalizations, p, FirstAttempt)
           ELSE /\ PendingProposalExecutions' =
                     Insert(PendingProposalExecutions, p, Deferred(entry))
                /\ UNCHANGED <<Proposals, PendingTerminalFinalizations>>
        /\ UNCHANGED <<executeFrame, InternalProposalMutexes, ProposalMutexBindings,
                       ProposalExecutionRetryStates, ExecutionRetryDeadlines,
                       PendingExecutionRetryExpirations, PendingTerminalCleanups,
                       cleanupVars, notified>>

-------------------------------------------------------------------------------
(* process_pending_terminal_finalizations                                    *)

EnterFinalize ==
    /\ PhaseDone("execute")
    /\ \E T \in Batch(Due(PendingTerminalFinalizations),
                      MaxPendingRetryExpirationsPerBlock) : Enter("finalize", T, 0)
    /\ UNCHANGED <<storeVars, mutexVars, expiryVars, executionVars, cleanupVars,
                   effects, notified>>

\* The owed side effects of an EXECUTION_FAILED proposal are applied at last.
FinalizeTerminal(p) ==
    /\ Item("finalize", p)
    /\ HasStatus(p, "EXECUTION_FAILED")
    /\ FinishFailed(p)
    /\ PendingTerminalFinalizations' = Remove(PendingTerminalFinalizations, p)
    /\ TerminalFinalizationDeadLetters' = TerminalFinalizationDeadLetters \ {p}
    /\ DropItem(p)
    /\ UNCHANGED <<storeVars, ActiveProposalsBySubject, expiryVars,
                   PendingProposalExecutions, ExecutionRetryDeadlines, effects>>

\* The Track refuses again: back off, or give up for good.
FinalizeTerminalFails(p) ==
    LET entry == PendingTerminalFinalizations[p]
    IN  /\ Item("finalize", p)
        /\ HasStatus(p, "EXECUTION_FAILED")
        /\ "track" \in Faults
        /\ DropItem(p)
        /\ IF entry.attempts + 1 >= MaxManualExecutionAttempts
           THEN /\ PendingTerminalFinalizations' = Remove(PendingTerminalFinalizations, p)
                /\ TerminalFinalizationDeadLetters' =
                     TerminalFinalizationDeadLetters \cup {p}
           ELSE /\ PendingTerminalFinalizations' =
                     Insert(PendingTerminalFinalizations, p, Deferred(entry))
                /\ UNCHANGED TerminalFinalizationDeadLetters
        /\ UNCHANGED <<storeVars, mutexVars, expiryVars, PendingProposalExecutions,
                       ProposalExecutionRetryStates, ExecutionRetryDeadlines,
                       PendingExecutionRetryExpirations, PendingTerminalCleanups,
                       cleanupVars, effects, notified>>

-------------------------------------------------------------------------------
(* process_pending_execution_retry_expirations and                           *)
(* process_execution_retry_deadlines                                         *)

EnterRetryPending ==
    /\ PhaseDone("finalize")
    /\ \E T \in Batch(PendingExecutionRetryExpirations,
                      MaxPendingRetryExpirationsPerBlock) : Enter("retry_pending", T, 0)
    /\ UNCHANGED <<storeVars, mutexVars, expiryVars, executionVars, cleanupVars,
                   effects, notified>>

EnterDeadlines ==
    /\ PhaseDone("retry_pending")
    /\ Enter("deadlines", DeadlineBucket(now), 0)
    /\ ExecutionRetryDeadlines' = ExecutionRetryDeadlines \ ({now} \X ProposalId)
    /\ UNCHANGED <<storeVars, mutexVars, expiryVars, PendingProposalExecutions,
                   PendingTerminalFinalizations, TerminalFinalizationDeadLetters,
                   ProposalExecutionRetryStates, PendingExecutionRetryExpirations,
                   PendingTerminalCleanups, cleanupVars, effects, notified>>

DeadlineItem(p) == Item("retry_pending", p) \/ Item("deadlines", p)

deadlineFrame ==
    <<now, NextProposalId, ActiveProposalsBySubject, expiryVars,
      PendingProposalExecutions, PendingTerminalFinalizations,
      TerminalFinalizationDeadLetters, effects>>

\* No retry window is open any more, or its proposal has left PASSED.
SkipDeadline(p) ==
    /\ DeadlineItem(p)
    /\ p \notin DOMAIN ProposalExecutionRetryStates
    /\ PendingExecutionRetryExpirations' =
         IF hook.phase = "retry_pending"
         THEN PendingExecutionRetryExpirations \ {p}
         ELSE PendingExecutionRetryExpirations
    /\ DropItem(p)
    /\ UNCHANGED <<deadlineFrame, Proposals, InternalProposalMutexes,
                   ProposalMutexBindings, ProposalExecutionRetryStates,
                   ExecutionRetryDeadlines, PendingTerminalCleanups, cleanupVars, notified>>

\* A queued deadline that still lies ahead gets a bucket if one has room now.
RequeueDeadline(p) ==
    LET deadline == ProposalExecutionRetryStates[p].retry_deadline
    IN  /\ Item("retry_pending", p)
        /\ p \in DOMAIN ProposalExecutionRetryStates
        /\ deadline > now
        /\ IF DeadlineBucketsWithRoom(deadline) # {}
           THEN /\ RescheduleDeadline(p, deadline)
                /\ PendingExecutionRetryExpirations' =
                     PendingExecutionRetryExpirations \ {p}
           ELSE UNCHANGED <<ExecutionRetryDeadlines, PendingExecutionRetryExpirations>>
        /\ DropItem(p)
        /\ UNCHANGED <<deadlineFrame, Proposals, InternalProposalMutexes,
                       ProposalMutexBindings, ProposalExecutionRetryStates,
                       PendingTerminalCleanups, cleanupVars, notified>>

WindowOver(p) ==
    /\ DeadlineItem(p)
    /\ HasStatus(p, "PASSED")
    /\ p \in DOMAIN ProposalExecutionRetryStates
    /\ ProposalExecutionRetryStates[p].retry_deadline <= now

\* The window closes without an execution.
ExpireRetry(p) ==
    /\ WindowOver(p)
    /\ FailAndFinish(p)
    /\ DropItem(p)
    /\ UNCHANGED <<deadlineFrame, ExecutionRetryDeadlines>>

\* The Track refuses: the next block's bucket, or the pending set, tries again.
ExpireRetryFails(p) ==
    /\ WindowOver(p)
    /\ "track" \in Faults
    /\ IF hook.phase = "deadlines"
       THEN RescheduleOrQueue(p, now + 1)
       ELSE UNCHANGED <<ExecutionRetryDeadlines, PendingExecutionRetryExpirations>>
    /\ DropItem(p)
    /\ UNCHANGED <<deadlineFrame, Proposals, InternalProposalMutexes,
                   ProposalMutexBindings, ProposalExecutionRetryStates,
                   PendingTerminalCleanups, cleanupVars, notified>>

-------------------------------------------------------------------------------
(* process_pending_terminal_cleanups                                         *)

EnterNotify ==
    /\ PhaseDone("deadlines")
    /\ \E T \in Batch(PendingTerminalCleanups, MaxPendingRetryExpirationsPerBlock) :
          Enter("notify", T, 0)
    /\ UNCHANGED <<storeVars, mutexVars, expiryVars, executionVars, cleanupVars,
                   effects, notified>>

\* The notice is repeated while the proposal exists, dropped once it is gone.
Notify(p) ==
    /\ Item("notify", p)
    /\ \/ /\ HasStatus(p, "EXECUTION_FAILED")
          /\ notified' = notified \cup {p}
          /\ PendingTerminalCleanups' = PendingTerminalCleanups \ {p}
       \/ /\ HasStatus(p, "EXECUTION_FAILED")
          /\ "notify" \in Faults
          /\ UNCHANGED <<notified, PendingTerminalCleanups>>
       \/ /\ ~HasStatus(p, "EXECUTION_FAILED")
          /\ PendingTerminalCleanups' = PendingTerminalCleanups \ {p}
          /\ UNCHANGED notified
    /\ DropItem(p)
    /\ UNCHANGED <<storeVars, mutexVars, expiryVars, PendingProposalExecutions,
                   PendingTerminalFinalizations, TerminalFinalizationDeadLetters,
                   ProposalExecutionRetryStates, ExecutionRetryDeadlines,
                   PendingExecutionRetryExpirations, cleanupVars, effects>>

-------------------------------------------------------------------------------
(* process_scheduled_cleanups and process_pending_cleanup_steps              *)

EnterActivate ==
    /\ PhaseDone("notify")
    /\ Enter("activate", {}, MaxCleanupActivationsPerBlock)
    /\ UNCHANGED <<storeVars, mutexVars, expiryVars, executionVars, cleanupVars,
                   effects, notified>>

SpendBudget == hook' = [hook EXCEPT !.budget = @ - 1]

\* trigger_cleanup of the due head of the retention FIFO.
ActivateCleanup ==
    LET p == Head(ScheduledCleanups).proposal_id
    IN  /\ hook.phase = "activate"
        /\ hook.budget > 0
        /\ CleanupDue
        /\ Exists(p)
        /\ ActivateHead(p)
        /\ RemoveActiveProposal(Proposals[p].subject, p)
        /\ SpendBudget
        /\ UNCHANGED <<storeVars, InternalProposalMutexes, ProposalMutexBindings,
                       expiryVars, executionVars, effects, notified>>

EnterCleanup ==
    /\ hook.phase = "activate"
    /\ hook.budget = 0 \/ ~CleanupDue
    /\ Enter("cleanup", {}, MaxCleanupStepsPerBlock)
    /\ UNCHANGED <<storeVars, mutexVars, expiryVars, executionVars, cleanupVars,
                   effects, notified>>

CleanupTurn(p) ==
    /\ hook.phase = "cleanup"
    /\ hook.budget > 0
    /\ PendingCleanupQueue # << >>
    /\ p = Head(PendingCleanupQueue)
    /\ p \in DOMAIN PendingProposalCleanups
    /\ SpendBudget

\* A bounded deletion step that leaves work for a later turn; the last stage
\* is one too when no Track answers for the proposal's kind.
CleanupStep(p) ==
    /\ CleanupTurn(p)
    /\ PendingProposalCleanups[p] = FinalCleanup => "track" \in Faults
    /\ \E stage \in NextStages(PendingProposalCleanups[p]) : Requeue(p, stage)
    /\ UNCHANGED <<storeVars, mutexVars, expiryVars, executionVars,
                   ScheduledCleanups, effects, notified>>

\* FinalCleanup removes the proposal and whatever the queues still hold of it.
PurgeProposal(p) ==
    /\ CleanupTurn(p)
    /\ PendingProposalCleanups[p] = FinalCleanup
    /\ Dequeue(p)
    /\ ReleaseMutexes(p)
    /\ Proposals' = Remove(Proposals, p)
    /\ ProposalExecutionRetryStates' = Remove(ProposalExecutionRetryStates, p)
    /\ PendingProposalExecutions' = Remove(PendingProposalExecutions, p)
    /\ PendingTerminalFinalizations' = Remove(PendingTerminalFinalizations, p)
    /\ TerminalFinalizationDeadLetters' = TerminalFinalizationDeadLetters \ {p}
    /\ ForgetAutoFinalize(p)
    /\ UNCHANGED <<now, NextProposalId, ActiveProposalsBySubject, ProposalsByExpiry,
                   PendingExpiryBucket, ExecutionRetryDeadlines,
                   PendingExecutionRetryExpirations, PendingTerminalCleanups,
                   ScheduledCleanups, effects, notified>>

\* The hook returns; extrinsics of the block follow.
EndHook ==
    /\ hook.phase = "cleanup"
    /\ hook.budget = 0 \/ PendingCleanupQueue = << >>
    /\ hook' = Body
    /\ UNCHANGED <<storeVars, mutexVars, expiryVars, executionVars, cleanupVars,
                   effects, notified>>

-------------------------------------------------------------------------------

\* The last modelled block has been reached: the bound stops the chain.
AtBound == InBody /\ now = MaxBlock /\ UNCHANGED vars

Extrinsic ==
    \E p \in ProposalId :
       \/ \E s \in Subject, kind \in Kinds, mutexKind \in MutexKind :
             CreateProposal(p, s, kind, mutexKind)
       \/ \E st \in {"PASSED", "REJECTED"} : DecideByVote(p, st)
       \/ AdvanceByVote(p)
       \/ FinalizeProposal(p)
       \/ \E outcome \in Outcomes : RetryPassedProposal(p, outcome)
       \/ CancelPassedProposal(p)

HookStep ==
    \/ EnterExpiryNow
    \/ EnterExecute
    \/ EnterFinalize
    \/ EnterRetryPending
    \/ EnterDeadlines
    \/ EnterNotify
    \/ EnterActivate
    \/ ActivateCleanup
    \/ EnterCleanup
    \/ EndHook
    \/ \E p \in ProposalId :
          \/ SkipExpired(p) \/ AutoFinalize(p) \/ AutoFinalizeFails(p)
          \/ SkipExecution(p) \/ ExecutionFails(p)
          \/ \E outcome \in Outcomes : ExecuteProposal(p, outcome)
          \/ FinalizeTerminal(p) \/ FinalizeTerminalFails(p)
          \/ SkipDeadline(p) \/ RequeueDeadline(p)
          \/ ExpireRetry(p) \/ ExpireRetryFails(p)
          \/ Notify(p)
          \/ CleanupStep(p) \/ PurgeProposal(p)

Next == Extrinsic \/ NewBlock \/ HookStep \/ AtBound

Spec == Init /\ [][Next]_vars

\* Blocks keep coming and a hook that has begun runs to its end.
Fairness == WF_vars(NewBlock) /\ WF_vars(HookStep)

FairSpec == Spec /\ Fairness
===============================================================================
