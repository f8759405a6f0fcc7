--------------------------- MODULE EngineProperties ---------------------------
(***************************************************************************)
(* What the voting engine is checked for.                                   *)
(***************************************************************************)
EXTENDS VotingEngine

\* A failed proposal whose terminal side effects have not been applied.
SideEffectsOwed(p) ==
    \/ p \in DOMAIN PendingTerminalFinalizations
    \/ p \in TerminalFinalizationDeadLetters

\* When p must hold its subject's lock: from creation until its last status
\* change has been finished; a joint proposal only during the joint stage.
NeedsLock(p) ==
    /\ Exists(p)
    /\ \/ Proposals[p].kind = "internal"
       \/ Proposals[p].stage = "joint" /\ Proposals[p].status = "VOTING"
    /\ \/ Proposals[p].status \in {"VOTING", "PASSED"}
       \/ SideEffectsOwed(p)

\* Locks live exactly as long as needed: none is released while its proposal
\* may still act on the subject, none survives its proposal, and the lock is
\* the one on the proposal's own subject.
LockLifetime ==
    \A p \in ProposalId :
        IF NeedsLock(p)
        THEN \E kind \in MutexKind :
                ProposalMutexBindings[p] =
                    {[subject |-> Proposals[p].subject, kind |-> kind]}
        ELSE ProposalMutexBindings[p] = {}

\* The active list of a subject is exactly its undecided proposals, so the
\* limit of limit.rs neither leaks a slot nor admits one too many.
ActiveListsUndecided ==
    \A s \in Subject :
        /\ ActiveProposalsBySubject[s] =
             {p \in ProposalId : HasStatus(p, "VOTING") /\ Proposals[p].subject = s}
        /\ Cardinality(ActiveProposalsBySubject[s]) <= MaxActiveProposals

\* The first deadline bucket the hook has not visited yet.
NextDeadlineBlock ==
    IF hook.phase \in {"expiry_cursor", "expiry_now", "execute", "finalize",
                       "retry_pending"}
    THEN now ELSE now + 1

\* The expiry of p's retry window is registered somewhere the hook looks.
DeadlineRegistered(p) ==
    \/ p \in PendingExecutionRetryExpirations
    \/ Item("deadlines", p)
    \/ \E e \in ExecutionRetryDeadlines : e[2] = p /\ e[1] >= NextDeadlineBlock

\* No passed proposal is forgotten: the execution queue has it, or its manual
\* retry window is open and will be closed by a block still to come; never both,
\* so the hook and an administrator never compete to execute it.
PassedIsQueued ==
    \A p \in ProposalId :
        /\ HasStatus(p, "PASSED") =>
             \/ p \in DOMAIN PendingProposalExecutions
             \/ p \in DOMAIN ProposalExecutionRetryStates /\ DeadlineRegistered(p)
        /\ p \in DOMAIN ProposalExecutionRetryStates =>
             /\ HasStatus(p, "PASSED")
             /\ p \notin DOMAIN PendingProposalExecutions
             /\ ProposalExecutionRetryStates[p].manual_attempts
                  < MaxManualExecutionAttempts

\* The list of entries a queue's loop has collected stays valid while it runs:
\* handling one proposal never takes another off the queue it was read from.
CollectedStillQueued ==
    /\ hook.phase = "execute" => hook.todo \subseteq DOMAIN PendingProposalExecutions
    /\ hook.phase = "finalize" => hook.todo \subseteq DOMAIN PendingTerminalFinalizations

\* How many places hold the rest of a finished proposal's life.
CleanupPlaces(p) ==
      Cardinality({i \in DOMAIN ScheduledCleanups :
                      ScheduledCleanups[i].proposal_id = p})
    + Cardinality({i \in DOMAIN PendingCleanupQueue : PendingCleanupQueue[i] = p})
    + (IF SideEffectsOwed(p) THEN 1 ELSE 0)

\* Terminal side effects are applied exactly once, whichever of the seven
\* handlers ends the proposal: a finished proposal waits for its deletion in one
\* place only, an unfinished or deleted one in none.
CleanedUpOnce ==
    \A p \in ProposalId :
        CleanupPlaces(p) =
            IF Exists(p) /\ IsTerminalStatus(Proposals[p].status) THEN 1 ELSE 0

\* The retention FIFO is ordered by due block, which is why
\* process_scheduled_cleanups may stop at the first future task.
CleanupFifoOrdered ==
    \A i, j \in DOMAIN ScheduledCleanups :
        i <= j => ScheduledCleanups[i].cleanup_at <= ScheduledCleanups[j].cleanup_at

\* The business module of a failed proposal has accepted the failure notice or
\* is still owed it, as soon as the side effects are applied; and it never gets
\* the notice for a proposal that did not fail.
FailureNoticeOwed ==
    \A p \in ProposalId :
        /\ HasStatus(p, "EXECUTION_FAILED") /\ ~SideEffectsOwed(p) =>
             p \in notified \/ p \in PendingTerminalCleanups
        /\ p \in notified /\ Exists(p) => HasStatus(p, "EXECUTION_FAILED")

\* While votes still count, the proposal is filed under the block after its end;
\* once overdue it is still filed somewhere, is being handled, or is a dead letter.
UndecidedIsIndexed ==
    \A p \in ProposalId :
        /\ IsOpen(p) => <<Proposals[p].end + 1, p>> \in ProposalsByExpiry
        /\ IsOverdue(p) =>
             \/ \E e \in ProposalsByExpiry : e[2] = p
             \/ ExpiryItem(p)
             \/ p \in AutoFinalizeDeadLetters

\* The two indexes of undecided proposals, the active lists and the expiry
\* buckets, agree with the proposals' statuses between any two steps of any call
\* and of the hook.
IndexesMatchStatus == ActiveListsUndecided /\ UndecidedIsIndexed

\* Nothing keyed by a deleted proposal outlives it, except entries that the
\* hook drops by itself when it meets them.
PurgedLeavesNothing ==
    \A p \in ProposalId \ DOMAIN Proposals :
        /\ ProposalMutexBindings[p] = {}
        /\ p \notin DOMAIN PendingProposalExecutions
        /\ p \notin DOMAIN PendingTerminalFinalizations
        /\ p \notin DOMAIN ProposalExecutionRetryStates
        /\ p \notin DOMAIN AutoFinalizeRetryStates
        /\ p \notin DOMAIN PendingProposalCleanups
        /\ p \notin AutoFinalizeDeadLetters \cup TerminalFinalizationDeadLetters

\* The storage comments say the index exists "for automatic timeout settlement
\* in on_initialize" and the cursor "records the bucket the previous block did
\* not finish": an overdue proposal is where some later hook will look.
OverdueWithinReach ==
    \A p \in ProposalId : IsOverdue(p) =>
        \/ ExpiryItem(p)
        \/ p \in AutoFinalizeDeadLetters
        \/ \E e \in ProposalsByExpiry :
              /\ e[2] = p
              /\ \/ e[1] > now
                 \/ e[1] = PendingExpiryBucket
                 \/ e[1] = now /\ hook.phase = "expiry_cursor"

-------------------------------------------------------------------------------
(* The engine implements the abstract lifecycle.                             *)

LifeStatusOf(p) ==
    IF Exists(p) THEN Proposals[p].status
    ELSE IF p < NextProposalId THEN "PURGED" ELSE "NONE"

Lifecycle == INSTANCE ProposalLifecycle
    WITH Proposal <- ProposalId,
         status <- [p \in ProposalId |-> LifeStatusOf(p)],
         committed <- effects

\* Every handler's effect on a proposal is one step of the lifecycle: decided
\* once, executed at most once and only when passed, deleted only when finished.
ImplementsLifecycle == Lifecycle!LifeSpec

-------------------------------------------------------------------------------
(* Liveness, under Fairness.                                                 *)

Settled(p) == Exists(p) => IsTerminalStatus(Proposals[p].status)

\* A passed proposal is executed or failed in bounded time, whatever its
\* callbacks answer and whether or not an administrator steps in.
PassedEventuallySettles ==
    \A p \in ProposalId : HasStatus(p, "PASSED") ~> Settled(p)

\* What the hook reaches it works off: when it turns to the bucket of its own
\* block (the condition of lib.rs:709), every overdue proposal filed there is
\* settled, deferred or reported, however many blocks the budget makes of it
\* and whatever other buckets fall due meanwhile.  Nothing is promised of a
\* bucket it passes over (OverdueWithinReach).
ReachedIsHandled ==
    \A p \in ProposalId :
        /\ PhaseDone("expiry_cursor") /\ hook.budget > 0 /\ ~hook.blocked
        /\ IsOverdue(p)
        /\ <<now, p>> \in ProposalsByExpiry
        ~> \/ ~IsOverdue(p)
           \/ p \in DOMAIN AutoFinalizeRetryStates
           \/ p \in AutoFinalizeDeadLetters
===============================================================================
