----------------------------- MODULE CleanupQueue -----------------------------
(***************************************************************************)
(* Deferred deletion of finished proposals (votingengine/src/cleanup.rs and *)
(* maintenance.rs): a FIFO of retention deadlines feeds a fair round-robin  *)
(* queue that deletes one bounded stage at a time.                          *)
(***************************************************************************)
EXTENDS ProposalStore, Sequences

CONSTANTS
    Retention,                       \* RETENTION_DAYS in blocks
    MaxCleanupActivationsPerBlock,   \* tasks activated per block
    MaxCleanupStepsPerBlock          \* stage steps per block

ASSUME CleanupAssumption ==
    /\ Retention \in Nat
    /\ MaxCleanupActivationsPerBlock \in Nat
    /\ MaxCleanupStepsPerBlock \in Nat

VARIABLES
    ScheduledCleanups,         \* FIFO of retention deadlines
    PendingCleanupQueue,       \* round-robin FIFO of ids being deleted
    PendingProposalCleanups    \* id -> the stage it has reached

cleanupVars == <<ScheduledCleanups, PendingCleanupQueue, PendingProposalCleanups>>

CleanupStages == <<"AdminSnapshots", "VoterSnapshots", "InstitutionTicketCounts",
                   "TrackData", "ProposalObject", "FinalCleanup">>
CleanupStage == 1 .. 6       \* the indices of CleanupStages
FinalCleanup == 6
\* The stage before FinalCleanup always completes in one step.
ProposalObject == 5

ScheduledCleanup == [cleanup_at : Nat, proposal_id : ProposalId]

CleanupTypeOK ==
    /\ ScheduledCleanups \in Seq(ScheduledCleanup)
    /\ PendingCleanupQueue \in Seq(ProposalId)
    /\ IsMap(PendingProposalCleanups, ProposalId, CleanupStage)

CleanupInit ==
    /\ ScheduledCleanups = << >>
    /\ PendingCleanupQueue = << >>
    /\ PendingProposalCleanups = EmptyMap

\* Mutant: a new task is put before the older ones.
ScheduleCleanupFirst(p) ==
    ScheduledCleanups' =
        <<[cleanup_at |-> now + Retention, proposal_id |-> p]>> \o ScheduledCleanups

\* schedule_cleanup
ScheduleCleanup(p) ==
    ScheduledCleanups' =
        Append(ScheduledCleanups,
               [cleanup_at |-> now + Retention, proposal_id |-> p])

\* The head of the retention FIFO is due.
CleanupDue ==
    /\ ScheduledCleanups # << >>
    /\ Head(ScheduledCleanups).cleanup_at <= now

\* Mutant: the head is read but not taken off the FIFO.
ActivateAndKeepHead(p) ==
    /\ UNCHANGED ScheduledCleanups
    /\ PendingCleanupQueue' = Append(PendingCleanupQueue, p)
    /\ PendingProposalCleanups' = Insert(PendingProposalCleanups, p, 1)

\* trigger_cleanup's queue part for the head task p.  Its early return for a
\* task already activated is never taken (CleanedUpOnce); the model would
\* deadlock there.
ActivateHead(p) ==
    /\ p \notin DOMAIN PendingProposalCleanups
    /\ ScheduledCleanups' = Tail(ScheduledCleanups)
    /\ PendingCleanupQueue' = Append(PendingCleanupQueue, p)
    /\ PendingProposalCleanups' = Insert(PendingProposalCleanups, p, 1)

\* The stages process_pending_cleanup_step may leave p in: the same one while
\* keys of a prefix remain, else the next.  FinalCleanup keeps its own stage
\* when the Track does not clean up.
NextStages(stage) ==
    IF stage < ProposalObject THEN {stage, stage + 1} ELSE {FinalCleanup}

\* A step that keeps p queued: move it to the tail with its new stage.
Requeue(p, stage) ==
    /\ PendingCleanupQueue' = Append(Tail(PendingCleanupQueue), p)
    /\ PendingProposalCleanups' = Insert(PendingProposalCleanups, p, stage)

\* Mutant: the stage record survives the last step.
DequeueOnly(p) ==
    /\ PendingCleanupQueue' = Tail(PendingCleanupQueue)
    /\ UNCHANGED PendingProposalCleanups

\* A step that ends p's deletion.
Dequeue(p) ==
    /\ PendingCleanupQueue' = Tail(PendingCleanupQueue)
    /\ PendingProposalCleanups' = Remove(PendingProposalCleanups, p)
===============================================================================
