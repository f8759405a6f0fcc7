---------------------------- MODULE EngineLifecycle ----------------------------
(***************************************************************************)
(* Proofs that every handler of the voting engine keeps the records of a    *)
(* proposal in step with its status, for any number of proposals, subjects  *)
(* and any budgets: locks, queues, notices, active lists and deletion; and  *)
(* that the engine implements the lifecycle it promises.  The first part    *)
(* shows that the engine keeps its types and that the lock table agrees     *)
(* with the bindings of the proposals, the last one that the indexes by     *)
(* block file every proposal where a hook still to come looks.              *)
(*                                                                          *)
(* A handler works on one proposal.  The proofs follow this: each action    *)
(* leaves the records of all other proposals alone (Kept), keeps the local  *)
(* invariant of its own (Local), and moves it along the lifecycle (Moved).  *)
(***************************************************************************)
EXTENDS EngineProperties, StoreLemmas

-------------------------------------------------------------------------------
(* The effects the handlers share, one lemma each.                           *)

\* The side effects of a terminal status.
LEMMA SideEffectTypes ==
    ASSUME TypeOK, NEW p \in ProposalId, TerminalSideEffects(p)
    PROVE  /\ InternalProposalMutexes' \in [Subject -> MutexState]
           /\ ProposalMutexBindings' \in [ProposalId -> SUBSET Binding]
           /\ CleanupTypeOK'
           /\ IsMap(ProposalExecutionRetryStates, ProposalId, RetryRecord)'
           /\ PendingExecutionRetryExpirations' \subseteq ProposalId
  <1>1. [cleanup_at |-> now + Retention, proposal_id |-> p] \in ScheduledCleanup
    BY CleanupAssumption DEF TypeOK, ScheduledCleanup
  <1>2. CleanupTypeOK'
    BY <1>1 DEF TypeOK, CleanupTypeOK, TerminalSideEffects, ScheduleCleanup
  <1>3. IsMap(ProposalExecutionRetryStates, ProposalId, RetryRecord)'
    BY RemoveIsMap DEF TypeOK, ExecutionTypeOK, TerminalSideEffects
  <1>4. PendingExecutionRetryExpirations' \subseteq ProposalId
    BY DEF TypeOK, ExecutionTypeOK, TerminalSideEffects
  <1>5. /\ InternalProposalMutexes' \in [Subject -> MutexState]
        /\ ProposalMutexBindings' \in [ProposalId -> SUBSET Binding]
    BY ReleaseTypes DEF TypeOK, TerminalSideEffects
  <1> QED BY <1>2, <1>3, <1>4, <1>5

\* ... together with the failure notice, sent or queued.
LEMMA FinishTypes ==
    ASSUME TypeOK, NEW p \in ProposalId, FinishTerminal(p) \/ FinishFailed(p)
    PROVE  /\ InternalProposalMutexes' \in [Subject -> MutexState]
           /\ ProposalMutexBindings' \in [ProposalId -> SUBSET Binding]
           /\ CleanupTypeOK'
           /\ IsMap(ProposalExecutionRetryStates, ProposalId, RetryRecord)'
           /\ PendingExecutionRetryExpirations' \subseteq ProposalId
           /\ PendingTerminalCleanups' \subseteq ProposalId
           /\ notified' \subseteq ProposalId
  <1>1. TerminalSideEffects(p)
    BY DEF FinishTerminal, FinishFailed
  <1>2. /\ PendingTerminalCleanups' \subseteq ProposalId
        /\ notified' \subseteq ProposalId
    BY DEF FinishTerminal, FinishFailed, NotifyOrQueue, TypeOK, ExecutionTypeOK
  <1> QED BY <1>1, <1>2, SideEffectTypes

\* Dropping the retry record of a timeout.
LEMMA ForgetTypes ==
    ASSUME ExpiryTypeOK, NEW p, ForgetAutoFinalize(p)
    PROVE  /\ IsMap(AutoFinalizeRetryStates, ProposalId, AttemptRecord)'
           /\ AutoFinalizeDeadLetters' \subseteq ProposalId
  BY RemoveIsMap DEF ExpiryTypeOK, ForgetAutoFinalize

\* The doubling delay of a retry is a number of blocks.
LEMMA BackoffIsNat == \A a \in Nat \ {0} : Backoff(a) \in Nat
  <1> SUFFICES ASSUME NEW a \in Nat \ {0} PROVE Backoff(a) \in Nat
    OBVIOUS
  <1>1. CASE a >= 6
    BY <1>1 DEF Backoff
  <1>2. CASE ~(a >= 6)
    <2>1. a \in 1 .. 5
      BY <1>2
    <2> QED BY <1>2, <2>1 DEF Backoff
  <1> QED BY <1>1, <1>2

\* An entry of an automatic queue, fresh or deferred.
LEMMA AttemptTypes ==
    ASSUME now \in Nat
    PROVE  /\ FirstAttempt \in AttemptRecord
           /\ \A e \in AttemptRecord : Deferred(e) \in AttemptRecord
  BY BackoffIsNat DEF FirstAttempt, Deferred, AttemptRecord

\* A decision on a vote.
LEMMA DecisionTypes ==
    ASSUME TypeOK, NEW p \in ProposalId, NEW st \in {"PASSED", "REJECTED"},
           SetStatusAndEmit(p, st)
    PROVE  /\ now' \in Nat
           /\ NextProposalId' \in Nat
           /\ IsMap(Proposals, ProposalId, ProposalRecord)'
           /\ MutexTypeOK'
           /\ IsMap(AutoFinalizeRetryStates, ProposalId, AttemptRecord)'
           /\ AutoFinalizeDeadLetters' \subseteq ProposalId
           /\ ExecutionTypeOK'
           /\ CleanupTypeOK'
           /\ effects' \in [ProposalId -> Nat]
           /\ notified' \subseteq ProposalId
  <1>1. IsMap(Proposals, ProposalId, ProposalRecord)'
    BY SetStatusTypes, StatusNames DEF TypeOK, SetStatusAndEmit
  <1>2. /\ IsMap(AutoFinalizeRetryStates, ProposalId, AttemptRecord)'
        /\ AutoFinalizeDeadLetters' \subseteq ProposalId
    BY ForgetTypes DEF TypeOK, SetStatusAndEmit
  <1>3. ActiveProposalsBySubject' \in [Subject -> SUBSET ProposalId]
    BY RemoveActiveTypes DEF TypeOK, SetStatusAndEmit
  <1>4. CASE st = "PASSED"
    <2>1. IsMap(PendingProposalExecutions, ProposalId, AttemptRecord)'
      <3>1. FirstAttempt \in AttemptRecord
        BY AttemptTypes DEF TypeOK
      <3>2. PendingProposalExecutions' =
              Insert(PendingProposalExecutions, p, FirstAttempt)
        BY <1>4 DEF SetStatusAndEmit
      <3> QED BY <3>1, <3>2, InsertIsMap DEF TypeOK, ExecutionTypeOK
    <2>2. MutexTypeOK'
      <3>1. CASE ShouldReleaseMutexes(Proposals[p], st)
        BY <1>3, <1>4, <3>1, ReleaseTypes DEF TypeOK, SetStatusAndEmit, MutexTypeOK
      <3>2. CASE ~ShouldReleaseMutexes(Proposals[p], st)
        BY <1>3, <1>4, <3>2 DEF TypeOK, SetStatusAndEmit, MutexTypeOK
      <3> QED BY <3>1, <3>2
    <2> QED
      BY <1>1, <1>2, <1>4, <2>1, <2>2
      DEF TypeOK, ExecutionTypeOK, CleanupTypeOK, SetStatusAndEmit, cleanupVars
  <1>5. CASE st # "PASSED"
    <2>1. FinishTerminal(p)
      BY <1>5 DEF SetStatusAndEmit
    <2> QED
      BY <1>1, <1>2, <1>3, <1>5, <2>1, FinishTypes
      DEF TypeOK, MutexTypeOK, ExecutionTypeOK, SetStatusAndEmit
  <1> QED BY <1>4, <1>5

\* The failure of a passed proposal.
LEMMA FailTypes ==
    ASSUME TypeOK, NEW p \in ProposalId, FailAndFinish(p)
    PROVE  /\ IsMap(Proposals, ProposalId, ProposalRecord)'
           /\ InternalProposalMutexes' \in [Subject -> MutexState]
           /\ ProposalMutexBindings' \in [ProposalId -> SUBSET Binding]
           /\ CleanupTypeOK'
           /\ IsMap(ProposalExecutionRetryStates, ProposalId, RetryRecord)'
           /\ PendingExecutionRetryExpirations' \subseteq ProposalId
           /\ PendingTerminalCleanups' \subseteq ProposalId
           /\ notified' \subseteq ProposalId
  <1>1. IsMap(Proposals, ProposalId, ProposalRecord)'
    BY SetStatusTypes, StatusNames DEF TypeOK, FailAndFinish
  <1> QED BY <1>1, FinishTypes DEF FailAndFinish

\* A joint proposal that moves on to its referendum.
LEMMA AdvanceTypes ==
    ASSUME TypeOK, NEW p \in ProposalId, Exists(p), AdvanceToReferendum(p)
    PROVE  /\ IsMap(Proposals, ProposalId, ProposalRecord)'
           /\ MutexTypeOK'
           /\ ProposalsByExpiry' \subseteq (Nat \X ProposalId)
  <1>1. p \in DOMAIN Proposals /\ Proposals[p] \in ProposalRecord
    BY LookupInMap DEF TypeOK, Exists
  <1>2. now + VotingDuration \in Nat
    BY StoreAssumption DEF TypeOK
  <1> DEFINE moved == [Proposals[p] EXCEPT !.stage = "referendum",
                                           !.end = now + VotingDuration]
  <1>3. moved \in ProposalRecord
    BY <1>1, <1>2 DEF ProposalRecord, Stage
  <1>4. Proposals' = [Proposals EXCEPT ![p] = moved]
    BY <1>1 DEF AdvanceToReferendum, TypeOK, IsMap
  <1>5. IsMap(Proposals, ProposalId, ProposalRecord)'
    BY <1>1, <1>3, <1>4, ExceptIsMap DEF TypeOK
  <1>6. ProposalsByExpiry' \subseteq (Nat \X ProposalId)
    BY <1>2 DEF TypeOK, ExpiryTypeOK, AdvanceToReferendum, WithoutOldExpiry
  <1>7. MutexTypeOK'
    BY ReleaseTypes DEF TypeOK, MutexTypeOK, AdvanceToReferendum
  <1> QED BY <1>5, <1>6, <1>7

\* The error branch of the timeout pipeline.
LEMMA DeferTypes ==
    ASSUME ExpiryTypeOK, now \in Nat, NEW p \in ProposalId, DeferAutoFinalize(p)
    PROVE  /\ ProposalsByExpiry' \subseteq (Nat \X ProposalId)
           /\ IsMap(AutoFinalizeRetryStates, ProposalId, AttemptRecord)'
           /\ AutoFinalizeDeadLetters' \subseteq ProposalId
  <1> DEFINE attempts == FailedFinalizations(p)
             next == now + Backoff(attempts)
             entry == [attempts |-> attempts, next_attempt_at |-> next]
  <1>1. attempts \in Nat \ {0}
    <2>1. CASE p \in DOMAIN AutoFinalizeRetryStates
      <3>1. AutoFinalizeRetryStates[p] \in AttemptRecord
        BY <2>1, LookupInMap DEF ExpiryTypeOK
      <3> QED BY <2>1, <3>1 DEF FailedFinalizations, AttemptRecord
    <2>2. CASE p \notin DOMAIN AutoFinalizeRetryStates
      BY <2>2 DEF FailedFinalizations
    <2> QED BY <2>1, <2>2
  <1>2. next \in Nat
    BY <1>1, BackoffIsNat
  <1>3. entry \in AttemptRecord
    BY <1>1, <1>2 DEF AttemptRecord
  <1> HIDE DEF attempts, next
  <1>4. \/ /\ ProposalsByExpiry' = ProposalsByExpiry \cup {<<next, p>>}
           /\ AutoFinalizeRetryStates' = Insert(AutoFinalizeRetryStates, p, entry)
           /\ UNCHANGED AutoFinalizeDeadLetters
        \/ /\ AutoFinalizeRetryStates' = Remove(AutoFinalizeRetryStates, p)
           /\ AutoFinalizeDeadLetters' = AutoFinalizeDeadLetters \cup {p}
           /\ UNCHANGED ProposalsByExpiry
    BY DEF DeferAutoFinalize, attempts, next
  <1> QED BY <1>2, <1>3, <1>4, InsertIsMap, RemoveIsMap DEF ExpiryTypeOK

\* Finding a bucket for a retry deadline.
LEMMA RescheduleTypes ==
    ASSUME ExecutionTypeOK, NEW p \in ProposalId, NEW from \in Nat
    PROVE  /\ RescheduleDeadline(p, from) =>
                ExecutionRetryDeadlines' \subseteq (Nat \X ProposalId)
           /\ RescheduleOrQueue(p, from) =>
                /\ ExecutionRetryDeadlines' \subseteq (Nat \X ProposalId)
                /\ PendingExecutionRetryExpirations' \subseteq ProposalId
  <1>1. ASSUME RescheduleDeadline(p, from)
        PROVE  ExecutionRetryDeadlines' \subseteq (Nat \X ProposalId)
    <2>1. PICK b \in DeadlineBucketsWithRoom(from) :
              ExecutionRetryDeadlines' = ExecutionRetryDeadlines \cup {<<b, p>>}
      BY <1>1 DEF RescheduleDeadline
    <2>2. b \in Nat
      BY ExecutionAssumption DEF DeadlineBucketsWithRoom
    <2> QED BY <2>1, <2>2 DEF ExecutionTypeOK
  <1> QED BY <1>1 DEF RescheduleOrQueue, ExecutionTypeOK


-------------------------------------------------------------------------------
(* The position of the hook.                                                 *)

HookState == [phase : Phase, todo : SUBSET ProposalId, budget : Nat, blocked : BOOLEAN]

\* Taking an item off the list, or spending a unit of the budget.
LEMMA HookMoves ==
    ASSUME hook \in HookState
    PROVE  /\ \A p : DropItem(p) => hook' \in HookState
           /\ hook.budget > 0 /\ SpendBudget => hook' \in HookState
  BY DEF HookState, DropItem, SpendBudget

\* Entering a phase with a batch of items.
LEMMA EnterTypes ==
    ASSUME NEW ph \in Phase, NEW T \in SUBSET ProposalId, NEW b \in Nat, Enter(ph, T, b)
    PROVE  hook' \in HookState
  BY DEF Enter, HookState

\* A visit of a bucket takes a set of proposals within the count budget.
LEMMA DrainTypes ==
    ASSUME NEW b, NEW count, NEW allowance, NEW T \in Drains(b, count, allowance)
    PROVE  T \in SUBSET ProposalId /\ Cardinality(T) <= count
  BY DEF Drains, ExpiryBucket

-------------------------------------------------------------------------------
(* Extrinsics.                                                               *)

\* Creating a proposal files it well typed in every table.
LEMMA CreateTypes ==
    ASSUME TypeOK, NEW p \in ProposalId, NEW s \in Subject, NEW kind \in Kinds,
           NEW mutexKind \in MutexKind, CreateProposal(p, s, kind, mutexKind)
    PROVE  TypeOK'
  <1>1. now + VotingDuration \in Nat /\ now + VotingDuration + 1 \in Nat
    BY StoreAssumption DEF TypeOK
  <1> DEFINE created == [kind |-> kind, stage |-> kind, subject |-> s,
                         status |-> "VOTING", end |-> now + VotingDuration]
  <1>2. created \in ProposalRecord
    BY <1>1, EngineAssumption DEF ProposalRecord, Kind, Stage, Status
  <1>3. IsMap(Proposals, ProposalId, ProposalRecord)'
    BY <1>2, InsertIsMap DEF TypeOK, CreateProposal
  <1>4. MutexTypeOK'
    BY AcquireTypes DEF TypeOK, MutexTypeOK, CreateProposal, TryAddActiveProposal
  <1>5. ExpiryTypeOK'
    BY <1>1 DEF TypeOK, ExpiryTypeOK, CreateProposal
  <1>6. ExecutionTypeOK' /\ CleanupTypeOK'
    BY DEF TypeOK, ExecutionTypeOK, CleanupTypeOK, CreateProposal, executionVars, cleanupVars
  <1>7. NextProposalId' \in Nat /\ now' \in Nat
    BY DEF TypeOK, CreateProposal, AllocateProposalId
  <1> QED BY <1>3, <1>4, <1>5, <1>6, <1>7 DEF TypeOK, CreateProposal, hookVars

\* A proposal that advances, whoever triggers it.
LEMMA AdvanceKeepsTypes ==
    ASSUME TypeOK, NEW p \in ProposalId, Exists(p), AdvanceToReferendum(p),
           hook' \in HookState, UNCHANGED PendingExpiryBucket,
           \/ ForgetAutoFinalize(p)
           \/ UNCHANGED <<AutoFinalizeRetryStates, AutoFinalizeDeadLetters>>
    PROVE  TypeOK'
  <1>1. ExpiryTypeOK'
    BY AdvanceTypes, ForgetTypes DEF TypeOK, ExpiryTypeOK
  <1>2. ExecutionTypeOK' /\ CleanupTypeOK'
    BY DEF TypeOK, ExecutionTypeOK, CleanupTypeOK, AdvanceToReferendum,
           executionVars, cleanupVars
  <1> QED BY <1>1, <1>2, AdvanceTypes DEF TypeOK, AdvanceToReferendum, HookState

\* A proposal that is decided, whoever triggers it.
LEMMA DecisionKeepsTypes ==
    ASSUME TypeOK, NEW p \in ProposalId, NEW st \in {"PASSED", "REJECTED"},
           SetStatusAndEmit(p, st), hook' \in HookState,
           UNCHANGED <<ProposalsByExpiry, PendingExpiryBucket>>
    PROVE  TypeOK'
  <1>1. ExpiryTypeOK'
    BY DecisionTypes DEF TypeOK, ExpiryTypeOK
  <1> QED BY <1>1, DecisionTypes DEF TypeOK, HookState

\* A timeout, decided or advanced.
LEMMA TimeoutKeepsTypes ==
    ASSUME TypeOK, NEW p \in ProposalId, hook' \in HookState,
           UNCHANGED PendingExpiryBucket,
           \/ TimeoutDecides(p)
           \/ /\ TimeoutAdvances(p)
              /\ \/ ForgetAutoFinalize(p)
                 \/ UNCHANGED <<AutoFinalizeRetryStates, AutoFinalizeDeadLetters>>
    PROVE  TypeOK'
  <1>1. CASE TimeoutDecides(p)
    BY <1>1, DecisionKeepsTypes DEF TimeoutDecides
  <1>2. CASE TimeoutAdvances(p) /\ \/ ForgetAutoFinalize(p)
                                   \/ UNCHANGED <<AutoFinalizeRetryStates,
                                                  AutoFinalizeDeadLetters>>
    BY <1>2, AdvanceKeepsTypes DEF TimeoutAdvances, IsOverdue, HasStatus
  <1> QED BY <1>1, <1>2

\* The manual retry of a passed proposal.
LEMMA RetryTypes ==
    ASSUME TypeOK, NEW p \in ProposalId, NEW outcome, RetryPassedProposal(p, outcome)
    PROVE  TypeOK'
  <1> DEFINE state == ProposalExecutionRetryStates[p]
             again == [state EXCEPT !.manual_attempts = @ + 1]
  <1>1. p \in DOMAIN ProposalExecutionRetryStates /\ state \in RetryRecord
    BY LookupInMap DEF RetryPassedProposal, TypeOK, ExecutionTypeOK
  <1>2. again \in RetryRecord
    BY <1>1 DEF RetryRecord
  <1>3. /\ now' \in Nat /\ NextProposalId' \in Nat
        /\ ActiveProposalsBySubject' \in [Subject -> SUBSET ProposalId]
        /\ ExpiryTypeOK'
        /\ IsMap(PendingProposalExecutions, ProposalId, AttemptRecord)'
        /\ IsMap(PendingTerminalFinalizations, ProposalId, AttemptRecord)'
        /\ TerminalFinalizationDeadLetters' \subseteq ProposalId
        /\ ExecutionRetryDeadlines' \subseteq (Nat \X ProposalId)
        /\ hook' \in HookState
    BY DEF TypeOK, MutexTypeOK, ExpiryTypeOK, ExecutionTypeOK, RetryPassedProposal,
           expiryVars, HookState
  <1>4. CASE SetProposalStatus(p, "EXECUTED") /\ FinishTerminal(p)
             /\ effects' = [effects EXCEPT ![p] = @ + 1]
    <2>1. IsMap(Proposals, ProposalId, ProposalRecord)'
      BY <1>4, SetStatusTypes, StatusNames DEF TypeOK
    <2> QED BY <1>3, <1>4, <2>1, FinishTypes
            DEF TypeOK, MutexTypeOK, ExecutionTypeOK, HookState
  <1>5. CASE FailAndFinish(p) /\ UNCHANGED effects
    BY <1>3, <1>5, FailTypes DEF TypeOK, MutexTypeOK, ExecutionTypeOK, HookState
  <1>6. CASE /\ ProposalExecutionRetryStates' =
                  [ProposalExecutionRetryStates EXCEPT ![p] = again]
             /\ UNCHANGED <<Proposals, InternalProposalMutexes, ProposalMutexBindings,
                            PendingExecutionRetryExpirations, PendingTerminalCleanups,
                            cleanupVars, effects, notified>>
    <2>1. IsMap(ProposalExecutionRetryStates, ProposalId, RetryRecord)'
      BY <1>1, <1>2, <1>6, ExceptIsMap DEF TypeOK, ExecutionTypeOK
    <2> QED BY <1>3, <1>6, <2>1
            DEF TypeOK, MutexTypeOK, ExecutionTypeOK, CleanupTypeOK, cleanupVars, HookState
  <1> QED BY <1>4, <1>5, <1>6 DEF RetryPassedProposal

\* Every extrinsic keeps the types.
LEMMA ExtrinsicTypes == TypeOK /\ Extrinsic => TypeOK'
  <1> SUFFICES ASSUME TypeOK, Extrinsic PROVE TypeOK'
    OBVIOUS
  <1>0. hook \in HookState
    BY DEF TypeOK, HookState
  <1>1. PICK p \in ProposalId :
          \/ \E s \in Subject, kind \in Kinds, mutexKind \in MutexKind :
                CreateProposal(p, s, kind, mutexKind)
          \/ \E st \in {"PASSED", "REJECTED"} : DecideByVote(p, st)
          \/ AdvanceByVote(p)
          \/ FinalizeProposal(p)
          \/ \E outcome \in Outcomes : RetryPassedProposal(p, outcome)
          \/ CancelPassedProposal(p)
    BY DEF Extrinsic
  <1>2. ASSUME NEW s \in Subject, NEW kind \in Kinds, NEW mutexKind \in MutexKind,
               CreateProposal(p, s, kind, mutexKind)
        PROVE  TypeOK'
    BY <1>2, CreateTypes
  <1>3. ASSUME NEW st \in {"PASSED", "REJECTED"}, DecideByVote(p, st) PROVE TypeOK'
    BY <1>0, <1>3, DecisionKeepsTypes DEF DecideByVote
  <1>4. CASE AdvanceByVote(p)
    BY <1>0, <1>4, AdvanceKeepsTypes DEF AdvanceByVote, IsOpen, HasStatus
  <1>5. CASE FinalizeProposal(p)
    BY <1>0, <1>5, TimeoutKeepsTypes DEF FinalizeProposal
  <1>6. ASSUME NEW outcome \in Outcomes, RetryPassedProposal(p, outcome) PROVE TypeOK'
    BY <1>6, RetryTypes
  <1>7. CASE CancelPassedProposal(p)
    BY <1>7, FailTypes
    DEF TypeOK, MutexTypeOK, ExpiryTypeOK, ExecutionTypeOK, CancelPassedProposal, expiryVars
  <1> QED BY <1>1, <1>2, <1>3, <1>4, <1>5, <1>6, <1>7


-------------------------------------------------------------------------------
(* The hook.                                                                 *)

\* What no step outside a phase's own work touches.
LEMMA FrameTypes ==
    ASSUME TypeOK
    PROVE  /\ UNCHANGED storeVars => /\ now' \in Nat /\ NextProposalId' \in Nat
                                     /\ IsMap(Proposals, ProposalId, ProposalRecord)'
           /\ UNCHANGED mutexVars => MutexTypeOK'
           /\ UNCHANGED expiryVars => ExpiryTypeOK'
           /\ UNCHANGED executionVars => ExecutionTypeOK'
           /\ UNCHANGED cleanupVars => CleanupTypeOK'
  BY DEF TypeOK, storeVars, mutexVars, expiryVars, executionVars, cleanupVars,
         MutexTypeOK, ExpiryTypeOK, ExecutionTypeOK, CleanupTypeOK

\* Starting a block.
LEMMA NewBlockTypes == TypeOK /\ NewBlock => TypeOK'
  <1> SUFFICES ASSUME TypeOK, NewBlock PROVE TypeOK'
    OBVIOUS
  <1>1. PICK T \in Drains(PendingExpiryBucket, MaxAutoFinalizePerBlock, WeightAllowance) :
          /\ DrainBucket(PendingExpiryBucket, T)
          /\ PendingExpiryBucket' = IF HasRemaining(PendingExpiryBucket, T)
                                    THEN PendingExpiryBucket ELSE NoBucket
          /\ hook' = [phase |-> "expiry_cursor", todo |-> T,
                      blocked |-> HasRemaining(PendingExpiryBucket, T),
                      budget |-> MaxAutoFinalizePerBlock - Cardinality(T)]
    BY DEF NewBlock
  <1>2. T \in SUBSET ProposalId /\ Cardinality(T) <= MaxAutoFinalizePerBlock
    BY <1>1, DrainTypes
  <1>3. Cardinality(T) \in Nat
    BY <1>2, FiniteIds
  <1>4. hook' \in HookState
    <2>1. HasRemaining(PendingExpiryBucket, T) \in BOOLEAN
      BY DEF HasRemaining
    <2>2. MaxAutoFinalizePerBlock - Cardinality(T) \in Nat
      BY <1>2, <1>3, ExpiryAssumption
    <2> QED BY <1>1, <1>2, <2>1, <2>2 DEF HookState, Phase
  <1>5. ExpiryTypeOK'
    BY <1>1 DEF TypeOK, ExpiryTypeOK, DrainBucket, NoBucket, NewBlock
  <1>6. MutexTypeOK' /\ ExecutionTypeOK' /\ CleanupTypeOK'
    BY FrameTypes DEF NewBlock
  <1> QED BY <1>4, <1>5, <1>6 DEF TypeOK, NewBlock, HookState

\* Turning to this block's own bucket.
LEMMA EnterExpiryNowTypes == TypeOK /\ EnterExpiryNow => TypeOK'
  <1> SUFFICES ASSUME TypeOK, EnterExpiryNow PROVE TypeOK'
    OBVIOUS
  <1>1. /\ now' \in Nat /\ NextProposalId' \in Nat
        /\ IsMap(Proposals, ProposalId, ProposalRecord)'
        /\ MutexTypeOK' /\ ExecutionTypeOK' /\ CleanupTypeOK'
    BY FrameTypes DEF EnterExpiryNow
  <1>2. \E T \in SUBSET ProposalId :
          /\ Enter("expiry_now", T, 0)
          /\ \/ DrainBucket(now, T) /\ PendingExpiryBucket' \in {now, PendingExpiryBucket}
             \/ UNCHANGED <<ProposalsByExpiry, PendingExpiryBucket>>
    <2>1. CASE hook.budget > 0 /\ ~hook.blocked
      BY <2>1, DrainTypes DEF EnterExpiryNow
    <2>2. CASE ~(hook.budget > 0 /\ ~hook.blocked)
      BY <2>2 DEF EnterExpiryNow
    <2> QED BY <2>1, <2>2
  <1>3. hook' \in HookState
    BY <1>2, EnterTypes DEF Phase
  <1>4. ExpiryTypeOK'
    BY <1>2 DEF TypeOK, ExpiryTypeOK, DrainBucket, EnterExpiryNow
  <1> QED BY <1>1, <1>3, <1>4 DEF TypeOK, EnterExpiryNow, HookState

\* The batches of the queues are sets of proposals.
LEMMA BatchTypes ==
    ASSUME TypeOK, NEW n
    PROVE  /\ \A T \in Batch(Due(PendingProposalExecutions), n) : T \in SUBSET ProposalId
           /\ \A T \in Batch(Due(PendingTerminalFinalizations), n) : T \in SUBSET ProposalId
           /\ \A T \in Batch(PendingExecutionRetryExpirations, n) : T \in SUBSET ProposalId
           /\ \A T \in Batch(PendingTerminalCleanups, n) : T \in SUBSET ProposalId
  BY DEF TypeOK, ExecutionTypeOK, IsMap, Batch, Due

\* Moving from one phase to the next.
LEMMA PhaseTypes ==
    ASSUME TypeOK,
           \/ EnterExecute \/ EnterFinalize \/ EnterRetryPending \/ EnterDeadlines
           \/ EnterNotify \/ EnterActivate \/ EnterCleanup \/ EndHook
    PROVE  TypeOK'
  <1>1. hook' \in HookState
    <2>1. ASSUME EnterExecute \/ EnterFinalize \/ EnterRetryPending \/ EnterNotify
          PROVE  \E ph \in Phase, T \in SUBSET ProposalId : Enter(ph, T, 0)
      BY <2>1, BatchTypes
      DEF EnterExecute, EnterFinalize, EnterRetryPending, EnterNotify, Phase
    <2>2. ASSUME EnterDeadlines PROVE Enter("deadlines", DeadlineBucket(now), 0)
      BY <2>2 DEF EnterDeadlines
    <2>3. DeadlineBucket(now) \in SUBSET ProposalId
      BY DEF DeadlineBucket
    <2>4. CASE EnterActivate
      BY <2>4, CleanupAssumption, EnterTypes DEF EnterActivate, Phase
    <2>7. CASE EnterCleanup
      BY <2>7, CleanupAssumption, EnterTypes DEF EnterCleanup, Phase
    <2>8. CASE EndHook
      BY <2>8 DEF EndHook, Body, HookState, Phase
    <2>5. CASE EnterExecute \/ EnterFinalize \/ EnterRetryPending \/ EnterNotify
      BY <2>1, <2>5, EnterTypes
    <2>6. CASE EnterDeadlines
      BY <2>2, <2>3, <2>6, EnterTypes DEF Phase
    <2> QED BY <2>4, <2>5, <2>6, <2>7, <2>8
  <1>2. ExecutionTypeOK'
    BY FrameTypes
    DEF EnterExecute, EnterFinalize, EnterRetryPending, EnterDeadlines, EnterNotify,
        EnterActivate, EnterCleanup, EndHook, TypeOK, ExecutionTypeOK
  <1>3. /\ now' \in Nat /\ NextProposalId' \in Nat
        /\ IsMap(Proposals, ProposalId, ProposalRecord)'
        /\ MutexTypeOK' /\ ExpiryTypeOK' /\ CleanupTypeOK'
        /\ effects' \in [ProposalId -> Nat] /\ notified' \subseteq ProposalId
    BY FrameTypes
    DEF EnterExecute, EnterFinalize, EnterRetryPending, EnterDeadlines, EnterNotify,
        EnterActivate, EnterCleanup, EndHook, TypeOK
  <1> QED BY <1>1, <1>2, <1>3 DEF TypeOK, HookState

\* One entry of an expiry bucket.
LEMMA ExpiryItemTypes ==
    ASSUME TypeOK, NEW p \in ProposalId,
           SkipExpired(p) \/ AutoFinalize(p) \/ AutoFinalizeFails(p)
    PROVE  TypeOK'
  <1>0. hook' \in HookState
    BY HookMoves DEF TypeOK, HookState, SkipExpired, AutoFinalize, AutoFinalizeFails
  <1>1. CASE SkipExpired(p)
    <2>1. ExpiryTypeOK'
      BY <1>1, ForgetTypes DEF SkipExpired, TypeOK, ExpiryTypeOK
    <2> QED BY <1>0, <1>1, <2>1, FrameTypes DEF SkipExpired, TypeOK, HookState
  <1>2. CASE AutoFinalize(p)
    BY <1>0, <1>2, TimeoutKeepsTypes DEF AutoFinalize
  <1>3. CASE AutoFinalizeFails(p)
    <2>1. ExpiryTypeOK'
      BY <1>3, DeferTypes DEF AutoFinalizeFails, TypeOK, ExpiryTypeOK
    <2> QED BY <1>0, <1>3, <2>1, FrameTypes DEF AutoFinalizeFails, TypeOK, HookState
  <1> QED BY <1>1, <1>2, <1>3

\* Opening the manual-retry window.
LEMMA WindowTypes ==
    ASSUME TypeOK, NEW p \in ProposalId, ScheduleExecutionRetry(p)
    PROVE  /\ IsMap(ProposalExecutionRetryStates, ProposalId, RetryRecord)'
           /\ ExecutionRetryDeadlines' \subseteq (Nat \X ProposalId)
           /\ PendingExecutionRetryExpirations' \subseteq ProposalId
  <1> DEFINE deadline == now + ExecutionRetryGraceBlocks
  <1>1. deadline \in Nat
    BY ExecutionAssumption DEF TypeOK
  <1>2. [manual_attempts |-> 0, retry_deadline |-> deadline] \in RetryRecord
    BY <1>1 DEF RetryRecord
  <1>3. IsMap(ProposalExecutionRetryStates, ProposalId, RetryRecord)'
    BY <1>2, InsertIsMap DEF ScheduleExecutionRetry, TypeOK, ExecutionTypeOK
  <1> QED BY <1>1, <1>3, RescheduleTypes DEF ScheduleExecutionRetry, TypeOK


\* One passed proposal of the execution queue.
LEMMA ExecutionItemTypes ==
    ASSUME TypeOK, NEW p \in ProposalId,
           \/ SkipExecution(p) \/ ExecutionFails(p)
           \/ \E outcome \in Outcomes : ExecuteProposal(p, outcome),
           CollectedStillQueued
    PROVE  TypeOK'
  <1>0. hook' \in HookState
    BY HookMoves DEF TypeOK, HookState, SkipExecution, ExecutionFails, ExecuteProposal
  <1>1. /\ now' \in Nat /\ NextProposalId' \in Nat
        /\ ActiveProposalsBySubject' \in [Subject -> SUBSET ProposalId]
        /\ ExpiryTypeOK'
        /\ TerminalFinalizationDeadLetters' \subseteq ProposalId
    BY FrameTypes
    DEF SkipExecution, ExecutionFails, ExecuteProposal, executeFrame, TypeOK, MutexTypeOK,
        ExecutionTypeOK
  <1>2. ASSUME PendingProposalExecutions' = Remove(PendingProposalExecutions, p)
        PROVE  IsMap(PendingProposalExecutions, ProposalId, AttemptRecord)'
    BY <1>2, RemoveIsMap DEF TypeOK, ExecutionTypeOK
  <1>3. CASE SkipExecution(p)
    BY <1>0, <1>1, <1>2, <1>3, FrameTypes
    DEF SkipExecution, TypeOK, MutexTypeOK, ExecutionTypeOK, HookState
  <1>4. CASE ExecutionFails(p)
    <2> DEFINE entry == PendingProposalExecutions[p]
    <2>1. MutexTypeOK' /\ CleanupTypeOK' /\ effects' \in [ProposalId -> Nat]
          /\ notified' \subseteq ProposalId
      BY <1>1, <1>4, FrameTypes DEF ExecutionFails, RollbackCallback, TypeOK, MutexTypeOK
    <2>2. CASE /\ SetProposalStatus(p, "EXECUTION_FAILED")
               /\ PendingProposalExecutions' = Remove(PendingProposalExecutions, p)
               /\ PendingTerminalFinalizations' =
                    Insert(PendingTerminalFinalizations, p, FirstAttempt)
      <3>1. IsMap(Proposals, ProposalId, ProposalRecord)'
        BY <2>2, SetStatusTypes, StatusNames DEF TypeOK
      <3>2. IsMap(PendingTerminalFinalizations, ProposalId, AttemptRecord)'
        BY <2>2, AttemptTypes, InsertIsMap DEF TypeOK, ExecutionTypeOK
      <3> QED BY <1>0, <1>1, <1>2, <1>4, <2>1, <2>2, <3>1, <3>2
              DEF ExecutionFails, TypeOK, ExecutionTypeOK, HookState
    <2>3. CASE /\ p \in DOMAIN PendingProposalExecutions
               /\ PendingProposalExecutions' =
                    Insert(PendingProposalExecutions, p, Deferred(entry))
               /\ UNCHANGED <<Proposals, PendingTerminalFinalizations>>
      <3>1. IsMap(PendingProposalExecutions, ProposalId, AttemptRecord)'
        BY <2>3, AttemptTypes, LookupInMap, InsertIsMap DEF TypeOK, ExecutionTypeOK
      <3> QED BY <1>0, <1>1, <1>4, <2>1, <2>3, <3>1
              DEF ExecutionFails, TypeOK, ExecutionTypeOK, HookState
    <2>4. p \in DOMAIN PendingProposalExecutions
      BY <1>4 DEF ExecutionFails, Item, CollectedStillQueued
    <2> QED BY <1>4, <2>2, <2>3, <2>4 DEF ExecutionFails
  <1>5. ASSUME NEW outcome \in Outcomes, ExecuteProposal(p, outcome) PROVE TypeOK'
    <2>1. /\ IsMap(PendingProposalExecutions, ProposalId, AttemptRecord)'
          /\ IsMap(PendingTerminalFinalizations, ProposalId, AttemptRecord)'
      BY <1>2, <1>5 DEF ExecuteProposal, TypeOK, ExecutionTypeOK
    <2>2. CASE /\ SetProposalStatus(p, "EXECUTED")
               /\ effects' = [effects EXCEPT ![p] = @ + 1]
               /\ FinishTerminal(p)
               /\ UNCHANGED ExecutionRetryDeadlines
      <3>1. IsMap(Proposals, ProposalId, ProposalRecord)'
        BY <2>2, SetStatusTypes, StatusNames DEF TypeOK
      <3> QED BY <1>0, <1>1, <2>1, <2>2, <3>1, FinishTypes
              DEF TypeOK, MutexTypeOK, ExecutionTypeOK, HookState
    <2>3. CASE FailAndFinish(p) /\ UNCHANGED <<effects, ExecutionRetryDeadlines>>
      BY <1>0, <1>1, <2>1, <2>3, FailTypes
      DEF TypeOK, MutexTypeOK, ExecutionTypeOK, HookState
    <2>4. CASE /\ ScheduleExecutionRetry(p)
               /\ UNCHANGED <<Proposals, InternalProposalMutexes, ProposalMutexBindings,
                              PendingTerminalCleanups, cleanupVars, effects, notified>>
      BY <1>0, <1>1, <2>1, <2>4, WindowTypes, FrameTypes
      DEF TypeOK, MutexTypeOK, ExecutionTypeOK, HookState
    <2> QED BY <1>5, <2>2, <2>3, <2>4 DEF ExecuteProposal
  <1> QED BY <1>3, <1>4, <1>5

\* One failed proposal whose side effects are owed.
LEMMA FinalizeItemTypes ==
    ASSUME TypeOK, CollectedStillQueued, NEW p \in ProposalId,
           FinalizeTerminal(p) \/ FinalizeTerminalFails(p)
    PROVE  TypeOK'
  <1>0. hook' \in HookState
    BY HookMoves DEF TypeOK, HookState, FinalizeTerminal, FinalizeTerminalFails
  <1>1. CASE FinalizeTerminal(p)
    <2>1. IsMap(PendingTerminalFinalizations, ProposalId, AttemptRecord)'
      BY <1>1, RemoveIsMap DEF FinalizeTerminal, TypeOK, ExecutionTypeOK
    <2> QED BY <1>0, <1>1, <2>1, FinishTypes, FrameTypes
            DEF FinalizeTerminal, TypeOK, MutexTypeOK, ExecutionTypeOK, HookState
  <1>2. CASE FinalizeTerminalFails(p)
    <2> DEFINE entry == PendingTerminalFinalizations[p]
    <2>0. p \in DOMAIN PendingTerminalFinalizations
      BY <1>2 DEF FinalizeTerminalFails, Item, CollectedStillQueued
    <2>1. Deferred(entry) \in AttemptRecord
      BY <2>0, LookupInMap, AttemptTypes DEF TypeOK, ExecutionTypeOK
    <2>2. PendingTerminalFinalizations' \in
            {Remove(PendingTerminalFinalizations, p),
             Insert(PendingTerminalFinalizations, p, Deferred(entry))}
      BY <1>2 DEF FinalizeTerminalFails
    <2>3. IsMap(PendingTerminalFinalizations, ProposalId, AttemptRecord)'
      BY <2>1, <2>2, RemoveIsMap, InsertIsMap DEF TypeOK, ExecutionTypeOK
    <2> QED BY <1>0, <1>2, <2>3, FrameTypes
            DEF FinalizeTerminalFails, TypeOK, ExecutionTypeOK, HookState
  <1> QED BY <1>1, <1>2


\* One retry deadline, in a bucket or in the overflow set.
LEMMA DeadlineItemTypes ==
    ASSUME TypeOK, NEW p \in ProposalId,
           SkipDeadline(p) \/ RequeueDeadline(p) \/ ExpireRetry(p) \/ ExpireRetryFails(p)
    PROVE  TypeOK'
  <1>0. hook' \in HookState
    BY HookMoves
    DEF TypeOK, HookState, SkipDeadline, RequeueDeadline, ExpireRetry, ExpireRetryFails
  <1>1. /\ now' \in Nat /\ NextProposalId' \in Nat
        /\ ActiveProposalsBySubject' \in [Subject -> SUBSET ProposalId]
        /\ ExpiryTypeOK'
        /\ IsMap(PendingProposalExecutions, ProposalId, AttemptRecord)'
        /\ IsMap(PendingTerminalFinalizations, ProposalId, AttemptRecord)'
        /\ TerminalFinalizationDeadLetters' \subseteq ProposalId
        /\ effects' \in [ProposalId -> Nat]
    BY FrameTypes
    DEF SkipDeadline, RequeueDeadline, ExpireRetry, ExpireRetryFails, deadlineFrame,
        TypeOK, MutexTypeOK, ExecutionTypeOK
  <1>2. CASE ExpireRetry(p)
    BY <1>0, <1>1, <1>2, FailTypes
    DEF ExpireRetry, TypeOK, MutexTypeOK, ExecutionTypeOK, HookState
  <1>3. ASSUME SkipDeadline(p) \/ RequeueDeadline(p) \/ ExpireRetryFails(p)
        PROVE  /\ ExecutionRetryDeadlines' \subseteq (Nat \X ProposalId)
               /\ PendingExecutionRetryExpirations' \subseteq ProposalId
    <2>1. CASE SkipDeadline(p)
      BY <2>1 DEF SkipDeadline, TypeOK, ExecutionTypeOK
    <2>2. CASE RequeueDeadline(p)
      <3>0. ProposalExecutionRetryStates[p] \in RetryRecord
        BY <2>2, LookupInMap DEF RequeueDeadline, TypeOK, ExecutionTypeOK
      <3>1. ProposalExecutionRetryStates[p].retry_deadline \in Nat
        BY <3>0 DEF RetryRecord
      <3> QED BY <2>2, <3>1, RescheduleTypes DEF RequeueDeadline, TypeOK, ExecutionTypeOK
    <2>3. CASE ExpireRetryFails(p)
      <3>1. now + 1 \in Nat
        BY DEF TypeOK
      <3> QED BY <2>3, <3>1, RescheduleTypes DEF ExpireRetryFails, TypeOK, ExecutionTypeOK
    <2> QED BY <1>3, <2>1, <2>2, <2>3
  <1>4. CASE SkipDeadline(p) \/ RequeueDeadline(p) \/ ExpireRetryFails(p)
    BY <1>0, <1>1, <1>3, <1>4, FrameTypes
    DEF SkipDeadline, RequeueDeadline, ExpireRetryFails, TypeOK, MutexTypeOK,
        ExecutionTypeOK, HookState
  <1> QED BY <1>2, <1>4

\* The repeated failure notice and the steps of deletion.
LEMMA CleanupTypes ==
    ASSUME TypeOK, NEW p \in ProposalId,
           Notify(p) \/ CleanupStep(p) \/ PurgeProposal(p)
    PROVE  TypeOK'
  <1>1. CASE Notify(p)
    <2>1. hook' \in HookState
      BY <1>1, HookMoves DEF Notify, TypeOK, HookState
    <2>2. ExecutionTypeOK' /\ notified' \subseteq ProposalId
      BY <1>1 DEF Notify, TypeOK, ExecutionTypeOK
    <2> QED BY <1>1, <2>1, <2>2, FrameTypes DEF Notify, TypeOK, HookState
  <1>2. ASSUME CleanupTurn(p)
        PROVE  /\ hook' \in HookState
               /\ Tail(PendingCleanupQueue) \in Seq(ProposalId)
               /\ PendingProposalCleanups[p] \in CleanupStage
    BY <1>2, HookMoves, LookupInMap
    DEF CleanupTurn, TypeOK, HookState, CleanupTypeOK
  <1>3. CASE CleanupStep(p)
    <2>1. PICK stage \in NextStages(PendingProposalCleanups[p]) : Requeue(p, stage)
      BY <1>3 DEF CleanupStep
    <2>2. stage \in CleanupStage
      BY <1>2, <1>3, <2>1
      DEF CleanupStep, NextStages, CleanupStage, ProposalObject, FinalCleanup
    <2>3. CleanupTypeOK'
      BY <1>2, <1>3, <2>1, <2>2, InsertIsMap DEF CleanupStep, Requeue, TypeOK, CleanupTypeOK
    <2> QED BY <1>2, <1>3, <2>3, FrameTypes DEF CleanupStep, TypeOK, HookState
  <1>4. CASE PurgeProposal(p)
    <2>1. CleanupTypeOK'
      BY <1>2, <1>4, RemoveIsMap DEF PurgeProposal, Dequeue, TypeOK, CleanupTypeOK
    <2>2. ExecutionTypeOK'
      BY <1>4, RemoveIsMap DEF PurgeProposal, TypeOK, ExecutionTypeOK
    <2>3. ExpiryTypeOK'
      BY <1>4, ForgetTypes DEF PurgeProposal, TypeOK, ExpiryTypeOK
    <2>4. MutexTypeOK'
      BY <1>4, ReleaseTypes DEF PurgeProposal, TypeOK, MutexTypeOK
    <2>5. IsMap(Proposals, ProposalId, ProposalRecord)'
      BY <1>4, RemoveIsMap DEF PurgeProposal, TypeOK
    <2> QED BY <1>2, <1>4, <2>1, <2>2, <2>3, <2>4, <2>5
            DEF PurgeProposal, TypeOK, HookState
  <1> QED BY <1>1, <1>3, <1>4

\* Activating the head of the retention FIFO.
LEMMA ActivateTypes == TypeOK /\ ActivateCleanup => TypeOK'
  <1> SUFFICES ASSUME TypeOK, ActivateCleanup PROVE TypeOK'
    OBVIOUS
  <1> DEFINE p == Head(ScheduledCleanups).proposal_id
  <1>1. ScheduledCleanups \in Seq(ScheduledCleanup) /\ ScheduledCleanups # << >>
    BY DEF TypeOK, CleanupTypeOK, ActivateCleanup, CleanupDue
  <1>2. /\ Head(ScheduledCleanups) \in ScheduledCleanup
        /\ Tail(ScheduledCleanups) \in Seq(ScheduledCleanup)
    BY <1>1
  <1>3. p \in ProposalId
    BY <1>2 DEF ScheduledCleanup
  <1>4. ActivateHead(p) /\ RemoveActiveProposal(Proposals[p].subject, p)
    BY DEF ActivateCleanup
  <1> HIDE DEF p
  <1>5. CleanupTypeOK'
    BY <1>2, <1>3, <1>4, InsertIsMap DEF ActivateHead, TypeOK, CleanupTypeOK, CleanupStage
  <1>6. MutexTypeOK'
    BY <1>4, RemoveActiveTypes DEF ActivateCleanup, TypeOK, MutexTypeOK
  <1>7. hook' \in HookState
    BY HookMoves DEF ActivateCleanup, TypeOK, HookState
  <1> QED BY <1>5, <1>6, <1>7, FrameTypes DEF ActivateCleanup, TypeOK, HookState


-------------------------------------------------------------------------------
(* The inductive invariant.                                                  *)

\* The types alone are not inductive: the error branches of two queues read the
\* entry of the proposal at hand, which must not have left its queue meanwhile.
TypeInv == TypeOK /\ CollectedStillQueued

\* The initial state of the chain.
LEMMA InitTypeInv == Init => TypeInv
  <1> SUFFICES ASSUME Init PROVE TypeInv
    OBVIOUS
  <1>1. MutexTypeOK
    BY DEF Init, MutexInit, MutexTypeOK, EmptyMutex, MutexState, NoOwner
  <1>2. ExpiryTypeOK /\ ExecutionTypeOK /\ CleanupTypeOK
    BY EmptyIsMap DEF Init, ExpiryInit, ExecutionInit, CleanupInit, NoBucket,
                      ExpiryTypeOK, ExecutionTypeOK, CleanupTypeOK
  <1>3. hook \in [phase : Phase, todo : SUBSET ProposalId, budget : Nat, blocked : BOOLEAN]
    BY DEF Init, Body, Phase
  <1>4. CollectedStillQueued
    BY DEF Init, Body, CollectedStillQueued
  <1> QED BY <1>1, <1>2, <1>3, <1>4, EmptyIsMap DEF Init, TypeInv, TypeOK

\* A step that is not in one of the two phases cannot disturb what they collected.
LEMMA CollectedOutside ==
    ASSUME hook'.phase \notin {"execute", "finalize"}
    PROVE  CollectedStillQueued'
  BY DEF CollectedStillQueued

\* Steps that keep the phase, or move to one that collects nothing.
LEMMA CollectedStep ==
    ASSUME TypeInv, Next
    PROVE  CollectedStillQueued'
  <1>0. hook \in HookState
    BY DEF TypeInv, TypeOK, HookState
  <1>1. CASE Extrinsic
    <2>1. hook' = hook /\ hook.phase = "body"
      BY <1>1 DEF Extrinsic, CreateProposal, DecideByVote, AdvanceByVote, FinalizeProposal,
                  RetryPassedProposal, CancelPassedProposal, InBody, hookVars
    <2> QED BY <2>1, CollectedOutside
  <1>2. CASE NewBlock
    BY <1>2, CollectedOutside DEF NewBlock
  <1>3. CASE \/ EnterExpiryNow \/ EnterRetryPending \/ EnterDeadlines \/ EnterNotify
             \/ EnterActivate \/ EnterCleanup \/ EndHook
    <2>1. hook'.phase \in {"expiry_now", "retry_pending", "deadlines", "notify",
                           "activate", "cleanup", "body"}
      BY <1>3 DEF EnterExpiryNow, EnterRetryPending, EnterDeadlines, EnterNotify,
                  EnterActivate, EnterCleanup, EndHook, Enter, Body
    <2> QED BY <2>1, CollectedOutside
  <1>4. CASE EnterExecute
    BY <1>4 DEF EnterExecute, Enter, Batch, Due, CollectedStillQueued, executionVars
  <1>5. CASE EnterFinalize
    BY <1>5 DEF EnterFinalize, Enter, Batch, Due, CollectedStillQueued, executionVars
  <1>6. CASE ActivateCleanup
    BY <1>0, <1>6, CollectedOutside DEF ActivateCleanup, SpendBudget, HookState
  <1>7. ASSUME NEW p \in ProposalId,
               \/ SkipExpired(p) \/ AutoFinalize(p) \/ AutoFinalizeFails(p)
               \/ SkipDeadline(p) \/ RequeueDeadline(p)
               \/ ExpireRetry(p) \/ ExpireRetryFails(p) \/ Notify(p)
        PROVE  CollectedStillQueued'
    <2>1. DropItem(p) /\ hook.phase \notin {"execute", "finalize"}
      BY <1>7 DEF SkipExpired, AutoFinalize, AutoFinalizeFails, SkipDeadline,
                  RequeueDeadline, ExpireRetry, ExpireRetryFails, Notify, ExpiryItem,
                  DeadlineItem, WindowOver, Item
    <2>2. hook'.phase = hook.phase
      BY <1>0, <2>1 DEF DropItem, HookState
    <2> QED BY <2>1, <2>2, CollectedOutside
  <1>8. ASSUME NEW p \in ProposalId, CleanupStep(p) \/ PurgeProposal(p)
        PROVE  CollectedStillQueued'
    BY <1>0, <1>8, CollectedOutside
    DEF CleanupStep, PurgeProposal, CleanupTurn, SpendBudget, HookState
  <1>9. ASSUME NEW p \in ProposalId,
               \/ SkipExecution(p) \/ ExecutionFails(p)
               \/ \E outcome \in Outcomes : ExecuteProposal(p, outcome)
        PROVE  CollectedStillQueued'
    <2>1. /\ hook.phase = "execute" /\ hook'.phase = "execute"
          /\ hook'.todo = hook.todo \ {p}
      BY <1>0, <1>9 DEF SkipExecution, ExecutionFails, ExecuteProposal, Item, DropItem,
                        HookState
    <2>2. DOMAIN PendingProposalExecutions \ {p} \subseteq DOMAIN PendingProposalExecutions'
      BY <1>9 DEF SkipExecution, ExecutionFails, ExecuteProposal, Remove, Insert
    <2> QED BY <2>1, <2>2 DEF TypeInv, CollectedStillQueued
  <1>10. ASSUME NEW p \in ProposalId, FinalizeTerminal(p) \/ FinalizeTerminalFails(p)
         PROVE  CollectedStillQueued'
    <2>1. /\ hook.phase = "finalize" /\ hook'.phase = "finalize"
          /\ hook'.todo = hook.todo \ {p}
      BY <1>0, <1>10 DEF FinalizeTerminal, FinalizeTerminalFails, Item, DropItem, HookState
    <2>2. DOMAIN PendingTerminalFinalizations \ {p}
            \subseteq DOMAIN PendingTerminalFinalizations'
      BY <1>10 DEF FinalizeTerminal, FinalizeTerminalFails, Remove, Insert
    <2> QED BY <2>1, <2>2 DEF TypeInv, CollectedStillQueued
  <1>11. CASE AtBound
    BY <1>11, CollectedOutside DEF AtBound, InBody, vars, hookVars
  <1> QED
    BY <1>1, <1>2, <1>3, <1>4, <1>5, <1>6, <1>7, <1>8, <1>9, <1>10, <1>11
    DEF Next, HookStep

\* Every step keeps the types.
LEMMA TypeStep ==
    ASSUME TypeInv, Next
    PROVE  TypeOK'
  <1>0. TypeOK /\ CollectedStillQueued
    BY DEF TypeInv
  <1>1. CASE Extrinsic
    BY <1>0, <1>1, ExtrinsicTypes
  <1>2. CASE NewBlock
    BY <1>0, <1>2, NewBlockTypes
  <1>3. CASE AtBound
    BY <1>0, <1>3, FrameTypes DEF AtBound, vars, hookVars, TypeOK
  <1>4. CASE HookStep
    <2>1. CASE EnterExpiryNow
      BY <1>0, <2>1, EnterExpiryNowTypes
    <2>2. CASE \/ EnterExecute \/ EnterFinalize \/ EnterRetryPending \/ EnterDeadlines
               \/ EnterNotify \/ EnterActivate \/ EnterCleanup \/ EndHook
      BY <1>0, <2>2, PhaseTypes
    <2>3. CASE ActivateCleanup
      BY <1>0, <2>3, ActivateTypes
    <2>4. ASSUME NEW p \in ProposalId,
                 SkipExpired(p) \/ AutoFinalize(p) \/ AutoFinalizeFails(p)
          PROVE  TypeOK'
      BY <1>0, <2>4, ExpiryItemTypes
    <2>5. ASSUME NEW p \in ProposalId,
                 \/ SkipExecution(p) \/ ExecutionFails(p)
                 \/ \E outcome \in Outcomes : ExecuteProposal(p, outcome)
          PROVE  TypeOK'
      BY <1>0, <2>5, ExecutionItemTypes
    <2>6. ASSUME NEW p \in ProposalId, FinalizeTerminal(p) \/ FinalizeTerminalFails(p)
          PROVE  TypeOK'
      BY <1>0, <2>6, FinalizeItemTypes
    <2>7. ASSUME NEW p \in ProposalId,
                 \/ SkipDeadline(p) \/ RequeueDeadline(p)
                 \/ ExpireRetry(p) \/ ExpireRetryFails(p)
          PROVE  TypeOK'
      BY <1>0, <2>7, DeadlineItemTypes
    <2>8. ASSUME NEW p \in ProposalId, Notify(p) \/ CleanupStep(p) \/ PurgeProposal(p)
          PROVE  TypeOK'
      BY <1>0, <2>8, CleanupTypes
    <2> QED BY <1>4, <2>1, <2>2, <2>3, <2>4, <2>5, <2>6, <2>7, <2>8 DEF HookStep
  <1> QED BY <1>1, <1>2, <1>3, <1>4 DEF Next

\* The voting engine keeps its types, and what its queue loops have collected
\* stays valid, in every reachable state, for any number of proposals.
THEOREM TypesCorrect == Spec => []TypeInv
  <1>1. TypeInv /\ [Next]_vars => TypeInv'
    <2> SUFFICES ASSUME TypeInv, [Next]_vars PROVE TypeInv'
      OBVIOUS
    <2>1. CASE Next
      BY <2>1, TypeStep, CollectedStep DEF TypeInv
    <2>2. CASE UNCHANGED vars
      BY <2>2, FrameTypes DEF vars, hookVars, executionVars, TypeInv, TypeOK,
                              CollectedStillQueued
    <2> QED BY <2>1, <2>2
  <1> QED BY <1>1, InitTypeInv, PTL DEF Spec

\* ... in particular the type invariant the runs check.
THEOREM EngineTypeOK == Spec => []TypeOK
  BY TypesCorrect, PTL DEF TypeInv

-------------------------------------------------------------------------------
(* The lock table.                                                           *)

lockVars == <<InternalProposalMutexes, ProposalMutexBindings>>

\* What a step may do to the locks: nothing, release one proposal's, or take
\* one for the proposal whose id it allocates.
LockStep ==
    \/ UNCHANGED <<lockVars, NextProposalId>>
    \/ UNCHANGED NextProposalId /\ \E p \in ProposalId : ReleaseMutexes(p)
    \/ \E p \in ProposalId, s \in Subject, kind \in MutexKind :
          AcquireMutex(p, s, kind) /\ AllocateProposalId(p)

\* The terminal side effects release the locks.
LEMMA FinishReleases ==
    ASSUME NEW p, FinishTerminal(p) \/ FinishFailed(p) \/ FailAndFinish(p)
    PROVE  ReleaseMutexes(p)
  BY DEF FinishTerminal, FinishFailed, FailAndFinish, TerminalSideEffects

\* A decision either keeps or releases the locks.
LEMMA DecisionLocks ==
    ASSUME NEW p, NEW st, SetStatusAndEmit(p, st)
    PROVE  /\ UNCHANGED NextProposalId
           /\ UNCHANGED lockVars \/ ReleaseMutexes(p)
  BY FinishReleases DEF SetStatusAndEmit, lockVars

\* A timeout decides or advances; the latter releases the locks.
LEMMA TimeoutLocks ==
    ASSUME NEW p, TimeoutDecides(p) \/ TimeoutAdvances(p)
    PROVE  /\ UNCHANGED NextProposalId
           /\ UNCHANGED lockVars \/ ReleaseMutexes(p)
  BY DecisionLocks DEF TimeoutDecides, TimeoutAdvances, AdvanceToReferendum

\* Every step of the engine is a lock step.
LEMMA StepsAreLockSteps ==
    ASSUME Next
    PROVE  LockStep
  <1> USE DEF LockStep
  <1>1. CASE Extrinsic
    <2>1. PICK p \in ProposalId :
            \/ \E s \in Subject, kind \in Kinds, mutexKind \in MutexKind :
                  CreateProposal(p, s, kind, mutexKind)
            \/ \E st \in {"PASSED", "REJECTED"} : DecideByVote(p, st)
            \/ AdvanceByVote(p)
            \/ FinalizeProposal(p)
            \/ \E outcome \in Outcomes : RetryPassedProposal(p, outcome)
            \/ CancelPassedProposal(p)
      BY <1>1 DEF Extrinsic
    <2>2. ASSUME NEW s \in Subject, NEW kind \in Kinds, NEW mutexKind \in MutexKind,
                 CreateProposal(p, s, kind, mutexKind)
          PROVE  LockStep
      BY <2>2 DEF CreateProposal
    <2>3. ASSUME NEW st, DecideByVote(p, st) PROVE LockStep
      BY <2>3, DecisionLocks DEF DecideByVote
    <2>4. CASE AdvanceByVote(p)
      BY <2>4 DEF AdvanceByVote, AdvanceToReferendum
    <2>5. CASE FinalizeProposal(p)
      BY <2>5, TimeoutLocks DEF FinalizeProposal
    <2>6. ASSUME NEW outcome, RetryPassedProposal(p, outcome) PROVE LockStep
      BY <2>6, FinishReleases DEF RetryPassedProposal, lockVars
    <2>7. CASE CancelPassedProposal(p)
      BY <2>7, FinishReleases DEF CancelPassedProposal
    <2> QED BY <2>1, <2>2, <2>3, <2>4, <2>5, <2>6, <2>7
  <1>2. CASE \/ NewBlock \/ AtBound \/ EnterExpiryNow \/ EnterExecute \/ EnterFinalize
             \/ EnterRetryPending \/ EnterDeadlines \/ EnterNotify \/ EnterActivate
             \/ ActivateCleanup \/ EnterCleanup \/ EndHook
    BY <1>2 DEF NewBlock, AtBound, EnterExpiryNow, EnterExecute, EnterFinalize,
                EnterRetryPending, EnterDeadlines, EnterNotify, EnterActivate,
                ActivateCleanup, EnterCleanup, EndHook, vars, storeVars, mutexVars, lockVars
  <1>3. ASSUME NEW p \in ProposalId,
               \/ SkipExpired(p) \/ AutoFinalizeFails(p) \/ SkipExecution(p)
               \/ ExecutionFails(p) \/ FinalizeTerminalFails(p) \/ SkipDeadline(p)
               \/ RequeueDeadline(p) \/ ExpireRetryFails(p) \/ Notify(p) \/ CleanupStep(p)
        PROVE  LockStep
    BY <1>3 DEF SkipExpired, AutoFinalizeFails, SkipExecution, ExecutionFails,
                FinalizeTerminalFails, SkipDeadline, RequeueDeadline, ExpireRetryFails,
                Notify, CleanupStep, storeVars, mutexVars, lockVars, executeFrame,
                deadlineFrame
  <1>4. ASSUME NEW p \in ProposalId, AutoFinalize(p) PROVE LockStep
    BY <1>4, TimeoutLocks DEF AutoFinalize
  <1>5. ASSUME NEW p \in ProposalId, NEW outcome, ExecuteProposal(p, outcome)
        PROVE  LockStep
    BY <1>5, FinishReleases DEF ExecuteProposal, executeFrame, lockVars
  <1>6. ASSUME NEW p \in ProposalId, FinalizeTerminal(p) \/ ExpireRetry(p) PROVE LockStep
    BY <1>6, FinishReleases DEF FinalizeTerminal, ExpireRetry, storeVars, deadlineFrame
  <1>7. ASSUME NEW p \in ProposalId, PurgeProposal(p) PROVE LockStep
    BY <1>7 DEF PurgeProposal
  <1> QED BY <1>1, <1>2, <1>3, <1>4, <1>5, <1>6, <1>7 DEF Next, HookStep

\* acquire_ and release_internal_proposal_mutex keep the lock table exact under
\* every interleaving of the handlers: a shared count is the number of holders,
\* and an admin-set change never runs beside another proposal of its subject.
THEOREM LocksExact == Spec => []MutexAccounting
  <1>0. Init => MutexInv
    BY MutexInitExact DEF Init
  <1>1. TypeInv /\ MutexInv /\ [Next]_vars => MutexInv'
    <2> SUFFICES ASSUME TypeInv, MutexInv, [Next]_vars PROVE MutexInv'
      OBVIOUS
    <2>0. MutexTypeOK /\ NextProposalId \in Nat
      BY DEF TypeInv, TypeOK
    <2>1. CASE Next
      <3>1. LockStep
        BY <2>1, StepsAreLockSteps
      <3>2. CASE UNCHANGED <<lockVars, NextProposalId>>
        BY <3>2 DEF MutexInv, MutexAccounting, FreshUnbound, Holders, lockVars
      <3>3. CASE UNCHANGED NextProposalId /\ \E p \in ProposalId : ReleaseMutexes(p)
        BY <2>0, <3>3, ReleaseKeepsMutexInv
      <3>4. CASE \E p \in ProposalId, s \in Subject, kind \in MutexKind :
                    AcquireMutex(p, s, kind) /\ AllocateProposalId(p)
        BY <2>0, <3>4, AcquireKeepsMutexInv
      <3> QED BY <3>1, <3>2, <3>3, <3>4 DEF LockStep
    <2>2. CASE UNCHANGED vars
      BY <2>2 DEF MutexInv, MutexAccounting, FreshUnbound, Holders, vars, mutexVars, storeVars
    <2> QED BY <2>1, <2>2
  <1>2. MutexInv => MutexAccounting
    BY DEF MutexInv
  <1> QED BY <1>0, <1>1, <1>2, TypesCorrect, PTL DEF Spec

-------------------------------------------------------------------------------
(* The two deletion queues as sets of proposals.                             *)

Fifo == {ScheduledCleanups[i].proposal_id : i \in DOMAIN ScheduledCleanups}
Ring == {PendingCleanupQueue[i] : i \in DOMAIN PendingCleanupQueue}

\* No proposal is twice in the retention FIFO or twice in the deletion queue.
NoTwice ==
    /\ \A i, j \in DOMAIN ScheduledCleanups :
          ScheduledCleanups[i].proposal_id = ScheduledCleanups[j].proposal_id => i = j
    /\ \A i, j \in DOMAIN PendingCleanupQueue :
          PendingCleanupQueue[i] = PendingCleanupQueue[j] => i = j

cleanupQueues == <<ScheduledCleanups, PendingCleanupQueue>>

\* schedule_cleanup adds the proposal to the retention FIFO.
LEMMA ScheduleAdds ==
    ASSUME CleanupTypeOK, now \in Nat, NoTwice, NEW p \in ProposalId, p \notin Fifo,
           ScheduleCleanup(p), UNCHANGED PendingCleanupQueue
    PROVE  Fifo' = Fifo \cup {p} /\ Ring' = Ring /\ NoTwice'
  <1> DEFINE n == Len(ScheduledCleanups)
             task == [cleanup_at |-> now + Retention, proposal_id |-> p]
  <1>1. /\ ScheduledCleanups \in Seq(ScheduledCleanup)
        /\ n \in Nat /\ DOMAIN ScheduledCleanups = 1 .. n
        /\ task \in ScheduledCleanup
    BY CleanupAssumption DEF CleanupTypeOK, ScheduledCleanup
  <1>2. /\ ScheduledCleanups' = Append(ScheduledCleanups, task)
        /\ DOMAIN ScheduledCleanups' = 1 .. (n + 1)
        /\ \A i \in 1 .. n : ScheduledCleanups'[i] = ScheduledCleanups[i]
        /\ ScheduledCleanups'[n + 1] = task
    BY <1>1 DEF ScheduleCleanup
  <1> HIDE DEF n
  <1>3. Fifo' = Fifo \cup {p}
    BY <1>1, <1>2 DEF Fifo
  <1>4. ASSUME NEW i \in DOMAIN ScheduledCleanups', NEW j \in DOMAIN ScheduledCleanups',
               ScheduledCleanups'[i].proposal_id = ScheduledCleanups'[j].proposal_id
        PROVE  i = j
    BY <1>1, <1>2, <1>4 DEF Fifo, NoTwice
  <1>5. Ring' = Ring
    BY DEF Ring
  <1> QED BY <1>3, <1>4, <1>5 DEF NoTwice

\* trigger_cleanup moves the head of the FIFO to the end of the deletion queue.
LEMMA ActivateMoves ==
    ASSUME CleanupTypeOK, NoTwice, CleanupDue,
           LET p == Head(ScheduledCleanups).proposal_id
           IN  ActivateHead(p) /\ p \notin Ring
    PROVE  LET p == Head(ScheduledCleanups).proposal_id
           IN  /\ p \in Fifo /\ Fifo' = Fifo \ {p} /\ Ring' = Ring \cup {p}
               /\ NoTwice'
  <1> DEFINE p == Head(ScheduledCleanups).proposal_id
             n == Len(ScheduledCleanups)
             m == Len(PendingCleanupQueue)
  <1>1. /\ ScheduledCleanups \in Seq(ScheduledCleanup) /\ ScheduledCleanups # << >>
        /\ PendingCleanupQueue \in Seq(ProposalId)
    BY DEF CleanupTypeOK, CleanupDue
  <1>2. /\ n \in Nat /\ n > 0 /\ DOMAIN ScheduledCleanups = 1 .. n
        /\ p = ScheduledCleanups[1].proposal_id
        /\ p \in ProposalId
    <2>1. n \in Nat /\ n > 0 /\ DOMAIN ScheduledCleanups = 1 .. n
      BY <1>1
    <2>2. Head(ScheduledCleanups) = ScheduledCleanups[1]
      BY <1>1
    <2>3. ScheduledCleanups[1] \in ScheduledCleanup
      BY <1>1, <2>1
    <2> QED BY <2>1, <2>2, <2>3 DEF ScheduledCleanup
  <1>3. /\ ScheduledCleanups' = Tail(ScheduledCleanups)
        /\ DOMAIN ScheduledCleanups' = 1 .. (n - 1)
        /\ \A i \in 1 .. (n - 1) : ScheduledCleanups'[i] = ScheduledCleanups[i + 1]
    BY <1>1, <1>2 DEF ActivateHead
  <1>4. /\ m \in Nat /\ DOMAIN PendingCleanupQueue = 1 .. m
        /\ PendingCleanupQueue' = Append(PendingCleanupQueue, p)
        /\ DOMAIN PendingCleanupQueue' = 1 .. (m + 1)
        /\ \A i \in 1 .. m : PendingCleanupQueue'[i] = PendingCleanupQueue[i]
        /\ PendingCleanupQueue'[m + 1] = p
    BY <1>1, <1>2 DEF ActivateHead
  <1> HIDE DEF p, n, m
  <1>5. /\ p \in Fifo
        /\ \A i \in 2 .. n : ScheduledCleanups[i].proposal_id # p
    BY <1>2 DEF Fifo, NoTwice
  <1>6. Fifo' = Fifo \ {p}
    <2>1. ASSUME NEW x \in Fifo \ {p} PROVE x \in Fifo'
      <3>1. PICK i \in 1 .. n : x = ScheduledCleanups[i].proposal_id
        BY <1>2 DEF Fifo
      <3>2. i # 1
        BY <1>2, <3>1
      <3>3. i - 1 \in 1 .. (n - 1) /\ (i - 1) + 1 = i
        BY <1>2, <3>1, <3>2
      <3>4. ScheduledCleanups'[i - 1] = ScheduledCleanups[i]
        BY <1>3, <3>3
      <3> QED BY <1>3, <3>1, <3>3, <3>4 DEF Fifo
    <2>2. ASSUME NEW x \in Fifo' PROVE x \in Fifo \ {p}
      BY <1>2, <1>3, <1>5 DEF Fifo
    <2> QED BY <2>1, <2>2
  <1>7. Ring' = Ring \cup {p}
    BY <1>4 DEF Ring
  <1>8. NoTwice'
    <2>1. ASSUME NEW i \in 1 .. (n - 1), NEW j \in 1 .. (n - 1),
                 ScheduledCleanups'[i].proposal_id = ScheduledCleanups'[j].proposal_id
          PROVE  i = j
      BY <1>2, <1>3, <2>1 DEF NoTwice
    <2>2. ASSUME NEW i \in 1 .. (m + 1), NEW j \in 1 .. (m + 1),
                 PendingCleanupQueue'[i] = PendingCleanupQueue'[j]
          PROVE  i = j
      BY <1>4, <2>2 DEF NoTwice, Ring, p
    <2> QED BY <1>3, <1>4, <2>1, <2>2 DEF NoTwice
  <1> QED BY <1>5, <1>6, <1>7, <1>8 DEF p

\* The head of the deletion queue, the proposals behind it and their places.
LEMMA RingHead ==
    ASSUME CleanupTypeOK, NoTwice, PendingCleanupQueue # << >>,
           NEW p, p = Head(PendingCleanupQueue)
    PROVE  LET rest == Tail(PendingCleanupQueue)
           IN  /\ p \in Ring
               /\ rest \in Seq(ProposalId)
               /\ {rest[i] : i \in DOMAIN rest} = Ring \ {p}
               /\ \A i, j \in DOMAIN rest : rest[i] = rest[j] => i = j
  <1> DEFINE rest == Tail(PendingCleanupQueue)
             m == Len(PendingCleanupQueue)
  <1>1. /\ PendingCleanupQueue \in Seq(ProposalId)
        /\ m \in Nat /\ m > 0 /\ DOMAIN PendingCleanupQueue = 1 .. m
        /\ p = PendingCleanupQueue[1]
    BY DEF CleanupTypeOK
  <1>2. /\ rest \in Seq(ProposalId) /\ DOMAIN rest = 1 .. (m - 1)
        /\ \A i \in 1 .. (m - 1) : rest[i] = PendingCleanupQueue[i + 1]
    BY <1>1
  <1> HIDE DEF rest, m
  <1>3. p \in Ring /\ \A i \in 2 .. m : PendingCleanupQueue[i] # p
    BY <1>1 DEF Ring, NoTwice
  <1>4. ASSUME NEW x \in Ring \ {p} PROVE \E i \in DOMAIN rest : x = rest[i]
    <2>1. PICK i \in 1 .. m : x = PendingCleanupQueue[i]
      BY <1>1 DEF Ring
    <2>2. i - 1 \in 1 .. (m - 1) /\ (i - 1) + 1 = i
      BY <1>1, <2>1
    <2> QED BY <1>2, <2>1, <2>2
  <1>5. ASSUME NEW i \in DOMAIN rest PROVE rest[i] \in Ring \ {p}
    BY <1>1, <1>2, <1>3 DEF Ring
  <1>6. ASSUME NEW i \in DOMAIN rest, NEW j \in DOMAIN rest, rest[i] = rest[j]
        PROVE  i = j
    <2>1. i \in 1 .. (m - 1) /\ j \in 1 .. (m - 1)
      BY <1>2
    <2>2. /\ i + 1 \in DOMAIN PendingCleanupQueue /\ j + 1 \in DOMAIN PendingCleanupQueue
          /\ PendingCleanupQueue[i + 1] = PendingCleanupQueue[j + 1]
      BY <1>1, <1>2, <1>6, <2>1
    <2>3. i + 1 = j + 1
      BY <2>2 DEF NoTwice
    <2> QED BY <2>1, <2>3
  <1> QED BY <1>2, <1>3, <1>4, <1>5, <1>6 DEF rest

\* A bounded deletion step moves the head to the end: nobody enters or leaves.
LEMMA RequeueKeeps ==
    ASSUME CleanupTypeOK, NoTwice, PendingCleanupQueue # << >>,
           NEW p \in ProposalId, p = Head(PendingCleanupQueue), NEW stage,
           Requeue(p, stage), UNCHANGED ScheduledCleanups
    PROVE  Fifo' = Fifo /\ Ring' = Ring /\ NoTwice'
  <1> DEFINE rest == Tail(PendingCleanupQueue)
             m == Len(rest)
  <1>1. /\ p \in Ring
        /\ rest \in Seq(ProposalId)
        /\ {rest[i] : i \in DOMAIN rest} = Ring \ {p}
        /\ \A i, j \in DOMAIN rest : rest[i] = rest[j] => i = j
    BY RingHead
  <1>2. PendingCleanupQueue' = Append(rest, p)
    BY DEF Requeue
  <1> HIDE DEF rest
  <1>3. /\ m \in Nat /\ DOMAIN rest = 1 .. m
        /\ DOMAIN PendingCleanupQueue' = 1 .. (m + 1)
        /\ \A i \in 1 .. m : PendingCleanupQueue'[i] = rest[i]
        /\ PendingCleanupQueue'[m + 1] = p
    BY <1>1, <1>2
  <1> HIDE DEF m
  <1>4. Ring' = {rest[i] : i \in DOMAIN rest} \cup {p}
    BY <1>3 DEF Ring
  <1>5. ASSUME NEW i \in 1 .. (m + 1), NEW j \in 1 .. (m + 1),
               PendingCleanupQueue'[i] = PendingCleanupQueue'[j]
        PROVE  i = j
    BY <1>1, <1>3, <1>5
  <1>6. Fifo' = Fifo
    BY DEF Fifo
  <1> QED BY <1>1, <1>3, <1>4, <1>5, <1>6 DEF NoTwice

\* The last deletion step takes the proposal off the deletion queue.
LEMMA DequeueDrops ==
    ASSUME CleanupTypeOK, NoTwice, PendingCleanupQueue # << >>,
           NEW p, p = Head(PendingCleanupQueue), Dequeue(p), UNCHANGED ScheduledCleanups
    PROVE  p \in Ring /\ Fifo' = Fifo /\ Ring' = Ring \ {p} /\ NoTwice'
  <1>1. PendingCleanupQueue' = Tail(PendingCleanupQueue)
    BY DEF Dequeue
  <1>2. Fifo' = Fifo
    BY DEF Fifo
  <1> DEFINE rest == Tail(PendingCleanupQueue)
  <1>3. /\ p \in Ring
        /\ {rest[i] : i \in DOMAIN rest} = Ring \ {p}
        /\ \A i, j \in DOMAIN rest : rest[i] = rest[j] => i = j
    BY RingHead
  <1> HIDE DEF rest
  <1>4. PendingCleanupQueue' = rest
    BY <1>1 DEF rest
  <1>5. Ring' = Ring \ {p}
    BY <1>3, <1>4 DEF Ring
  <1> QED BY <1>2, <1>3, <1>4, <1>5 DEF NoTwice

\* Steps that leave both queues alone.
LEMMA QueuesKept ==
    ASSUME UNCHANGED cleanupQueues, NoTwice
    PROVE  Fifo' = Fifo /\ Ring' = Ring /\ NoTwice'
  BY DEF cleanupQueues, Fifo, Ring, NoTwice

-------------------------------------------------------------------------------
(* The records of one proposal.                                              *)

\* The records of q are the same after the step, in every table.
Kept(q) ==
    /\ q < NextProposalId' <=> q < NextProposalId
    /\ Exists(q)' <=> Exists(q)
    /\ Exists(q) => Proposals'[q] = Proposals[q]
    /\ ProposalMutexBindings'[q] = ProposalMutexBindings[q]
    /\ \A s \in Subject : q \in ActiveProposalsBySubject'[s]
                             <=> q \in ActiveProposalsBySubject[s]
    /\ q \in DOMAIN PendingProposalExecutions' <=> q \in DOMAIN PendingProposalExecutions
    /\ q \in DOMAIN PendingTerminalFinalizations'
          <=> q \in DOMAIN PendingTerminalFinalizations
    /\ q \in TerminalFinalizationDeadLetters' <=> q \in TerminalFinalizationDeadLetters
    /\ q \in DOMAIN ProposalExecutionRetryStates'
          <=> q \in DOMAIN ProposalExecutionRetryStates
    /\ q \in DOMAIN ProposalExecutionRetryStates =>
          ProposalExecutionRetryStates'[q] = ProposalExecutionRetryStates[q]
    /\ q \in PendingTerminalCleanups' <=> q \in PendingTerminalCleanups
    /\ q \in notified' <=> q \in notified
    /\ q \in DOMAIN AutoFinalizeRetryStates' <=> q \in DOMAIN AutoFinalizeRetryStates
    /\ q \in AutoFinalizeDeadLetters' <=> q \in AutoFinalizeDeadLetters
    /\ q \in Fifo' <=> q \in Fifo
    /\ q \in Ring' <=> q \in Ring
    /\ q \in DOMAIN PendingProposalCleanups' <=> q \in DOMAIN PendingProposalCleanups

\* The lock q holds is the one it needs.
LocalLock(q) ==
    IF NeedsLock(q)
    THEN \E kind \in MutexKind :
            ProposalMutexBindings[q] = {[subject |-> Proposals[q].subject, kind |-> kind]}
    ELSE ProposalMutexBindings[q] = {}

\* What the tables say of one proposal fits its status.
Local(q) ==
    /\ Exists(q) => /\ q < NextProposalId
                    /\ Proposals[q].kind = "internal" <=> Proposals[q].stage = "internal"
    /\ LocalLock(q)
    /\ \A s \in Subject : q \in ActiveProposalsBySubject[s]
                             <=> HasStatus(q, "VOTING") /\ Proposals[q].subject = s
    /\ HasStatus(q, "PASSED") => \/ q \in DOMAIN PendingProposalExecutions
                                 \/ q \in DOMAIN ProposalExecutionRetryStates
    /\ q \in DOMAIN PendingProposalExecutions => Exists(q)
    /\ q \in DOMAIN ProposalExecutionRetryStates =>
          /\ HasStatus(q, "PASSED")
          /\ q \notin DOMAIN PendingProposalExecutions
          /\ ProposalExecutionRetryStates[q].manual_attempts < MaxManualExecutionAttempts
    /\ SideEffectsOwed(q) => HasStatus(q, "EXECUTION_FAILED")
    /\ Exists(q) /\ IsTerminalStatus(Proposals[q].status)
          <=> SideEffectsOwed(q) \/ q \in Fifo \/ q \in Ring
    /\ SideEffectsOwed(q) => q \notin Fifo /\ q \notin Ring
    /\ q \in Fifo => q \notin Ring
    /\ q \in DOMAIN PendingProposalCleanups <=> q \in Ring
    /\ HasStatus(q, "EXECUTION_FAILED") /\ ~SideEffectsOwed(q) =>
          q \in notified \/ q \in PendingTerminalCleanups
    /\ q \in notified => q < NextProposalId /\ (Exists(q) => HasStatus(q, "EXECUTION_FAILED"))
    /\ q \in DOMAIN AutoFinalizeRetryStates \/ q \in AutoFinalizeDeadLetters => Exists(q)

\* The step takes q along one edge of the lifecycle, or nowhere.
Moved(q) ==
    LET edge == <<LifeStatusOf(q), LifeStatusOf(q)'>>
    IN  \/ effects' = effects /\ LifeStatusOf(q)' = LifeStatusOf(q)
        \/ /\ effects' = effects
           /\ edge \in {<<"NONE", "VOTING">>, <<"VOTING", "PASSED">>, <<"VOTING", "REJECTED">>,
                        <<"PASSED", "EXECUTION_FAILED">>, <<"REJECTED", "PURGED">>,
                        <<"EXECUTED", "PURGED">>, <<"EXECUTION_FAILED", "PURGED">>}
        \/ /\ effects' = [effects EXCEPT ![q] = @ + 1]
           /\ edge = <<"PASSED", "EXECUTED">>

\* What is shown of every action that works on proposal p.
WorksOn(p) ==
    /\ \A q \in ProposalId \ {p} : Kept(q)
    /\ Local(p)'
    /\ Moved(p)
    /\ NoTwice'

\* Records that stay the same stay in step.
LEMMA KeptLocal ==
    ASSUME NEW q \in ProposalId, Local(q), Kept(q)
    PROVE  Local(q)'
  <1>1. q < NextProposalId' <=> q < NextProposalId
    BY DEF Kept
  <1>2. /\ Exists(q)' <=> Exists(q)
        /\ Exists(q) => Proposals'[q] = Proposals[q]
        /\ SideEffectsOwed(q)' <=> SideEffectsOwed(q)
    BY DEF Kept, SideEffectsOwed
  <1>3. /\ \A st : HasStatus(q, st)' <=> HasStatus(q, st)
        /\ NeedsLock(q)' <=> NeedsLock(q)
    BY <1>2 DEF HasStatus, NeedsLock
  <1>4. LocalLock(q)'
    BY <1>2, <1>3 DEF Local, Kept, LocalLock, NeedsLock
  <1>5. Exists(q)' => /\ q < NextProposalId'
                      /\ Proposals'[q].kind = "internal" <=> Proposals'[q].stage = "internal"
    BY <1>1, <1>2 DEF Local
  <1>6. \A s \in Subject : q \in ActiveProposalsBySubject'[s]
                             <=> HasStatus(q, "VOTING")' /\ Proposals'[q].subject = s
    BY <1>2, <1>3 DEF Local, Kept, HasStatus
  <1>7. q \in notified' => q < NextProposalId' /\ (Exists(q)' => HasStatus(q, "EXECUTION_FAILED")')
    BY <1>1, <1>2, <1>3 DEF Local, Kept
  <1>8. Exists(q)' /\ IsTerminalStatus(Proposals'[q].status)
          <=> SideEffectsOwed(q)' \/ q \in Fifo' \/ q \in Ring'
    BY <1>2 DEF Local, Kept
  <1> QED BY <1>2, <1>3, <1>4, <1>5, <1>6, <1>7, <1>8 DEF Local, Kept

-------------------------------------------------------------------------------
(* The effects the handlers share.                                           *)

\* A status change touches one proposal and only its status.
LEMMA StatusChange ==
    ASSUME TypeOK, NEW p \in ProposalId, NEW st \in Status, SetProposalStatus(p, st)
    PROVE  /\ Exists(p) /\ Exists(p)' /\ Proposals'[p].status = st
           /\ Proposals'[p].kind = Proposals[p].kind
           /\ Proposals'[p].stage = Proposals[p].stage
           /\ Proposals'[p].subject = Proposals[p].subject
           /\ ValidStatusTransition(Proposals[p].status, st)
           /\ \A q \in ProposalId \ {p} :
                 /\ Exists(q)' <=> Exists(q)
                 /\ Exists(q) => Proposals'[q] = Proposals[q]
  BY StatusChanged DEF TypeOK

\* The side effects of a terminal status, table by table.
LEMMA SideEffectsLocal ==
    ASSUME TypeOK, NoTwice, NEW p \in ProposalId, p \notin Fifo, TerminalSideEffects(p)
    PROVE  /\ Fifo' = Fifo \cup {p} /\ Ring' = Ring /\ NoTwice'
           /\ PendingProposalCleanups' = PendingProposalCleanups
           /\ ProposalMutexBindings' = [ProposalMutexBindings EXCEPT ![p] = {}]
           /\ ProposalExecutionRetryStates' = Remove(ProposalExecutionRetryStates, p)
  <1>1. ScheduleCleanup(p) /\ UNCHANGED PendingCleanupQueue
    BY DEF TerminalSideEffects
  <1>2. Fifo' = Fifo \cup {p} /\ Ring' = Ring /\ NoTwice'
    BY <1>1, ScheduleAdds DEF TypeOK
  <1> QED BY <1>2 DEF TerminalSideEffects, ReleaseMutexes

\* ... and what happens to the failure notice.
LEMMA NoticeLocal ==
    ASSUME NEW p, FinishTerminal(p) \/ FinishFailed(p)
    PROVE  /\ TerminalSideEffects(p)
           /\ FinishFailed(p) => p \in notified' \/ p \in PendingTerminalCleanups'
           /\ FinishTerminal(p) => notified' = notified
           /\ \A q : q # p =>
                 /\ q \in notified' <=> q \in notified
                 /\ q \in PendingTerminalCleanups' <=> q \in PendingTerminalCleanups
  BY DEF FinishTerminal, FinishFailed, NotifyOrQueue

\* The tables a handler of a passed proposal leaves alone.
passedFrame == <<NextProposalId, ActiveProposalsBySubject, AutoFinalizeRetryStates,
                 AutoFinalizeDeadLetters, PendingTerminalFinalizations,
                 TerminalFinalizationDeadLetters>>

\* A passed proposal is executed or fails, by whichever handler: the hook, a
\* manual retry, a cancellation or the end of the retry window.
LEMMA PassedConcludes ==
    ASSUME TypeOK, NoTwice, NEW p \in ProposalId, Local(p), HasStatus(p, "PASSED"),
           NEW st, SetProposalStatus(p, st),
           \/ /\ st = "EXECUTED" /\ FinishTerminal(p)
              /\ effects' = [effects EXCEPT ![p] = @ + 1]
           \/ st = "EXECUTION_FAILED" /\ FinishFailed(p) /\ UNCHANGED effects,
           PendingProposalExecutions' \in
              {PendingProposalExecutions, Remove(PendingProposalExecutions, p)},
           UNCHANGED passedFrame
    PROVE  WorksOn(p)
  <1>1. /\ Exists(p) /\ Exists(p)' /\ Proposals'[p].status = st
        /\ Proposals'[p].kind = Proposals[p].kind
        /\ Proposals'[p].stage = Proposals[p].stage
        /\ Proposals'[p].subject = Proposals[p].subject
        /\ \A q \in ProposalId \ {p} :
              /\ Exists(q)' <=> Exists(q)
              /\ Exists(q) => Proposals'[q] = Proposals[q]
    BY StatusChange, StatusNames
  <1>2. p \notin Fifo /\ p \notin Ring /\ ~SideEffectsOwed(p)
    BY DEF Local, HasStatus, IsTerminalStatus
  <1>3. /\ Fifo' = Fifo \cup {p} /\ Ring' = Ring /\ NoTwice'
        /\ PendingProposalCleanups' = PendingProposalCleanups
        /\ ProposalMutexBindings' = [ProposalMutexBindings EXCEPT ![p] = {}]
        /\ ProposalExecutionRetryStates' = Remove(ProposalExecutionRetryStates, p)
    BY <1>2, NoticeLocal, SideEffectsLocal
  <1>4. /\ st = "EXECUTION_FAILED" => p \in notified' \/ p \in PendingTerminalCleanups'
        /\ st = "EXECUTED" => notified' = notified
        /\ \A q : q # p =>
              /\ q \in notified' <=> q \in notified
              /\ q \in PendingTerminalCleanups' <=> q \in PendingTerminalCleanups
    BY NoticeLocal
  <1>5. ASSUME NEW q \in ProposalId \ {p} PROVE Kept(q)
    <2>1. ProposalMutexBindings'[q] = ProposalMutexBindings[q]
      BY <1>3 DEF TypeOK, MutexTypeOK
    <2>2. /\ q \in DOMAIN PendingProposalExecutions'
               <=> q \in DOMAIN PendingProposalExecutions
          /\ q \in DOMAIN ProposalExecutionRetryStates'
               <=> q \in DOMAIN ProposalExecutionRetryStates
          /\ q \in DOMAIN ProposalExecutionRetryStates =>
               ProposalExecutionRetryStates'[q] = ProposalExecutionRetryStates[q]
      BY <1>3, OtherKeys
    <2> QED BY <1>1, <1>3, <1>4, <2>1, <2>2 DEF Kept, passedFrame
  <1>6. Local(p)'
    <2>1. ProposalMutexBindings'[p] = {} /\ ~NeedsLock(p)'
      BY <1>1, <1>2, <1>3
      DEF NeedsLock, SideEffectsOwed, passedFrame, TypeOK, MutexTypeOK
    <2>2. ~SideEffectsOwed(p)'
      BY <1>2 DEF SideEffectsOwed, passedFrame
    <2>3. p \notin DOMAIN ProposalExecutionRetryStates'
      BY <1>3 DEF Remove
    <2>4. p \in notified' => st = "EXECUTION_FAILED"
      BY <1>4, <1>1 DEF Local, HasStatus
    <2>5. \A s \in Subject : p \notin ActiveProposalsBySubject'[s]
      BY DEF Local, HasStatus, passedFrame
    <2>6. p < NextProposalId' /\ (Proposals'[p].kind = "internal" <=> Proposals'[p].stage = "internal")
      BY <1>1 DEF Local, passedFrame
    <2> QED BY <1>1, <1>2, <1>3, <1>4, <2>1, <2>2, <2>3, <2>4, <2>5, <2>6
            DEF Local, LocalLock, HasStatus, IsTerminalStatus, passedFrame
  <1>7. Moved(p)
    BY <1>1 DEF Moved, LifeStatusOf, HasStatus
  <1> QED BY <1>3, <1>5, <1>6, <1>7 DEF WorksOn

\* A vote or a timeout decides a proposal.
LEMMA DecisionWorks ==
    ASSUME TypeOK, NoTwice, NEW p \in ProposalId, Local(p), HasStatus(p, "VOTING"),
           NEW st \in {"PASSED", "REJECTED"}, SetStatusAndEmit(p, st)
    PROVE  WorksOn(p)
  <1>0. /\ Proposals[p] \in ProposalRecord
        /\ Proposals[p].subject \in Subject /\ Proposals[p].kind \in Kind
    <2>1. Proposals[p] \in ProposalRecord
      BY LookupInMap DEF TypeOK, HasStatus, Exists
    <2> QED BY <2>1 DEF ProposalRecord
  <1>1. /\ Exists(p) /\ Exists(p)' /\ Proposals'[p].status = st
        /\ Proposals'[p].kind = Proposals[p].kind
        /\ Proposals'[p].stage = Proposals[p].stage
        /\ Proposals'[p].subject = Proposals[p].subject
        /\ \A q \in ProposalId \ {p} :
              /\ Exists(q)' <=> Exists(q)
              /\ Exists(q) => Proposals'[q] = Proposals[q]
    BY StatusChange, StatusNames DEF SetStatusAndEmit
  <1>2. /\ p \notin Fifo /\ p \notin Ring /\ ~SideEffectsOwed(p)
        /\ p \notin DOMAIN ProposalExecutionRetryStates
        /\ p \notin notified
        /\ p \notin DOMAIN PendingProposalCleanups
    BY DEF Local, HasStatus, IsTerminalStatus
  <1>3. /\ \A s \in Subject : ActiveProposalsBySubject'[s] =
              IF s = Proposals[p].subject THEN ActiveProposalsBySubject[s] \ {p}
              ELSE ActiveProposalsBySubject[s]
        /\ AutoFinalizeRetryStates' = Remove(AutoFinalizeRetryStates, p)
        /\ AutoFinalizeDeadLetters' = AutoFinalizeDeadLetters \ {p}
        /\ UNCHANGED <<NextProposalId, effects, PendingTerminalFinalizations,
                       TerminalFinalizationDeadLetters>>
    BY <1>0 DEF SetStatusAndEmit, RemoveActiveProposal, ForgetAutoFinalize, TypeOK,
                MutexTypeOK
  <1>4. /\ ~SideEffectsOwed(p)'
        /\ \A s \in Subject : p \notin ActiveProposalsBySubject'[s]
        /\ p < NextProposalId'
        /\ Proposals'[p].kind = "internal" <=> Proposals'[p].stage = "internal"
    BY <1>1, <1>2, <1>3 DEF SideEffectsOwed, Local
  <1>5. Moved(p)
    BY <1>1, <1>3 DEF Moved, LifeStatusOf, HasStatus
  <1>6. CASE st = "PASSED"
    <2>1. /\ PendingProposalExecutions' = Insert(PendingProposalExecutions, p, FirstAttempt)
          /\ UNCHANGED <<ProposalExecutionRetryStates, notified, cleanupVars,
                         PendingTerminalCleanups>>
      BY <1>6 DEF SetStatusAndEmit
    <2>2. /\ Fifo' = Fifo /\ Ring' = Ring /\ NoTwice'
          /\ PendingProposalCleanups' = PendingProposalCleanups
      BY <2>1, QueuesKept DEF cleanupVars, cleanupQueues
    <2>3. ProposalMutexBindings' =
            IF Proposals[p].kind = "joint" /\ Proposals[p].stage = "joint"
            THEN [ProposalMutexBindings EXCEPT ![p] = {}] ELSE ProposalMutexBindings
      BY <1>6 DEF SetStatusAndEmit, ShouldReleaseMutexes, IsTerminalStatus, ReleaseMutexes
    <2>4. ASSUME NEW q \in ProposalId \ {p} PROVE Kept(q)
      <3>1. ProposalMutexBindings'[q] = ProposalMutexBindings[q]
        BY <2>3 DEF TypeOK, MutexTypeOK
      <3>2. /\ q \in DOMAIN PendingProposalExecutions'
                 <=> q \in DOMAIN PendingProposalExecutions
            /\ q \in DOMAIN AutoFinalizeRetryStates'
                 <=> q \in DOMAIN AutoFinalizeRetryStates
        BY <1>3, <2>1, OtherKeys
      <3> QED BY <1>1, <1>3, <2>1, <2>2, <3>1, <3>2 DEF Kept
    <2>5. LocalLock(p)'
      <3>1. NeedsLock(p) <=> \/ Proposals[p].kind = "internal"
                             \/ Proposals[p].stage = "joint"
        BY <1>1 DEF NeedsLock, HasStatus
      <3>2. NeedsLock(p)' <=> Proposals[p].kind = "internal"
        BY <1>1, <1>4, <1>6 DEF NeedsLock
      <3>3. CASE Proposals[p].kind = "internal"
        <4>1. ProposalMutexBindings'[p] = ProposalMutexBindings[p]
          BY <2>3, <3>3
        <4> QED BY <1>1, <3>1, <3>2, <3>3, <4>1 DEF Local, LocalLock
      <3>4. CASE Proposals[p].kind # "internal"
        <4>1. ProposalMutexBindings'[p] = {}
          BY <1>0, <2>3, <3>1, <3>4 DEF Local, LocalLock, Kind, TypeOK, MutexTypeOK
        <4> QED BY <3>2, <3>4, <4>1 DEF LocalLock
      <3> QED BY <3>3, <3>4
    <2>6. Local(p)'
      <3>1. p \in DOMAIN PendingProposalExecutions'
        BY <2>1 DEF Insert
      <3> QED BY <1>1, <1>2, <1>4, <1>6, <2>1, <2>2, <2>5, <3>1
              DEF Local, HasStatus, IsTerminalStatus
    <2> QED BY <1>5, <2>2, <2>4, <2>6 DEF WorksOn
  <1>7. CASE st = "REJECTED"
    <2>1. FinishTerminal(p) /\ UNCHANGED PendingProposalExecutions
      BY <1>7 DEF SetStatusAndEmit
    <2>2. /\ Fifo' = Fifo \cup {p} /\ Ring' = Ring /\ NoTwice'
          /\ PendingProposalCleanups' = PendingProposalCleanups
          /\ ProposalMutexBindings' = [ProposalMutexBindings EXCEPT ![p] = {}]
          /\ ProposalExecutionRetryStates' = Remove(ProposalExecutionRetryStates, p)
      BY <1>2, <2>1, NoticeLocal, SideEffectsLocal
    <2>3. /\ notified' = notified
          /\ \A q : q # p =>
               (q \in PendingTerminalCleanups' <=> q \in PendingTerminalCleanups)
      BY <2>1, NoticeLocal
    <2>4. ASSUME NEW q \in ProposalId \ {p} PROVE Kept(q)
      <3>1. ProposalMutexBindings'[q] = ProposalMutexBindings[q]
        BY <2>2 DEF TypeOK, MutexTypeOK
      <3>2. /\ q \in DOMAIN ProposalExecutionRetryStates'
                 <=> q \in DOMAIN ProposalExecutionRetryStates
            /\ q \in DOMAIN ProposalExecutionRetryStates =>
                 ProposalExecutionRetryStates'[q] = ProposalExecutionRetryStates[q]
            /\ q \in DOMAIN AutoFinalizeRetryStates'
                 <=> q \in DOMAIN AutoFinalizeRetryStates
        BY <1>3, <2>2, OtherKeys
      <3> QED BY <1>1, <1>3, <2>1, <2>2, <2>3, <3>1, <3>2 DEF Kept
    <2>5. ProposalMutexBindings'[p] = {} /\ ~NeedsLock(p)'
      BY <1>1, <1>4, <1>7, <2>2 DEF NeedsLock, TypeOK, MutexTypeOK
    <2>6. Local(p)'
      <3>1. p \notin DOMAIN ProposalExecutionRetryStates'
        BY <2>2 DEF Remove
      <3> QED BY <1>1, <1>2, <1>4, <1>7, <2>1, <2>2, <2>3, <2>5, <3>1
              DEF Local, LocalLock, HasStatus, IsTerminalStatus
    <2> QED BY <1>5, <2>2, <2>4, <2>6 DEF WorksOn
  <1> QED BY <1>6, <1>7

\* A joint proposal goes on to its referendum and gives up its lock.
LEMMA AdvanceWorks ==
    ASSUME TypeOK, NoTwice, NEW p \in ProposalId, Local(p), HasStatus(p, "VOTING"),
           Proposals[p].stage = "joint", AdvanceToReferendum(p),
           \/ UNCHANGED <<AutoFinalizeRetryStates, AutoFinalizeDeadLetters>>
           \/ ForgetAutoFinalize(p)
    PROVE  WorksOn(p)
  <1>0. p \in DOMAIN Proposals /\ Proposals[p] \in ProposalRecord
    BY LookupInMap DEF TypeOK, HasStatus, Exists
  <1>1. /\ Exists(p) /\ Exists(p)' /\ Proposals'[p].status = "VOTING"
        /\ Proposals'[p].kind = Proposals[p].kind
        /\ Proposals'[p].stage = "referendum"
        /\ Proposals'[p].subject = Proposals[p].subject
        /\ \A q \in ProposalId \ {p} :
              /\ Exists(q)' <=> Exists(q)
              /\ Exists(q) => Proposals'[q] = Proposals[q]
    BY <1>0 DEF AdvanceToReferendum, Exists, HasStatus, ProposalRecord
  <1>2. /\ UNCHANGED <<NextProposalId, ActiveProposalsBySubject, executionVars,
                       cleanupVars, effects, notified>>
        /\ ProposalMutexBindings' = [ProposalMutexBindings EXCEPT ![p] = {}]
    BY DEF AdvanceToReferendum, ReleaseMutexes
  <1>3. /\ Fifo' = Fifo /\ Ring' = Ring /\ NoTwice'
        /\ PendingProposalCleanups' = PendingProposalCleanups
    BY <1>2, QueuesKept DEF cleanupVars, cleanupQueues
  <1>4. ASSUME NEW q \in ProposalId \ {p} PROVE Kept(q)
    <2>1. ProposalMutexBindings'[q] = ProposalMutexBindings[q]
      BY <1>2 DEF TypeOK, MutexTypeOK
    <2>2. /\ q \in DOMAIN AutoFinalizeRetryStates' <=> q \in DOMAIN AutoFinalizeRetryStates
          /\ q \in AutoFinalizeDeadLetters' <=> q \in AutoFinalizeDeadLetters
      BY OtherKeys DEF ForgetAutoFinalize
    <2> QED BY <1>1, <1>2, <1>3, <2>1, <2>2 DEF Kept, executionVars
  <1>5. Local(p)'
    <2>1. SideEffectsOwed(p)' <=> SideEffectsOwed(p)
      BY <1>2 DEF SideEffectsOwed, executionVars
    <2>2. Proposals[p].kind # "internal"
      BY <1>1 DEF Local
    <2>3. ProposalMutexBindings'[p] = {} /\ ~NeedsLock(p)'
      BY <1>1, <1>2, <2>2 DEF NeedsLock, TypeOK, MutexTypeOK
    <2> QED BY <1>1, <1>2, <1>3, <2>1, <2>2, <2>3
            DEF Local, LocalLock, HasStatus, IsTerminalStatus, executionVars
  <1>6. Moved(p)
    BY <1>1, <1>2 DEF Moved, LifeStatusOf, HasStatus
  <1> QED BY <1>3, <1>4, <1>5, <1>6 DEF WorksOn

\* A new proposal starts without any record and takes its lock and its slot.
LEMMA CreateWorks ==
    ASSUME TypeOK, NoTwice, NEW p \in ProposalId, Local(p), NEW s \in Subject,
           NEW kind \in Kinds, NEW mutexKind \in MutexKind,
           CreateProposal(p, s, kind, mutexKind)
    PROVE  WorksOn(p)
  <1>0. p \in Nat /\ p = NextProposalId /\ NextProposalId' = NextProposalId + 1
    BY IdsAreNat DEF CreateProposal, AllocateProposalId
  <1>1. /\ ~Exists(p) /\ p \notin Fifo /\ p \notin Ring /\ ~SideEffectsOwed(p)
        /\ p \notin notified
        /\ ProposalMutexBindings[p] = {}
        /\ p \notin DOMAIN PendingProposalExecutions
        /\ p \notin DOMAIN ProposalExecutionRetryStates
        /\ p \notin DOMAIN PendingProposalCleanups
        /\ \A t \in Subject : p \notin ActiveProposalsBySubject[t]
    <2>1. ~Exists(p) /\ p \notin notified
      BY <1>0 DEF Local
    <2>2. ~NeedsLock(p)
      BY <2>1 DEF NeedsLock
    <2> QED BY <2>1, <2>2 DEF Local, LocalLock, HasStatus
  <1> DEFINE new == [kind |-> kind, stage |-> kind, subject |-> s, status |-> "VOTING",
                     end |-> now + VotingDuration]
  <1>2. /\ Proposals' = Insert(Proposals, p, new)
        /\ ActiveProposalsBySubject' =
             [ActiveProposalsBySubject EXCEPT ![s] = @ \cup {p}]
        /\ ProposalMutexBindings' =
             [ProposalMutexBindings EXCEPT ![p] = @ \cup {[subject |-> s, kind |-> mutexKind]}]
        /\ UNCHANGED <<AutoFinalizeRetryStates, AutoFinalizeDeadLetters, executionVars,
                       cleanupVars, hookVars>>
    BY DEF CreateProposal, TryAddActiveProposal, AcquireMutex
  <1>3. /\ Exists(p)' /\ Proposals'[p] = new
        /\ \A q \in ProposalId \ {p} :
              /\ Exists(q)' <=> Exists(q)
              /\ Exists(q) => Proposals'[q] = Proposals[q]
    BY <1>2 DEF Exists, Insert
  <1>4. /\ new.kind = kind /\ new.stage = kind /\ new.subject = s /\ new.status = "VOTING"
        /\ kind \in Kind
    BY EngineAssumption
  <1> HIDE DEF new
  <1>5. /\ Fifo' = Fifo /\ Ring' = Ring /\ NoTwice'
        /\ PendingProposalCleanups' = PendingProposalCleanups
    BY <1>2, QueuesKept DEF cleanupVars, cleanupQueues
  <1>6. ASSUME NEW q \in ProposalId \ {p} PROVE Kept(q)
    <2>1. /\ ProposalMutexBindings'[q] = ProposalMutexBindings[q]
          /\ \A t \in Subject : q \in ActiveProposalsBySubject'[t]
                                   <=> q \in ActiveProposalsBySubject[t]
      BY <1>2 DEF TypeOK, MutexTypeOK
    <2>2. q < NextProposalId' <=> q < NextProposalId
      BY <1>0, IdsAreNat
    <2> QED BY <1>2, <1>3, <1>5, <2>1, <2>2 DEF Kept, executionVars, hookVars
  <1>7. Local(p)'
    <2>1. ~SideEffectsOwed(p)'
      BY <1>1, <1>2 DEF SideEffectsOwed, executionVars
    <2>2. ProposalMutexBindings'[p] = {[subject |-> s, kind |-> mutexKind]}
      BY <1>1, <1>2 DEF TypeOK, MutexTypeOK
    <2>3. NeedsLock(p)'
      BY <1>3, <1>4 DEF NeedsLock, Kind
    <2>4. LocalLock(p)'
      BY <1>3, <1>4, <2>2, <2>3 DEF LocalLock
    <2>5. \A t \in Subject : p \in ActiveProposalsBySubject'[t] <=> t = s
      BY <1>1, <1>2 DEF TypeOK, MutexTypeOK
    <2>6. p < NextProposalId' /\ (kind = "internal" <=> kind = "internal")
      BY <1>0
    <2> QED BY <1>1, <1>2, <1>3, <1>4, <1>5, <2>1, <2>4, <2>5, <2>6
            DEF Local, HasStatus, IsTerminalStatus, executionVars, hookVars
  <1>8. Moved(p)
    <2>1. LifeStatusOf(p) = "NONE"
      BY <1>0, <1>1 DEF LifeStatusOf
    <2>2. LifeStatusOf(p)' = "VOTING"
      BY <1>3, <1>4 DEF LifeStatusOf
    <2> QED BY <1>2, <2>1, <2>2 DEF Moved, hookVars
  <1> QED BY <1>5, <1>6, <1>7, <1>8 DEF WorksOn

-------------------------------------------------------------------------------
(* The handlers, one after another.                                          *)

\* An extrinsic of a passed proposal: manual retry or cancellation.
LEMMA PassedExtrinsics ==
    ASSUME TypeOK, NoTwice, NEW p \in ProposalId, Local(p),
           \/ \E outcome \in Outcomes : RetryPassedProposal(p, outcome)
           \/ CancelPassedProposal(p)
    PROVE  WorksOn(p)
  <1>1. CASE CancelPassedProposal(p)
    BY <1>1, PassedConcludes
    DEF CancelPassedProposal, FailAndFinish, passedFrame, expiryVars
  <1>2. ASSUME NEW outcome \in Outcomes, RetryPassedProposal(p, outcome) PROVE WorksOn(p)
    <2> DEFINE state == ProposalExecutionRetryStates[p]
    <2>1. /\ HasStatus(p, "PASSED") /\ p \in DOMAIN ProposalExecutionRetryStates
          /\ UNCHANGED passedFrame /\ UNCHANGED PendingProposalExecutions
      BY <1>2 DEF RetryPassedProposal, passedFrame, expiryVars
    <2>2. CASE /\ SetProposalStatus(p, "EXECUTED") /\ FinishTerminal(p)
               /\ effects' = [effects EXCEPT ![p] = @ + 1]
      BY <2>1, <2>2, PassedConcludes
    <2>3. CASE FailAndFinish(p) /\ UNCHANGED effects
      BY <2>1, <2>3, PassedConcludes DEF FailAndFinish
    <2>4. CASE /\ ~(state.manual_attempts + 1 >= MaxManualExecutionAttempts)
               /\ ProposalExecutionRetryStates' =
                    [ProposalExecutionRetryStates EXCEPT ![p].manual_attempts = @ + 1]
               /\ UNCHANGED <<Proposals, InternalProposalMutexes, ProposalMutexBindings,
                              PendingExecutionRetryExpirations, PendingTerminalCleanups,
                              cleanupVars, effects, notified>>
      <3>1. /\ Fifo' = Fifo /\ Ring' = Ring /\ NoTwice'
            /\ PendingProposalCleanups' = PendingProposalCleanups
        BY <2>4, QueuesKept DEF cleanupVars, cleanupQueues
      <3>2. state \in RetryRecord /\ state.manual_attempts \in Nat
        <4>1. state \in RetryRecord
          BY <2>1, LookupInMap DEF TypeOK, ExecutionTypeOK
        <4> QED BY <4>1 DEF RetryRecord
      <3>3. /\ DOMAIN ProposalExecutionRetryStates' = DOMAIN ProposalExecutionRetryStates
            /\ \A q \in DOMAIN ProposalExecutionRetryStates : q # p =>
                  ProposalExecutionRetryStates'[q] = ProposalExecutionRetryStates[q]
            /\ ProposalExecutionRetryStates'[p].manual_attempts = state.manual_attempts + 1
        BY <2>1, <2>4, <3>2 DEF RetryRecord
      <3>4. ProposalExecutionRetryStates'[p].manual_attempts < MaxManualExecutionAttempts
        BY <2>4, <3>2, <3>3, ExpiryAssumption
      <3>5. ASSUME NEW q \in ProposalId \ {p} PROVE Kept(q)
        BY <2>1, <2>4, <3>1, <3>3 DEF Kept, passedFrame, Exists
      <3>6. /\ \A q \in ProposalId : Exists(q)' <=> Exists(q)
            /\ \A st : HasStatus(p, st)' <=> HasStatus(p, st)
            /\ SideEffectsOwed(p)' <=> SideEffectsOwed(p)
            /\ NeedsLock(p)' <=> NeedsLock(p)
            /\ LifeStatusOf(p)' = LifeStatusOf(p)
        BY <2>1, <2>4 DEF passedFrame, Exists, HasStatus, SideEffectsOwed, NeedsLock,
                          LifeStatusOf
      <3>7. LocalLock(p)'
        BY <2>4, <3>6 DEF Local, LocalLock
      <3>8. Local(p)'
        BY <2>1, <2>4, <3>1, <3>3, <3>4, <3>6, <3>7 DEF Local, passedFrame
      <3> QED BY <2>4, <3>1, <3>5, <3>6, <3>8 DEF WorksOn, Moved
    <2> QED BY <1>2, <2>2, <2>3, <2>4 DEF RetryPassedProposal
  <1> QED BY <1>1, <1>2

\* The calls of a block.
LEMMA ExtrinsicWorks ==
    ASSUME TypeOK, NoTwice, \A p \in ProposalId : Local(p), Extrinsic
    PROVE  \E p \in ProposalId : WorksOn(p)
  <1>1. PICK p \in ProposalId :
            \/ \E s \in Subject, kind \in Kinds, mutexKind \in MutexKind :
                  CreateProposal(p, s, kind, mutexKind)
            \/ \E st \in {"PASSED", "REJECTED"} : DecideByVote(p, st)
            \/ AdvanceByVote(p)
            \/ FinalizeProposal(p)
            \/ \E outcome \in Outcomes : RetryPassedProposal(p, outcome)
            \/ CancelPassedProposal(p)
    BY DEF Extrinsic
  <1>2. Local(p)
    OBVIOUS
  <1>3. CASE \E s \in Subject, kind \in Kinds, mutexKind \in MutexKind :
                CreateProposal(p, s, kind, mutexKind)
    BY <1>2, <1>3, CreateWorks
  <1>4. CASE \E st \in {"PASSED", "REJECTED"} : DecideByVote(p, st)
    BY <1>2, <1>4, DecisionWorks DEF DecideByVote, IsOpen
  <1>5. CASE AdvanceByVote(p)
    BY <1>2, <1>5, AdvanceWorks DEF AdvanceByVote, IsOpen
  <1>6. CASE FinalizeProposal(p)
    <2>1. CASE TimeoutDecides(p)
      BY <1>2, <2>1, DecisionWorks DEF TimeoutDecides, IsOverdue
    <2>2. CASE TimeoutAdvances(p) /\ UNCHANGED <<AutoFinalizeRetryStates,
                                                 AutoFinalizeDeadLetters>>
      BY <1>2, <2>2, AdvanceWorks DEF TimeoutAdvances, IsOverdue
    <2> QED BY <1>6, <2>1, <2>2 DEF FinalizeProposal
  <1>7. CASE \/ \E outcome \in Outcomes : RetryPassedProposal(p, outcome)
             \/ CancelPassedProposal(p)
    BY <1>2, <1>7, PassedExtrinsics
  <1> QED BY <1>1, <1>3, <1>4, <1>5, <1>6, <1>7

\* The tables that hold records of proposals, apart from the timeout queue.
recordVars ==
    <<NextProposalId, Proposals, ProposalMutexBindings, ActiveProposalsBySubject,
      PendingProposalExecutions, PendingTerminalFinalizations,
      TerminalFinalizationDeadLetters, ProposalExecutionRetryStates,
      PendingTerminalCleanups, ScheduledCleanups, PendingCleanupQueue,
      PendingProposalCleanups, effects, notified>>

\* A step that changes at most the timeout records of p.
LEMMA TimeoutRecordsWork ==
    ASSUME TypeOK, NoTwice, NEW p \in ProposalId, Local(p), UNCHANGED recordVars,
           \A q \in ProposalId \ {p} :
              /\ q \in DOMAIN AutoFinalizeRetryStates' <=> q \in DOMAIN AutoFinalizeRetryStates
              /\ q \in AutoFinalizeDeadLetters' <=> q \in AutoFinalizeDeadLetters,
           p \in DOMAIN AutoFinalizeRetryStates' \/ p \in AutoFinalizeDeadLetters' => Exists(p)
    PROVE  WorksOn(p)
  <1>1. Fifo' = Fifo /\ Ring' = Ring /\ NoTwice'
    BY QueuesKept DEF recordVars, cleanupQueues
  <1>2. ASSUME NEW q \in ProposalId \ {p} PROVE Kept(q)
    BY <1>1 DEF Kept, recordVars, Exists
  <1>3. /\ Exists(p)' <=> Exists(p)
        /\ \A st : HasStatus(p, st)' <=> HasStatus(p, st)
        /\ SideEffectsOwed(p)' <=> SideEffectsOwed(p)
        /\ NeedsLock(p)' <=> NeedsLock(p)
        /\ LifeStatusOf(p)' = LifeStatusOf(p)
    BY DEF recordVars, Exists, HasStatus, SideEffectsOwed, NeedsLock, LifeStatusOf
  <1>4. LocalLock(p)'
    BY <1>3 DEF Local, LocalLock, recordVars
  <1>5. Local(p)'
    BY <1>1, <1>3, <1>4 DEF Local, recordVars
  <1> QED BY <1>1, <1>2, <1>3, <1>5 DEF WorksOn, Moved, recordVars

\* Steps that leave every record alone.
LEMMA NoRecordsWork ==
    ASSUME TypeOK, NoTwice, \A p \in ProposalId : Local(p), UNCHANGED recordVars,
           UNCHANGED <<AutoFinalizeRetryStates, AutoFinalizeDeadLetters>>
    PROVE  \E p \in ProposalId : WorksOn(p)
  <1>1. 0 \in ProposalId
    BY StoreAssumption DEF ProposalId
  <1>2. Local(0)
    BY <1>1
  <1>3. 0 \in DOMAIN AutoFinalizeRetryStates' \/ 0 \in AutoFinalizeDeadLetters' => Exists(0)
    BY <1>2 DEF Local
  <1>4. WorksOn(0)
    BY <1>1, <1>2, <1>3, TimeoutRecordsWork
  <1> QED BY <1>1, <1>4

\* A new block and the transitions between the phases of the hook.
LEMMA PhasesWork ==
    ASSUME TypeOK, NoTwice, \A p \in ProposalId : Local(p),
           \/ NewBlock \/ AtBound \/ EnterExpiryNow \/ EnterExecute \/ EnterFinalize
           \/ EnterRetryPending \/ EnterDeadlines \/ EnterNotify \/ EnterActivate
           \/ EnterCleanup \/ EndHook
    PROVE  \E p \in ProposalId : WorksOn(p)
  <1>1. UNCHANGED <<recordVars, AutoFinalizeRetryStates, AutoFinalizeDeadLetters>>
    BY DEF NewBlock, AtBound, EnterExpiryNow, EnterExecute, EnterFinalize,
           EnterRetryPending, EnterDeadlines, EnterNotify, EnterActivate, EnterCleanup,
           EndHook, vars, storeVars, mutexVars, expiryVars, executionVars, cleanupVars,
           hookVars, recordVars
  <1> QED BY <1>1, NoRecordsWork

\* One entry of an expiry bucket.
LEMMA ExpiryItemsWork ==
    ASSUME TypeOK, NoTwice, NEW p \in ProposalId, Local(p),
           SkipExpired(p) \/ AutoFinalize(p) \/ AutoFinalizeFails(p)
    PROVE  WorksOn(p)
  <1>1. CASE SkipExpired(p)
    <2>1. UNCHANGED recordVars
      BY <1>1 DEF SkipExpired, recordVars, storeVars, mutexVars, executionVars, cleanupVars
    <2>2. ForgetAutoFinalize(p)
      BY <1>1 DEF SkipExpired
    <2>3. /\ p \notin DOMAIN AutoFinalizeRetryStates' /\ p \notin AutoFinalizeDeadLetters'
          /\ \A q \in ProposalId \ {p} :
                /\ q \in DOMAIN AutoFinalizeRetryStates'
                     <=> q \in DOMAIN AutoFinalizeRetryStates
                /\ q \in AutoFinalizeDeadLetters' <=> q \in AutoFinalizeDeadLetters
      BY <2>2 DEF ForgetAutoFinalize, Remove
    <2> QED BY <2>1, <2>3, TimeoutRecordsWork
  <1>2. CASE AutoFinalizeFails(p)
    <2>1. UNCHANGED recordVars
      BY <1>2 DEF AutoFinalizeFails, recordVars, storeVars, mutexVars, executionVars,
                  cleanupVars
    <2>2. DeferAutoFinalize(p) /\ Exists(p)
      BY <1>2 DEF AutoFinalizeFails, IsOverdue, HasStatus
    <2>3. \A q \in ProposalId \ {p} :
                /\ q \in DOMAIN AutoFinalizeRetryStates'
                     <=> q \in DOMAIN AutoFinalizeRetryStates
                /\ q \in AutoFinalizeDeadLetters' <=> q \in AutoFinalizeDeadLetters
      BY <2>2 DEF DeferAutoFinalize, Insert, Remove
    <2> QED BY <2>1, <2>2, <2>3, TimeoutRecordsWork
  <1>3. CASE AutoFinalize(p)
    <2>1. CASE TimeoutDecides(p)
      BY <2>1, DecisionWorks DEF TimeoutDecides, IsOverdue
    <2>2. CASE TimeoutAdvances(p) /\ ForgetAutoFinalize(p)
      BY <2>2, AdvanceWorks DEF TimeoutAdvances, IsOverdue
    <2> QED BY <1>3, <2>1, <2>2 DEF AutoFinalize
  <1> QED BY <1>1, <1>2, <1>3

\* What stays the same for p when its proposal record does.
LEMMA SameRecord ==
    ASSUME NEW p, UNCHANGED <<Proposals, NextProposalId>>
    PROVE  /\ Exists(p)' <=> Exists(p)
           /\ \A st : HasStatus(p, st)' <=> HasStatus(p, st)
           /\ LifeStatusOf(p)' = LifeStatusOf(p)
           /\ (SideEffectsOwed(p)' <=> SideEffectsOwed(p)) => (NeedsLock(p)' <=> NeedsLock(p))
  BY DEF Exists, HasStatus, LifeStatusOf, NeedsLock

\* The tables that the execution phase leaves alone when nothing is concluded.
unfinishedFrame ==
    <<NextProposalId, ActiveProposalsBySubject, AutoFinalizeRetryStates,
      AutoFinalizeDeadLetters, TerminalFinalizationDeadLetters, ProposalMutexBindings,
      PendingTerminalCleanups, ScheduledCleanups, PendingCleanupQueue,
      PendingProposalCleanups, effects, notified>>

\* An execution entry is dropped, deferred, or handed to the administrators.
LEMMA QueueMoveWorks ==
    ASSUME TypeOK, NoTwice, NEW p \in ProposalId, Local(p),
           UNCHANGED <<unfinishedFrame, Proposals, PendingTerminalFinalizations>>,
           \/ /\ ~HasStatus(p, "PASSED") /\ UNCHANGED ProposalExecutionRetryStates
              /\ PendingProposalExecutions' = Remove(PendingProposalExecutions, p)
           \/ /\ HasStatus(p, "PASSED") /\ UNCHANGED ProposalExecutionRetryStates
              /\ p \in DOMAIN PendingProposalExecutions
              /\ \E e : PendingProposalExecutions' = Insert(PendingProposalExecutions, p, e)
           \/ /\ HasStatus(p, "PASSED")
              /\ PendingProposalExecutions' = Remove(PendingProposalExecutions, p)
              /\ \E d : ProposalExecutionRetryStates' =
                           Insert(ProposalExecutionRetryStates, p,
                                  [manual_attempts |-> 0, retry_deadline |-> d])
    PROVE  WorksOn(p)
  <1>1. Fifo' = Fifo /\ Ring' = Ring /\ NoTwice'
    BY QueuesKept DEF unfinishedFrame, cleanupQueues
  <1>2. SideEffectsOwed(p)' <=> SideEffectsOwed(p)
    BY DEF SideEffectsOwed, unfinishedFrame
  <1>3. /\ Exists(p)' <=> Exists(p)
        /\ \A st : HasStatus(p, st)' <=> HasStatus(p, st)
        /\ LifeStatusOf(p)' = LifeStatusOf(p)
        /\ NeedsLock(p)' <=> NeedsLock(p)
    BY <1>2, SameRecord DEF unfinishedFrame
  <1>4. ASSUME NEW q \in ProposalId \ {p} PROVE Kept(q)
    <2>1. /\ q \in DOMAIN PendingProposalExecutions'
               <=> q \in DOMAIN PendingProposalExecutions
          /\ q \in DOMAIN ProposalExecutionRetryStates'
               <=> q \in DOMAIN ProposalExecutionRetryStates
          /\ q \in DOMAIN ProposalExecutionRetryStates =>
               ProposalExecutionRetryStates'[q] = ProposalExecutionRetryStates[q]
      <3>1. q # p
        OBVIOUS
      <3>2. \/ UNCHANGED ProposalExecutionRetryStates
            \/ \E v : ProposalExecutionRetryStates' =
                         Insert(ProposalExecutionRetryStates, p, v)
        OBVIOUS
      <3>3. \/ PendingProposalExecutions' = Remove(PendingProposalExecutions, p)
            \/ \E v : PendingProposalExecutions' = Insert(PendingProposalExecutions, p, v)
        OBVIOUS
      <3>4. /\ q \in DOMAIN ProposalExecutionRetryStates'
                 <=> q \in DOMAIN ProposalExecutionRetryStates
            /\ q \in DOMAIN ProposalExecutionRetryStates =>
                 ProposalExecutionRetryStates'[q] = ProposalExecutionRetryStates[q]
        BY <3>1, <3>2 DEF Insert
      <3>5. q \in DOMAIN PendingProposalExecutions' <=> q \in DOMAIN PendingProposalExecutions
        BY <3>1, <3>3 DEF Insert, Remove
      <3> QED BY <3>4, <3>5
    <2> QED BY <1>1, <2>1 DEF Kept, unfinishedFrame, Exists
  <1>5. LocalLock(p)'
    BY <1>3 DEF Local, LocalLock, unfinishedFrame
  <1>6. /\ HasStatus(p, "PASSED") => \/ p \in DOMAIN PendingProposalExecutions'
                                     \/ p \in DOMAIN ProposalExecutionRetryStates'
        /\ p \in DOMAIN PendingProposalExecutions' => Exists(p)
        /\ p \in DOMAIN ProposalExecutionRetryStates' =>
              /\ HasStatus(p, "PASSED")
              /\ p \notin DOMAIN PendingProposalExecutions'
              /\ ProposalExecutionRetryStates'[p].manual_attempts < MaxManualExecutionAttempts
    <2>1. CASE /\ ~HasStatus(p, "PASSED") /\ UNCHANGED ProposalExecutionRetryStates
               /\ PendingProposalExecutions' = Remove(PendingProposalExecutions, p)
      BY <2>1 DEF Local, Remove
    <2>2. CASE /\ HasStatus(p, "PASSED") /\ UNCHANGED ProposalExecutionRetryStates
               /\ p \in DOMAIN PendingProposalExecutions
               /\ \E e : PendingProposalExecutions' = Insert(PendingProposalExecutions, p, e)
      BY <2>2 DEF Local, Insert
    <2>3. CASE /\ HasStatus(p, "PASSED")
               /\ PendingProposalExecutions' = Remove(PendingProposalExecutions, p)
               /\ \E d : ProposalExecutionRetryStates' =
                            Insert(ProposalExecutionRetryStates, p,
                                   [manual_attempts |-> 0, retry_deadline |-> d])
      BY <2>3, ExpiryAssumption DEF Insert, Remove
    <2> QED BY <2>1, <2>2, <2>3
  <1>7. Local(p)'
    BY <1>1, <1>2, <1>3, <1>5, <1>6 DEF Local, unfinishedFrame
  <1> QED BY <1>1, <1>3, <1>4, <1>7 DEF WorksOn, Moved, unfinishedFrame

\* The last automatic attempt fails: the status is final, its side effects owed.
LEMMA GiveUpWorks ==
    ASSUME TypeOK, NoTwice, NEW p \in ProposalId, Local(p), HasStatus(p, "PASSED"),
           p \in DOMAIN PendingProposalExecutions,
           SetProposalStatus(p, "EXECUTION_FAILED"),
           PendingProposalExecutions' = Remove(PendingProposalExecutions, p),
           PendingTerminalFinalizations' =
              Insert(PendingTerminalFinalizations, p, FirstAttempt),
           UNCHANGED <<unfinishedFrame, ProposalExecutionRetryStates>>
    PROVE  WorksOn(p)
  <1>1. /\ Exists(p) /\ Exists(p)' /\ Proposals'[p].status = "EXECUTION_FAILED"
        /\ Proposals'[p].kind = Proposals[p].kind
        /\ Proposals'[p].stage = Proposals[p].stage
        /\ Proposals'[p].subject = Proposals[p].subject
        /\ \A q \in ProposalId \ {p} :
              /\ Exists(q)' <=> Exists(q)
              /\ Exists(q) => Proposals'[q] = Proposals[q]
    BY StatusChange, StatusNames
  <1>2. Fifo' = Fifo /\ Ring' = Ring /\ NoTwice'
    BY QueuesKept DEF unfinishedFrame, cleanupQueues
  <1>3. p \notin Fifo /\ p \notin Ring /\ p \notin DOMAIN ProposalExecutionRetryStates
    BY DEF Local, HasStatus, IsTerminalStatus
  <1>4. ASSUME NEW q \in ProposalId \ {p} PROVE Kept(q)
    <2>1. /\ q \in DOMAIN PendingProposalExecutions'
               <=> q \in DOMAIN PendingProposalExecutions
          /\ q \in DOMAIN PendingTerminalFinalizations'
               <=> q \in DOMAIN PendingTerminalFinalizations
      BY OtherKeys
    <2> QED BY <1>1, <1>2, <2>1 DEF Kept, unfinishedFrame
  <1>5. SideEffectsOwed(p)' /\ p \notin DOMAIN PendingProposalExecutions'
    BY DEF SideEffectsOwed, Insert, Remove
  <1>6. LocalLock(p)'
    <2>1. NeedsLock(p)' <=> NeedsLock(p)
      BY <1>1, <1>5 DEF NeedsLock, HasStatus
    <2> QED BY <1>1, <2>1 DEF Local, LocalLock, unfinishedFrame
  <1>7. /\ p < NextProposalId'
        /\ Proposals'[p].kind = "internal" <=> Proposals'[p].stage = "internal"
        /\ \A s \in Subject : p \notin ActiveProposalsBySubject'[s]
    BY <1>1 DEF Local, HasStatus, unfinishedFrame
  <1>8. Local(p)'
    BY <1>1, <1>2, <1>3, <1>5, <1>6, <1>7
    DEF Local, HasStatus, IsTerminalStatus, unfinishedFrame
  <1>9. Moved(p)
    BY <1>1 DEF Moved, LifeStatusOf, HasStatus, unfinishedFrame
  <1> QED BY <1>2, <1>4, <1>8, <1>9 DEF WorksOn

\* One entry of the execution queue.
LEMMA ExecutionItemsWork ==
    ASSUME TypeOK, CollectedStillQueued, NoTwice, NEW p \in ProposalId, Local(p),
           \/ SkipExecution(p) \/ ExecutionFails(p)
           \/ \E outcome \in Outcomes : ExecuteProposal(p, outcome)
    PROVE  WorksOn(p)
  <1>1. CASE SkipExecution(p)
    BY <1>1, QueueMoveWorks
    DEF SkipExecution, executeFrame, expiryVars, cleanupVars, unfinishedFrame
  <1>2. CASE ExecutionFails(p)
    <2>1. /\ p \in DOMAIN PendingProposalExecutions /\ HasStatus(p, "PASSED")
          /\ UNCHANGED unfinishedFrame /\ UNCHANGED ProposalExecutionRetryStates
      BY <1>2 DEF ExecutionFails, Item, CollectedStillQueued, executeFrame, expiryVars,
                  cleanupVars, unfinishedFrame, RollbackCallback
    <2>2. CASE PendingProposalExecutions[p].attempts + 1 >= MaxManualExecutionAttempts
      BY <1>2, <2>1, <2>2, GiveUpWorks DEF ExecutionFails
    <2>3. CASE ~(PendingProposalExecutions[p].attempts + 1 >= MaxManualExecutionAttempts)
      BY <1>2, <2>1, <2>3, QueueMoveWorks DEF ExecutionFails
    <2> QED BY <2>2, <2>3
  <1>3. ASSUME NEW outcome \in Outcomes, ExecuteProposal(p, outcome) PROVE WorksOn(p)
    <2>1. /\ HasStatus(p, "PASSED") /\ UNCHANGED passedFrame
          /\ PendingProposalExecutions' = Remove(PendingProposalExecutions, p)
      BY <1>3 DEF ExecuteProposal, executeFrame, expiryVars, passedFrame
    <2>2. CASE /\ SetProposalStatus(p, "EXECUTED") /\ FinishTerminal(p)
               /\ effects' = [effects EXCEPT ![p] = @ + 1]
      BY <2>1, <2>2, PassedConcludes
    <2>3. CASE FailAndFinish(p) /\ UNCHANGED effects
      BY <2>1, <2>3, PassedConcludes DEF FailAndFinish
    <2>4. CASE /\ ScheduleExecutionRetry(p)
               /\ UNCHANGED <<Proposals, InternalProposalMutexes, ProposalMutexBindings,
                              PendingTerminalCleanups, cleanupVars, effects, notified>>
      BY <2>1, <2>4, QueueMoveWorks
      DEF ScheduleExecutionRetry, passedFrame, cleanupVars, unfinishedFrame
    <2> QED BY <1>3, <2>2, <2>3, <2>4 DEF ExecuteProposal
  <1> QED BY <1>1, <1>2, <1>3

\* The owed side effects of a failed proposal, applied or refused once more.
LEMMA FinalizeItemsWork ==
    ASSUME TypeOK, CollectedStillQueued, NoTwice, NEW p \in ProposalId, Local(p),
           FinalizeTerminal(p) \/ FinalizeTerminalFails(p)
    PROVE  WorksOn(p)
  <1>0. p \in DOMAIN PendingTerminalFinalizations /\ HasStatus(p, "EXECUTION_FAILED")
    BY DEF FinalizeTerminal, FinalizeTerminalFails, Item, CollectedStillQueued
  <1>1. /\ SideEffectsOwed(p) /\ p \notin Fifo /\ p \notin Ring
        /\ p \notin DOMAIN ProposalExecutionRetryStates
    BY <1>0 DEF Local, SideEffectsOwed, HasStatus
  <1>2. UNCHANGED <<Proposals, NextProposalId, ActiveProposalsBySubject,
                    AutoFinalizeRetryStates, AutoFinalizeDeadLetters,
                    PendingProposalExecutions, effects>>
    BY DEF FinalizeTerminal, FinalizeTerminalFails, storeVars, mutexVars, expiryVars
  <1>3. /\ Exists(p)' <=> Exists(p)
        /\ \A st : HasStatus(p, st)' <=> HasStatus(p, st)
        /\ LifeStatusOf(p)' = LifeStatusOf(p)
        /\ (SideEffectsOwed(p)' <=> SideEffectsOwed(p)) => (NeedsLock(p)' <=> NeedsLock(p))
    BY <1>2, SameRecord
  <1>4. Moved(p)
    BY <1>2, <1>3 DEF Moved
  <1>5. CASE FinalizeTerminal(p)
    <2>1. FinishFailed(p)
      BY <1>5 DEF FinalizeTerminal
    <2>2. /\ Fifo' = Fifo \cup {p} /\ Ring' = Ring /\ NoTwice'
          /\ PendingProposalCleanups' = PendingProposalCleanups
          /\ ProposalMutexBindings' = [ProposalMutexBindings EXCEPT ![p] = {}]
          /\ ProposalExecutionRetryStates' = Remove(ProposalExecutionRetryStates, p)
      BY <1>1, <2>1, NoticeLocal, SideEffectsLocal
    <2>3. /\ p \in notified' \/ p \in PendingTerminalCleanups'
          /\ \A q : q # p =>
                /\ q \in notified' <=> q \in notified
                /\ q \in PendingTerminalCleanups' <=> q \in PendingTerminalCleanups
      BY <2>1, NoticeLocal
    <2>4. /\ PendingTerminalFinalizations' = Remove(PendingTerminalFinalizations, p)
          /\ TerminalFinalizationDeadLetters' = TerminalFinalizationDeadLetters \ {p}
      BY <1>5 DEF FinalizeTerminal
    <2>5. ASSUME NEW q \in ProposalId \ {p} PROVE Kept(q)
      <3>1. ProposalMutexBindings'[q] = ProposalMutexBindings[q]
        BY <2>2 DEF TypeOK, MutexTypeOK
      <3>2. /\ q \in DOMAIN ProposalExecutionRetryStates'
                 <=> q \in DOMAIN ProposalExecutionRetryStates
            /\ q \in DOMAIN ProposalExecutionRetryStates =>
                 ProposalExecutionRetryStates'[q] = ProposalExecutionRetryStates[q]
            /\ q \in DOMAIN PendingTerminalFinalizations'
                 <=> q \in DOMAIN PendingTerminalFinalizations
        BY <2>2, <2>4, OtherKeys
      <3> QED BY <1>2, <2>2, <2>3, <2>4, <3>1, <3>2 DEF Kept, Exists
    <2>6. ~SideEffectsOwed(p)'
      BY <2>4 DEF SideEffectsOwed, Remove
    <2>7. ~NeedsLock(p)' /\ ProposalMutexBindings'[p] = {}
      BY <1>0, <1>2, <2>2, <2>6 DEF NeedsLock, HasStatus, TypeOK, MutexTypeOK
    <2>8. p \notin DOMAIN ProposalExecutionRetryStates'
      BY <2>2 DEF Remove
    <2>9. p < NextProposalId'
      BY <1>0, <1>2 DEF Local, HasStatus
    <2>10. Local(p)'
      BY <1>0, <1>1, <1>2, <1>3, <2>2, <2>3, <2>6, <2>7, <2>8, <2>9
      DEF Local, LocalLock, HasStatus, IsTerminalStatus
    <2> QED BY <1>4, <2>2, <2>5, <2>10 DEF WorksOn
  <1>6. CASE FinalizeTerminalFails(p)
    <2>1. UNCHANGED <<ProposalMutexBindings, ProposalExecutionRetryStates,
                      PendingTerminalCleanups, cleanupVars, notified>>
      BY <1>6 DEF FinalizeTerminalFails, mutexVars
    <2>2. /\ Fifo' = Fifo /\ Ring' = Ring /\ NoTwice'
          /\ PendingProposalCleanups' = PendingProposalCleanups
      BY <2>1, QueuesKept DEF cleanupVars, cleanupQueues
    <2>3. \/ /\ PendingTerminalFinalizations' = Remove(PendingTerminalFinalizations, p)
             /\ TerminalFinalizationDeadLetters' = TerminalFinalizationDeadLetters \cup {p}
          \/ /\ \E e : PendingTerminalFinalizations' =
                          Insert(PendingTerminalFinalizations, p, e)
             /\ UNCHANGED TerminalFinalizationDeadLetters
      BY <1>6 DEF FinalizeTerminalFails
    <2>4. ASSUME NEW q \in ProposalId \ {p} PROVE Kept(q)
      <3>1. /\ q \in DOMAIN PendingTerminalFinalizations'
                 <=> q \in DOMAIN PendingTerminalFinalizations
            /\ q \in TerminalFinalizationDeadLetters' <=> q \in TerminalFinalizationDeadLetters
        BY <2>3, OtherKeys
      <3> QED BY <1>2, <2>1, <2>2, <3>1 DEF Kept, Exists
    <2>5. SideEffectsOwed(p)'
      BY <2>3 DEF SideEffectsOwed, Insert
    <2>6. LocalLock(p)'
      BY <1>1, <1>2, <1>3, <2>1, <2>5 DEF Local, LocalLock
    <2>7. Local(p)'
      BY <1>0, <1>1, <1>2, <1>3, <2>1, <2>2, <2>5, <2>6 DEF Local
    <2> QED BY <1>4, <2>2, <2>4, <2>7 DEF WorksOn
  <1> QED BY <1>5, <1>6

\* One retry deadline.
LEMMA DeadlineItemsWork ==
    ASSUME TypeOK, NoTwice, \A q \in ProposalId : Local(q), NEW p \in ProposalId,
           SkipDeadline(p) \/ RequeueDeadline(p) \/ ExpireRetry(p) \/ ExpireRetryFails(p)
    PROVE  \E q \in ProposalId : WorksOn(q)
  <1>1. CASE SkipDeadline(p) \/ RequeueDeadline(p) \/ ExpireRetryFails(p)
    <2>1. UNCHANGED <<recordVars, AutoFinalizeRetryStates, AutoFinalizeDeadLetters>>
      BY <1>1 DEF SkipDeadline, RequeueDeadline, ExpireRetryFails, deadlineFrame,
                  expiryVars, cleanupVars, recordVars
    <2> QED BY <2>1, NoRecordsWork
  <1>2. CASE ExpireRetry(p)
    <2>1. /\ HasStatus(p, "PASSED") /\ FailAndFinish(p)
          /\ UNCHANGED <<passedFrame, PendingProposalExecutions, effects>>
      BY <1>2 DEF ExpireRetry, WindowOver, deadlineFrame, expiryVars, passedFrame
    <2>2. WorksOn(p)
      BY <2>1, PassedConcludes DEF FailAndFinish
    <2> QED BY <2>2
  <1> QED BY <1>1, <1>2

\* The failure notice is repeated, accepted or dropped.
LEMMA NotifyWorks ==
    ASSUME TypeOK, NoTwice, NEW p \in ProposalId, Local(p), Notify(p)
    PROVE  WorksOn(p)
  <1>1. UNCHANGED <<storeVars, mutexVars, expiryVars, PendingProposalExecutions,
                    PendingTerminalFinalizations, TerminalFinalizationDeadLetters,
                    ProposalExecutionRetryStates, cleanupVars, effects>>
    BY DEF Notify
  <1>2. Fifo' = Fifo /\ Ring' = Ring /\ NoTwice'
    BY <1>1, QueuesKept DEF cleanupVars, cleanupQueues
  <1>3. SideEffectsOwed(p)' <=> SideEffectsOwed(p)
    BY <1>1 DEF SideEffectsOwed
  <1>4. /\ Exists(p)' <=> Exists(p)
        /\ \A st : HasStatus(p, st)' <=> HasStatus(p, st)
        /\ LifeStatusOf(p)' = LifeStatusOf(p)
        /\ NeedsLock(p)' <=> NeedsLock(p)
    BY <1>1, <1>3, SameRecord DEF storeVars
  <1>5. ASSUME NEW q \in ProposalId \ {p} PROVE Kept(q)
    <2>1. /\ q \in notified' <=> q \in notified
          /\ q \in PendingTerminalCleanups' <=> q \in PendingTerminalCleanups
      BY DEF Notify
    <2> QED BY <1>1, <1>2, <2>1
            DEF Kept, Exists, storeVars, mutexVars, expiryVars, cleanupVars
  <1>6. LocalLock(p)'
    BY <1>1, <1>4 DEF Local, LocalLock, storeVars, mutexVars
  <1>7. /\ HasStatus(p, "EXECUTION_FAILED") /\ ~SideEffectsOwed(p) =>
              p \in notified' \/ p \in PendingTerminalCleanups'
        /\ p \in notified' => p \in notified \/ HasStatus(p, "EXECUTION_FAILED")
    BY DEF Notify, Local
  <1>8. Local(p)'
    BY <1>1, <1>2, <1>3, <1>4, <1>6, <1>7
    DEF Local, HasStatus, storeVars, mutexVars, expiryVars, cleanupVars
  <1> QED BY <1>1, <1>2, <1>4, <1>5, <1>8 DEF WorksOn, Moved

\* The head of the retention FIFO enters the deletion queue.
LEMMA ActivateHeadWorks ==
    ASSUME TypeOK, NoTwice, NEW p \in ProposalId, Local(p), ActivateCleanup,
           p = Head(ScheduledCleanups).proposal_id
    PROVE  WorksOn(p)
  <1>1. /\ CleanupDue /\ Exists(p) /\ ActivateHead(p)
        /\ ActiveProposalsBySubject' =
             [ActiveProposalsBySubject EXCEPT ![Proposals[p].subject] = @ \ {p}]
        /\ UNCHANGED <<storeVars, ProposalMutexBindings, expiryVars, executionVars,
                       effects, notified>>
    BY DEF ActivateCleanup, RemoveActiveProposal
  <1>2. p \notin Ring
    BY <1>1 DEF Local, ActivateHead
  <1>3. p \in Fifo /\ Fifo' = Fifo \ {p} /\ Ring' = Ring \cup {p} /\ NoTwice'
    BY <1>1, <1>2, ActivateMoves DEF TypeOK
  <1>4. PendingProposalCleanups' = Insert(PendingProposalCleanups, p, 1)
    BY <1>1 DEF ActivateHead
  <1>5. SideEffectsOwed(p)' <=> SideEffectsOwed(p)
    BY <1>1 DEF SideEffectsOwed, executionVars
  <1>6. /\ Exists(p)' <=> Exists(p)
        /\ \A st : HasStatus(p, st)' <=> HasStatus(p, st)
        /\ LifeStatusOf(p)' = LifeStatusOf(p)
        /\ NeedsLock(p)' <=> NeedsLock(p)
    BY <1>1, <1>5, SameRecord DEF storeVars
  <1>7. ASSUME NEW q \in ProposalId \ {p} PROVE Kept(q)
    <2>1. /\ q \in DOMAIN PendingProposalCleanups' <=> q \in DOMAIN PendingProposalCleanups
          /\ q \in Fifo' <=> q \in Fifo
          /\ q \in Ring' <=> q \in Ring
      BY <1>3, <1>4, OtherKeys
    <2>2. \A s \in Subject : q \in ActiveProposalsBySubject'[s]
                               <=> q \in ActiveProposalsBySubject[s]
      BY <1>1 DEF TypeOK, MutexTypeOK
    <2> QED BY <1>1, <2>1, <2>2 DEF Kept, Exists, storeVars, expiryVars, executionVars
  <1>8. Local(p)'
    <2>1. \A s \in Subject : p \notin ActiveProposalsBySubject[s]
      BY <1>3 DEF Local, HasStatus, IsTerminalStatus
    <2>2. \A s \in Subject : p \notin ActiveProposalsBySubject'[s]
      BY <1>1, <2>1 DEF TypeOK, MutexTypeOK
    <2>3. LocalLock(p)'
      BY <1>1, <1>6 DEF Local, LocalLock, storeVars
    <2>4. p \in DOMAIN PendingProposalCleanups'
      BY <1>4 DEF Insert
    <2>5. ~HasStatus(p, "VOTING")
      BY <1>3 DEF Local, HasStatus, IsTerminalStatus
    <2> QED BY <1>1, <1>3, <1>5, <1>6, <2>2, <2>3, <2>4, <2>5
            DEF Local, storeVars, expiryVars, executionVars
  <1> QED BY <1>1, <1>3, <1>6, <1>7, <1>8 DEF WorksOn, Moved

\* ... which is a proposal.
LEMMA ActivateWorks ==
    ASSUME TypeOK, NoTwice, \A q \in ProposalId : Local(q), ActivateCleanup
    PROVE  \E q \in ProposalId : WorksOn(q)
  <1>1. /\ ScheduledCleanups \in Seq(ScheduledCleanup) /\ ScheduledCleanups # << >>
        /\ Head(ScheduledCleanups) \in ScheduledCleanup
    BY DEF TypeOK, CleanupTypeOK, ActivateCleanup, CleanupDue
  <1>2. PICK p \in ProposalId : p = Head(ScheduledCleanups).proposal_id
    BY <1>1 DEF ScheduledCleanup
  <1>3. WorksOn(p)
    BY <1>2, ActivateHeadWorks
  <1> QED BY <1>3

\* A bounded step of the deletion of p.
LEMMA CleanupStepWorks ==
    ASSUME TypeOK, NoTwice, NEW p \in ProposalId, Local(p), CleanupStep(p)
    PROVE  WorksOn(p)
  <1>1. /\ PendingCleanupQueue # << >> /\ p = Head(PendingCleanupQueue)
        /\ p \in DOMAIN PendingProposalCleanups
        /\ UNCHANGED <<storeVars, mutexVars, expiryVars, executionVars,
                       ScheduledCleanups, effects, notified>>
    BY DEF CleanupStep, CleanupTurn
  <1>2. PICK stage : Requeue(p, stage)
    BY DEF CleanupStep
  <1>3. Fifo' = Fifo /\ Ring' = Ring /\ NoTwice'
    BY <1>1, <1>2, RequeueKeeps DEF TypeOK
  <1>4. DOMAIN PendingProposalCleanups' = DOMAIN PendingProposalCleanups
    BY <1>1, <1>2 DEF Requeue, Insert
  <1>5. SideEffectsOwed(p)' <=> SideEffectsOwed(p)
    BY <1>1 DEF SideEffectsOwed, executionVars
  <1>6. /\ Exists(p)' <=> Exists(p)
        /\ \A st : HasStatus(p, st)' <=> HasStatus(p, st)
        /\ LifeStatusOf(p)' = LifeStatusOf(p)
        /\ NeedsLock(p)' <=> NeedsLock(p)
    BY <1>1, <1>5, SameRecord DEF storeVars
  <1>7. ASSUME NEW q \in ProposalId \ {p} PROVE Kept(q)
    BY <1>1, <1>3, <1>4 DEF Kept, Exists, storeVars, mutexVars, expiryVars, executionVars
  <1>8. LocalLock(p)'
    BY <1>1, <1>6 DEF Local, LocalLock, storeVars, mutexVars
  <1>9. Local(p)'
    BY <1>1, <1>3, <1>4, <1>5, <1>6, <1>8
    DEF Local, storeVars, mutexVars, expiryVars, executionVars
  <1> QED BY <1>1, <1>3, <1>6, <1>7, <1>9 DEF WorksOn, Moved

\* The last step of the deletion of p removes all that is left of it.
LEMMA PurgeWorks ==
    ASSUME TypeOK, NoTwice, NEW p \in ProposalId, Local(p), PurgeProposal(p)
    PROVE  WorksOn(p)
  <1>1. /\ PendingCleanupQueue # << >> /\ p = Head(PendingCleanupQueue)
        /\ Dequeue(p)
        /\ Proposals' = Remove(Proposals, p)
        /\ ProposalMutexBindings' = [ProposalMutexBindings EXCEPT ![p] = {}]
        /\ ProposalExecutionRetryStates' = Remove(ProposalExecutionRetryStates, p)
        /\ PendingProposalExecutions' = Remove(PendingProposalExecutions, p)
        /\ PendingTerminalFinalizations' = Remove(PendingTerminalFinalizations, p)
        /\ TerminalFinalizationDeadLetters' = TerminalFinalizationDeadLetters \ {p}
        /\ AutoFinalizeRetryStates' = Remove(AutoFinalizeRetryStates, p)
        /\ AutoFinalizeDeadLetters' = AutoFinalizeDeadLetters \ {p}
        /\ UNCHANGED <<NextProposalId, ActiveProposalsBySubject, PendingTerminalCleanups,
                       ScheduledCleanups, effects, notified>>
    BY DEF PurgeProposal, CleanupTurn, ReleaseMutexes, ForgetAutoFinalize
  <1>2. p \in Ring /\ Fifo' = Fifo /\ Ring' = Ring \ {p} /\ NoTwice'
    BY <1>1, DequeueDrops DEF TypeOK
  <1>3. PendingProposalCleanups' = Remove(PendingProposalCleanups, p)
    BY <1>1 DEF Dequeue
  <1>4. /\ Exists(p) /\ IsTerminalStatus(Proposals[p].status)
        /\ ~SideEffectsOwed(p) /\ p \notin Fifo
        /\ p < NextProposalId
    BY <1>2 DEF Local
  <1>5. ~Exists(p)' /\ ~SideEffectsOwed(p)' /\ \A st : ~HasStatus(p, st)'
    BY <1>1 DEF Exists, SideEffectsOwed, HasStatus, Remove
  <1>6. ASSUME NEW q \in ProposalId \ {p} PROVE Kept(q)
    <2>0. q # p
      OBVIOUS
    <2>1. /\ Exists(q)' <=> Exists(q)
          /\ Exists(q) => Proposals'[q] = Proposals[q]
          /\ q \in DOMAIN PendingProposalExecutions' <=> q \in DOMAIN PendingProposalExecutions
          /\ q \in DOMAIN PendingTerminalFinalizations'
               <=> q \in DOMAIN PendingTerminalFinalizations
      BY <1>1, <2>0, OtherKeys DEF Exists
    <2>2. /\ q \in DOMAIN ProposalExecutionRetryStates'
               <=> q \in DOMAIN ProposalExecutionRetryStates
          /\ q \in DOMAIN ProposalExecutionRetryStates =>
               ProposalExecutionRetryStates'[q] = ProposalExecutionRetryStates[q]
          /\ q \in DOMAIN AutoFinalizeRetryStates' <=> q \in DOMAIN AutoFinalizeRetryStates
          /\ q \in DOMAIN PendingProposalCleanups' <=> q \in DOMAIN PendingProposalCleanups
      BY <1>1, <1>3, <2>0, OtherKeys
    <2>3. ProposalMutexBindings'[q] = ProposalMutexBindings[q]
      BY <1>1 DEF TypeOK, MutexTypeOK
    <2> QED BY <1>1, <1>2, <2>1, <2>2, <2>3 DEF Kept
  <1>7. Local(p)'
    <2>1. ~NeedsLock(p)' /\ ProposalMutexBindings'[p] = {}
      BY <1>1, <1>5 DEF NeedsLock, TypeOK, MutexTypeOK
    <2>2. /\ p \notin DOMAIN PendingProposalExecutions'
          /\ p \notin DOMAIN ProposalExecutionRetryStates'
          /\ p \notin DOMAIN AutoFinalizeRetryStates' /\ p \notin AutoFinalizeDeadLetters'
          /\ p \notin DOMAIN PendingProposalCleanups'
      BY <1>1, <1>3 DEF Remove
    <2>3. \A s \in Subject : p \notin ActiveProposalsBySubject'[s]
      BY <1>1, <1>4 DEF Local, HasStatus, IsTerminalStatus
    <2> QED BY <1>1, <1>2, <1>4, <1>5, <2>1, <2>2, <2>3 DEF Local, LocalLock
  <1>8. Moved(p)
    <2>1. LifeStatusOf(p) \in {"REJECTED", "EXECUTED", "EXECUTION_FAILED"}
      BY <1>4 DEF LifeStatusOf, IsTerminalStatus
    <2>2. LifeStatusOf(p)' = "PURGED"
      BY <1>1, <1>4, <1>5 DEF LifeStatusOf
    <2> QED BY <1>1, <2>1, <2>2 DEF Moved
  <1> QED BY <1>2, <1>6, <1>7, <1>8 DEF WorksOn

\* Every step of the engine works on one proposal.
LEMMA StepWorks ==
    ASSUME TypeInv, NoTwice, \A q \in ProposalId : Local(q), Next
    PROVE  \E p \in ProposalId : WorksOn(p)
  <1>0. TypeOK /\ CollectedStillQueued
    BY DEF TypeInv
  <1>1. CASE Extrinsic
    BY <1>0, <1>1, ExtrinsicWorks
  <1>2. CASE \/ NewBlock \/ AtBound \/ EnterExpiryNow \/ EnterExecute \/ EnterFinalize
             \/ EnterRetryPending \/ EnterDeadlines \/ EnterNotify \/ EnterActivate
             \/ EnterCleanup \/ EndHook
    BY <1>0, <1>2, PhasesWork
  <1>3. CASE ActivateCleanup
    BY <1>0, <1>3, ActivateWorks
  <1>4. ASSUME NEW p \in ProposalId,
               SkipExpired(p) \/ AutoFinalize(p) \/ AutoFinalizeFails(p)
        PROVE  WorksOn(p)
    BY <1>0, <1>4, ExpiryItemsWork
  <1>5. ASSUME NEW p \in ProposalId,
               \/ SkipExecution(p) \/ ExecutionFails(p)
               \/ \E outcome \in Outcomes : ExecuteProposal(p, outcome)
        PROVE  WorksOn(p)
    BY <1>0, <1>5, ExecutionItemsWork
  <1>6. ASSUME NEW p \in ProposalId, FinalizeTerminal(p) \/ FinalizeTerminalFails(p)
        PROVE  WorksOn(p)
    BY <1>0, <1>6, FinalizeItemsWork
  <1>7. ASSUME NEW p \in ProposalId,
               \/ SkipDeadline(p) \/ RequeueDeadline(p)
               \/ ExpireRetry(p) \/ ExpireRetryFails(p)
        PROVE  \E q \in ProposalId : WorksOn(q)
    BY <1>0, <1>7, DeadlineItemsWork
  <1>8. ASSUME NEW p \in ProposalId, Notify(p) PROVE WorksOn(p)
    BY <1>0, <1>8, NotifyWorks
  <1>9. ASSUME NEW p \in ProposalId, CleanupStep(p) PROVE WorksOn(p)
    BY <1>0, <1>9, CleanupStepWorks
  <1>10. ASSUME NEW p \in ProposalId, PurgeProposal(p) PROVE WorksOn(p)
    BY <1>0, <1>10, PurgeWorks
  <1>11. CASE HookStep
    BY <1>2, <1>3, <1>4, <1>5, <1>6, <1>7, <1>8, <1>9, <1>10, <1>11 DEF HookStep
  <1> QED BY <1>1, <1>2, <1>11 DEF Next

-------------------------------------------------------------------------------
(* The results.                                                              *)

\* The inductive invariant: what the tables say of each proposal fits its status.
LocalInv == NoTwice /\ \A q \in ProposalId : Local(q)

\* Before the first proposal all tables are empty.
LEMMA InitLocalInv == Init => LocalInv
  <1> SUFFICES ASSUME Init PROVE LocalInv
    OBVIOUS
  <1>1. Fifo = {} /\ Ring = {} /\ NoTwice
    BY DEF Init, CleanupInit, Fifo, Ring, NoTwice
  <1>2. ASSUME NEW q \in ProposalId PROVE Local(q)
    <2>1. ~Exists(q) /\ ~SideEffectsOwed(q) /\ ~NeedsLock(q) /\ \A st : ~HasStatus(q, st)
      BY DEF Init, ExecutionInit, EmptyMap, Exists, SideEffectsOwed, NeedsLock, HasStatus
    <2>2. ProposalMutexBindings[q] = {} /\ \A s \in Subject : ActiveProposalsBySubject[s] = {}
      BY DEF Init, MutexInit
    <2> QED BY <1>1, <2>1, <2>2
            DEF Local, LocalLock, Init, ExpiryInit, ExecutionInit, CleanupInit, EmptyMap
  <1> QED BY <1>1, <1>2 DEF LocalInv

\* Every step keeps it.
LEMMA LocalInvStep == TypeInv /\ LocalInv /\ [Next]_vars => LocalInv'
  <1> SUFFICES ASSUME TypeInv, LocalInv, [Next]_vars PROVE LocalInv'
    OBVIOUS
  <1>1. CASE Next
    <2>1. PICK p \in ProposalId : WorksOn(p)
      BY <1>1, StepWorks DEF LocalInv
    <2>2. ASSUME NEW q \in ProposalId PROVE Local(q)'
      BY <2>1, KeptLocal DEF WorksOn, LocalInv
    <2> QED BY <2>1, <2>2 DEF WorksOn, LocalInv
  <1>2. CASE UNCHANGED vars
    <2>1. UNCHANGED <<recordVars, AutoFinalizeRetryStates, AutoFinalizeDeadLetters>>
      BY <1>2 DEF vars, storeVars, mutexVars, expiryVars, executionVars, cleanupVars,
                  hookVars, recordVars
    <2>2. PICK p \in ProposalId : WorksOn(p)
      BY <2>1, NoRecordsWork DEF LocalInv, TypeInv
    <2>3. ASSUME NEW q \in ProposalId PROVE Local(q)'
      BY <2>2, KeptLocal DEF WorksOn, LocalInv
    <2> QED BY <2>2, <2>3 DEF WorksOn, LocalInv
  <1> QED BY <1>1, <1>2

\* The records of every proposal fit its status in every reachable state.
THEOREM RecordsFitStatus == Spec => []LocalInv
  BY InitLocalInv, LocalInvStep, TypesCorrect, PTL DEF Spec

\* mutex.rs: a lock is held exactly as long as its proposal may act on the
\* subject, whichever handler ends the proposal.
THEOREM LocksLiveAsLongAsNeeded == Spec => []LockLifetime
  <1>1. LocalInv => LockLifetime
    BY DEF LocalInv, Local, LocalLock, LockLifetime
  <1> QED BY <1>1, RecordsFitStatus, PTL

\* execution.rs: as long as a failed proposal exists, its failure notice is sent or
\* still owed, and no other proposal gets one.  (Its deletion at the end of the
\* retention period does not wait for the notice.)
THEOREM NoticeNeverLost == Spec => []FailureNoticeOwed
  <1>1. LocalInv => FailureNoticeOwed
    BY DEF LocalInv, Local, FailureNoticeOwed
  <1> QED BY <1>1, RecordsFitStatus, PTL

\* maintenance.rs: the last deletion step leaves no record of the proposal.
THEOREM NothingOutlivesProposal == Spec => []PurgedLeavesNothing
  <1>1. LocalInv => PurgedLeavesNothing
    <2> SUFFICES ASSUME LocalInv, NEW p \in ProposalId \ DOMAIN Proposals
                 PROVE  /\ ProposalMutexBindings[p] = {}
                        /\ p \notin DOMAIN PendingProposalExecutions
                        /\ p \notin DOMAIN PendingTerminalFinalizations
                        /\ p \notin DOMAIN ProposalExecutionRetryStates
                        /\ p \notin DOMAIN AutoFinalizeRetryStates
                        /\ p \notin DOMAIN PendingProposalCleanups
                        /\ p \notin AutoFinalizeDeadLetters \cup TerminalFinalizationDeadLetters
      BY DEF PurgedLeavesNothing
    <2>1. Local(p) /\ ~Exists(p) /\ ~NeedsLock(p) /\ \A st : ~HasStatus(p, st)
      BY DEF LocalInv, Exists, NeedsLock, HasStatus
    <2> QED BY <2>1 DEF Local, LocalLock, SideEffectsOwed
  <1> QED BY <1>1, RecordsFitStatus, PTL

\* cleanup.rs: a finished proposal waits for its deletion in exactly one place,
\* an unfinished or deleted one in none, so side effects apply once.
THEOREM SideEffectsOnce == Spec => []CleanedUpOnce
  <1>1. LocalInv => CleanedUpOnce
    <2> SUFFICES ASSUME LocalInv, NEW p \in ProposalId
                 PROVE  CleanupPlaces(p) =
                          IF Exists(p) /\ IsTerminalStatus(Proposals[p].status) THEN 1 ELSE 0
      BY DEF CleanedUpOnce
    <2>1. Local(p) /\ NoTwice
      BY DEF LocalInv
    <2>2. Cardinality({i \in DOMAIN ScheduledCleanups :
                         ScheduledCleanups[i].proposal_id = p})
            = IF p \in Fifo THEN 1 ELSE 0
      <3>1. CASE p \in Fifo
        <4>1. PICK i \in DOMAIN ScheduledCleanups : ScheduledCleanups[i].proposal_id = p
          BY <3>1 DEF Fifo
        <4>2. {j \in DOMAIN ScheduledCleanups : ScheduledCleanups[j].proposal_id = p} = {i}
          BY <2>1, <4>1 DEF NoTwice
        <4> QED BY <3>1, <4>2, FS_Singleton
      <3>2. CASE p \notin Fifo
        <4>1. {j \in DOMAIN ScheduledCleanups : ScheduledCleanups[j].proposal_id = p} = {}
          BY <3>2 DEF Fifo
        <4> QED BY <3>2, <4>1, FS_EmptySet
      <3> QED BY <3>1, <3>2
    <2>3. Cardinality({i \in DOMAIN PendingCleanupQueue : PendingCleanupQueue[i] = p})
            = IF p \in Ring THEN 1 ELSE 0
      <3>1. CASE p \in Ring
        <4>1. PICK i \in DOMAIN PendingCleanupQueue : PendingCleanupQueue[i] = p
          BY <3>1 DEF Ring
        <4>2. {j \in DOMAIN PendingCleanupQueue : PendingCleanupQueue[j] = p} = {i}
          BY <2>1, <4>1 DEF NoTwice
        <4> QED BY <3>1, <4>2, FS_Singleton
      <3>2. CASE p \notin Ring
        <4>1. {j \in DOMAIN PendingCleanupQueue : PendingCleanupQueue[j] = p} = {}
          BY <3>2 DEF Ring
        <4> QED BY <3>2, <4>1, FS_EmptySet
      <3> QED BY <3>1, <3>2
    <2>4. /\ Exists(p) /\ IsTerminalStatus(Proposals[p].status)
                <=> SideEffectsOwed(p) \/ p \in Fifo \/ p \in Ring
          /\ SideEffectsOwed(p) => p \notin Fifo /\ p \notin Ring
          /\ p \in Fifo => p \notin Ring
      BY <2>1 DEF Local
    <2> QED BY <2>2, <2>3, <2>4 DEF CleanupPlaces
  <1> QED BY <1>1, RecordsFitStatus, PTL

-------------------------------------------------------------------------------
(* The engine implements the lifecycle.                                      *)

\* A proposal whose records are kept stays where it is in its life.
LEMMA KeptStatus ==
    ASSUME NEW q, Kept(q)
    PROVE  LifeStatusOf(q)' = LifeStatusOf(q)
  BY DEF Kept, LifeStatusOf

\* No proposal has been created yet.
LEMMA InitLifecycle == Init => Lifecycle!LifeInit
  <1> SUFFICES ASSUME Init PROVE Lifecycle!LifeInit
    OBVIOUS
  <1>1. ASSUME NEW p \in ProposalId PROVE LifeStatusOf(p) = "NONE"
    BY IdsAreNat DEF Init, EmptyMap, Exists, LifeStatusOf
  <1> QED BY <1>1 DEF Init, Lifecycle!LifeInit

\* Every step of the engine is a step of the lifecycle or changes nothing in it.
LEMMA LifecycleStep ==
    TypeInv /\ LocalInv /\ [Next]_vars => [Lifecycle!LifeNext]_(Lifecycle!lifecycleVars)
  <1> SUFFICES ASSUME TypeInv, LocalInv, [Next]_vars
               PROVE  Lifecycle!LifeNext \/ UNCHANGED Lifecycle!lifecycleVars
    OBVIOUS
  <1>1. CASE Next
    <2>1. PICK p \in ProposalId : WorksOn(p)
      BY <1>1, StepWorks DEF LocalInv
    <2> DEFINE life == [q \in ProposalId |-> LifeStatusOf(q)]
    <2>2. \A q \in ProposalId \ {p} : LifeStatusOf(q)' = LifeStatusOf(q)
      BY <2>1, KeptStatus DEF WorksOn
    <2>3. life' = [life EXCEPT ![p] = LifeStatusOf(p)']
      BY <2>2
    <2>4. Moved(p)
      BY <2>1 DEF WorksOn
    <2>5. CASE effects' = effects /\ LifeStatusOf(p)' = LifeStatusOf(p)
      BY <2>3, <2>5 DEF Lifecycle!lifecycleVars
    <2>6. CASE ~(effects' = effects /\ LifeStatusOf(p)' = LifeStatusOf(p))
      <3>1. life[p] = LifeStatusOf(p)
        OBVIOUS
      <3> HIDE DEF life
      <3> QED BY <2>3, <2>4, <2>6, <3>1
              DEF life, Moved, Lifecycle!LifeNext, Lifecycle!Create, Lifecycle!Pass,
                  Lifecycle!Reject, Lifecycle!Fail, Lifecycle!Purge, Lifecycle!Execute,
                  Lifecycle!Move
    <2> QED BY <2>5, <2>6
  <1>2. CASE UNCHANGED vars
    BY <1>2 DEF vars, storeVars, hookVars, Lifecycle!lifecycleVars, LifeStatusOf, Exists
  <1> QED BY <1>1, <1>2

\* lifecycle.rs: whatever the handlers, callbacks and faults do and in whichever
\* order, a proposal is decided once, executed at most once and only when
\* passed, never leaves a terminal status, and is deleted only from one.
THEOREM EngineImplementsLifecycle == Spec => ImplementsLifecycle
  BY InitLifecycle, LifecycleStep, RecordsFitStatus, TypesCorrect, PTL
  DEF Spec, ImplementsLifecycle, Lifecycle!LifeSpec

-------------------------------------------------------------------------------
(* The indexes by block that drive on_initialize: the deadlines of the       *)
(* manual-retry windows, the retention FIFO, the expiry buckets and the       *)
(* active lists.  An index is only useful while what it files lies ahead of   *)
(* the hook, so the invariants compare it with the block and the phase        *)
(* reached.                                                                   *)

-------------------------------------------------------------------------------
(* Manual-retry windows.                                                     *)

\* Every open window is registered where a hook still to come looks.
RegInv == \A q \in DOMAIN ProposalExecutionRetryStates : DeadlineRegistered(q)

\* A step that works on the window of p and keeps the registrations of the others.
LEMMA RegKept ==
    ASSUME RegInv, NEW p,
           p \in DOMAIN ProposalExecutionRetryStates' => DeadlineRegistered(p)',
           ExecutionRetryDeadlines \subseteq ExecutionRetryDeadlines',
           NextDeadlineBlock' = NextDeadlineBlock,
           \A q \in DOMAIN ProposalExecutionRetryStates' : q # p =>
              /\ q \in DOMAIN ProposalExecutionRetryStates
              /\ q \in PendingExecutionRetryExpirations =>
                    q \in PendingExecutionRetryExpirations'
              /\ Item("deadlines", q) => Item("deadlines", q)'
    PROVE  RegInv'
  <1> SUFFICES ASSUME NEW q \in DOMAIN ProposalExecutionRetryStates', q # p
               PROVE  DeadlineRegistered(q)'
    BY DEF RegInv
  <1>1. DeadlineRegistered(q)
    BY DEF RegInv
  <1>2. CASE \E e \in ExecutionRetryDeadlines : e[2] = q /\ e[1] >= NextDeadlineBlock
    BY <1>2 DEF DeadlineRegistered
  <1>3. CASE q \in PendingExecutionRetryExpirations \/ Item("deadlines", q)
    BY <1>3 DEF DeadlineRegistered
  <1> QED BY <1>1, <1>2, <1>3 DEF DeadlineRegistered

windowVars == <<ProposalExecutionRetryStates, ExecutionRetryDeadlines,
                PendingExecutionRetryExpirations>>

\* A step that touches no window and is not among the deadlines of its block.
LEMMA RegSame ==
    ASSUME RegInv, UNCHANGED windowVars, NextDeadlineBlock' = NextDeadlineBlock,
           hook.phase = "deadlines" => hook.todo = {} \/ hook' = hook
    PROVE  RegInv'
  <1> SUFFICES ASSUME NEW q \in DOMAIN ProposalExecutionRetryStates'
               PROVE  DeadlineRegistered(q)'
    BY DEF RegInv
  <1>1. DeadlineRegistered(q)
    BY DEF RegInv, windowVars
  <1>2. Item("deadlines", q) => Item("deadlines", q)'
    BY DEF Item
  <1> QED BY <1>1, <1>2 DEF DeadlineRegistered, windowVars

\* The handlers that end a window close it.
LEMMA ClosedWindow ==
    ASSUME NEW p, FinishTerminal(p) \/ FinishFailed(p) \/ FailAndFinish(p)
    PROVE  /\ p \notin DOMAIN ProposalExecutionRetryStates'
           /\ \A q \in DOMAIN ProposalExecutionRetryStates' : q # p =>
                 /\ q \in DOMAIN ProposalExecutionRetryStates
                 /\ q \in PendingExecutionRetryExpirations =>
                       q \in PendingExecutionRetryExpirations'
  <1>1. /\ ProposalExecutionRetryStates' = Remove(ProposalExecutionRetryStates, p)
        /\ PendingExecutionRetryExpirations' = PendingExecutionRetryExpirations \ {p}
    BY DEF FinishTerminal, FinishFailed, FailAndFinish, TerminalSideEffects
  <1> QED BY <1>1 DEF Remove

\* A bucket found for p lies at or after the block asked for.
LEMMA RescheduledAhead ==
    ASSUME NEW p, NEW from \in Nat,
           RescheduleDeadline(p, from) \/ RescheduleOrQueue(p, from)
    PROVE  /\ ExecutionRetryDeadlines \subseteq ExecutionRetryDeadlines'
           /\ \/ \E e \in ExecutionRetryDeadlines' : e[2] = p /\ e[1] \in Nat /\ e[1] >= from
              \/ p \in PendingExecutionRetryExpirations'
           /\ RescheduleOrQueue(p, from) =>
                 PendingExecutionRetryExpirations \subseteq PendingExecutionRetryExpirations'
  <1>1. CASE RescheduleDeadline(p, from)
    <2>1. PICK b \in DeadlineBucketsWithRoom(from) :
              ExecutionRetryDeadlines' = ExecutionRetryDeadlines \cup {<<b, p>>}
      BY <1>1 DEF RescheduleDeadline
    <2>2. b \in Nat /\ b >= from
      BY ExecutionAssumption DEF DeadlineBucketsWithRoom
    <2>3. <<b, p>> \in ExecutionRetryDeadlines' /\ <<b, p>>[2] = p /\ <<b, p>>[1] = b
      BY <2>1
    <2>4. \E e \in ExecutionRetryDeadlines' : e[2] = p /\ e[1] \in Nat /\ e[1] >= from
      BY <2>2, <2>3
    <2>5. RescheduleOrQueue(p, from) =>
                 PendingExecutionRetryExpirations \subseteq PendingExecutionRetryExpirations'
      BY DEF RescheduleOrQueue
    <2> QED BY <2>1, <2>4, <2>5
  <1>2. CASE ~RescheduleDeadline(p, from)
    BY <1>2 DEF RescheduleOrQueue
  <1> QED BY <1>1, <1>2

\* In an extrinsic nothing moves but the windows it closes.
LEMMA RegExtrinsic ==
    ASSUME RegInv, Extrinsic
    PROVE  RegInv'
  <1>1. PICK p \in ProposalId :
            \/ \E s \in Subject, kind \in Kinds, mutexKind \in MutexKind :
                  CreateProposal(p, s, kind, mutexKind)
            \/ \E st \in {"PASSED", "REJECTED"} : DecideByVote(p, st)
            \/ AdvanceByVote(p)
            \/ FinalizeProposal(p)
            \/ \E outcome \in Outcomes : RetryPassedProposal(p, outcome)
            \/ CancelPassedProposal(p)
    BY DEF Extrinsic
  <1>2. /\ hook' = hook /\ now' = now
        /\ ExecutionRetryDeadlines' = ExecutionRetryDeadlines
    BY <1>1 DEF CreateProposal, DecideByVote, AdvanceByVote, FinalizeProposal,
                RetryPassedProposal, CancelPassedProposal, TimeoutDecides, TimeoutAdvances,
                SetStatusAndEmit, AdvanceToReferendum, hookVars, executionVars
  <1>3. NextDeadlineBlock' = NextDeadlineBlock /\ \A q : Item("deadlines", q)' <=> Item("deadlines", q)
    BY <1>2 DEF NextDeadlineBlock, Item
  <1>4. CASE /\ UNCHANGED <<DOMAIN ProposalExecutionRetryStates,
                            PendingExecutionRetryExpirations>>
    BY <1>2, <1>3, <1>4 DEF RegInv, DeadlineRegistered
  <1>5. CASE FinishTerminal(p) \/ FinishFailed(p) \/ FailAndFinish(p)
    BY <1>2, <1>3, <1>5, ClosedWindow, RegKept
  <1>6. ASSUME NEW st, SetStatusAndEmit(p, st)
        PROVE  \/ UNCHANGED <<DOMAIN ProposalExecutionRetryStates,
                              PendingExecutionRetryExpirations>>
               \/ FinishTerminal(p)
    BY <1>6 DEF SetStatusAndEmit
  <1>7. ASSUME NEW outcome, RetryPassedProposal(p, outcome)
        PROVE  \/ UNCHANGED <<DOMAIN ProposalExecutionRetryStates,
                              PendingExecutionRetryExpirations>>
               \/ FinishTerminal(p) \/ FailAndFinish(p)
    BY <1>7 DEF RetryPassedProposal
  <1>8. CASE \/ \E s \in Subject, kind \in Kinds, mutexKind \in MutexKind :
                   CreateProposal(p, s, kind, mutexKind)
             \/ AdvanceByVote(p) \/ TimeoutAdvances(p)
    BY <1>4, <1>8 DEF CreateProposal, AdvanceByVote, TimeoutAdvances, AdvanceToReferendum,
                      executionVars
  <1> QED BY <1>1, <1>4, <1>5, <1>6, <1>7, <1>8
          DEF DecideByVote, FinalizeProposal, TimeoutDecides, CancelPassedProposal

\* A new block and the phases before and after the deadlines.
LEMMA RegPhases ==
    ASSUME TypeOK, RegInv,
           \/ NewBlock \/ EnterExpiryNow \/ EnterExecute \/ EnterFinalize
           \/ EnterRetryPending \/ EnterNotify \/ EnterActivate \/ EnterCleanup \/ EndHook
           \/ ActivateCleanup \/ AtBound
    PROVE  RegInv'
  <1>1. UNCHANGED windowVars
    BY DEF NewBlock, EnterExpiryNow, EnterExecute, EnterFinalize, EnterRetryPending,
           EnterNotify, EnterActivate, EnterCleanup, EndHook, ActivateCleanup, AtBound,
           vars, executionVars, windowVars
  <1>2. hook \in HookState
    BY DEF TypeOK, HookState
  <1>3. CASE NewBlock
    <2>1. hook.phase = "body" /\ hook'.phase = "expiry_cursor" /\ now' = now + 1
      BY <1>3 DEF NewBlock, InBody
    <2> QED BY <1>1, <2>1, RegSame DEF NextDeadlineBlock
  <1>4. CASE EnterExpiryNow \/ EnterExecute \/ EnterFinalize \/ EnterRetryPending
    <2>1. /\ hook.phase \in {"expiry_cursor", "expiry_now", "execute", "finalize"}
          /\ hook'.phase \in {"expiry_now", "execute", "finalize", "retry_pending"}
          /\ now' = now
      BY <1>4 DEF EnterExpiryNow, EnterExecute, EnterFinalize, EnterRetryPending,
                  PhaseDone, Enter, storeVars
    <2> QED BY <1>1, <2>1, RegSame DEF NextDeadlineBlock
  <1>5. CASE EnterNotify \/ EnterActivate \/ EnterCleanup \/ EndHook \/ ActivateCleanup
    <2>1. /\ hook.phase \in {"deadlines", "notify", "activate", "cleanup"}
          /\ hook.phase = "deadlines" => hook.todo = {}
          /\ now' = now
      BY <1>5 DEF EnterNotify, EnterActivate, EnterCleanup, EndHook, ActivateCleanup,
                  PhaseDone, storeVars
    <2>2. hook'.phase \in {"notify", "activate", "cleanup", "body"}
      <3>1. CASE ActivateCleanup
        BY <1>2, <3>1 DEF ActivateCleanup, SpendBudget, HookState
      <3>2. CASE ~ActivateCleanup
        BY <1>5, <3>2 DEF EnterNotify, EnterActivate, EnterCleanup, EndHook, Enter, Body
      <3> QED BY <3>1, <3>2
    <2> QED BY <1>1, <2>1, <2>2, RegSame DEF NextDeadlineBlock
  <1>6. CASE AtBound
    <2>1. hook' = hook /\ now' = now
      BY <1>6 DEF AtBound, vars, storeVars, hookVars
    <2> QED BY <1>1, <2>1, RegSame DEF NextDeadlineBlock
  <1> QED BY <1>3, <1>4, <1>5, <1>6

\* The hook takes this block's deadlines: they become its items, later ones wait.
LEMMA RegEnterDeadlines ==
    ASSUME TypeOK, RegInv, EnterDeadlines
    PROVE  RegInv'
  <1>1. /\ hook.phase = "retry_pending" /\ now' = now /\ now \in Nat
        /\ hook'.phase = "deadlines" /\ hook'.todo = DeadlineBucket(now)
        /\ ExecutionRetryDeadlines' = ExecutionRetryDeadlines \ ({now} \X ProposalId)
        /\ UNCHANGED <<ProposalExecutionRetryStates, PendingExecutionRetryExpirations>>
    BY DEF EnterDeadlines, PhaseDone, Enter, storeVars, TypeOK
  <1>2. NextDeadlineBlock = now /\ NextDeadlineBlock' = now + 1
    BY <1>1 DEF NextDeadlineBlock
  <1> SUFFICES ASSUME NEW q \in DOMAIN ProposalExecutionRetryStates
               PROVE  DeadlineRegistered(q)'
    BY <1>1 DEF RegInv
  <1>3. q \in ProposalId /\ DeadlineRegistered(q)
    BY LookupInMap DEF RegInv, TypeOK, ExecutionTypeOK
  <1>4. CASE q \in PendingExecutionRetryExpirations
    BY <1>1, <1>4 DEF DeadlineRegistered
  <1>5. ASSUME NEW e \in ExecutionRetryDeadlines, e[2] = q, e[1] >= now
        PROVE  DeadlineRegistered(q)'
    <2>1. e = <<e[1], q>> /\ e[1] \in Nat
      BY <1>5 DEF TypeOK, ExecutionTypeOK
    <2>2. CASE e[1] = now
      BY <1>1, <1>3, <1>5, <2>1, <2>2 DEF DeadlineBucket, DeadlineRegistered, Item
    <2>3. CASE e[1] # now
      <3>1. e \in ExecutionRetryDeadlines' /\ e[1] >= now + 1
        BY <1>1, <1>5, <2>1, <2>3
      <3> QED BY <1>2, <1>5, <3>1 DEF DeadlineRegistered
    <2> QED BY <2>2, <2>3
  <1> QED BY <1>1, <1>2, <1>3, <1>4, <1>5 DEF DeadlineRegistered, Item

\* Handling one item of the hook leaves the place of the hook as it is.
LEMMA ItemDropped ==
    ASSUME TypeOK, NEW p, DropItem(p), now' = now
    PROVE  /\ NextDeadlineBlock' = NextDeadlineBlock /\ hook'.phase = hook.phase
           /\ \A q : q # p => (Item("deadlines", q)' <=> Item("deadlines", q))
  <1>1. hook \in HookState
    BY DEF TypeOK, HookState
  <1>2. hook'.phase = hook.phase /\ hook'.todo = hook.todo \ {p}
    BY <1>1 DEF DropItem, HookState
  <1> QED BY <1>2 DEF NextDeadlineBlock, Item

\* Items of the phases before the deadlines, and the notices after them.
LEMMA RegItems ==
    ASSUME TypeOK, RegInv, NEW p \in ProposalId,
           \/ SkipExpired(p) \/ AutoFinalize(p) \/ AutoFinalizeFails(p)
           \/ SkipExecution(p) \/ ExecutionFails(p)
           \/ \E outcome \in Outcomes : ExecuteProposal(p, outcome)
           \/ FinalizeTerminal(p) \/ FinalizeTerminalFails(p) \/ Notify(p)
    PROVE  RegInv'
  <1>1. DropItem(p) /\ hook.phase # "deadlines" /\ now' = now
    BY DEF SkipExpired, AutoFinalize, AutoFinalizeFails, SkipExecution, ExecutionFails,
           ExecuteProposal, FinalizeTerminal, FinalizeTerminalFails, Notify, ExpiryItem,
           Item, TimeoutDecides, TimeoutAdvances, SetStatusAndEmit, AdvanceToReferendum,
           storeVars, executeFrame
  <1>2. /\ NextDeadlineBlock' = NextDeadlineBlock
        /\ \A q : ~Item("deadlines", q)
    BY <1>1, ItemDropped DEF Item
  <1>3. CASE UNCHANGED windowVars
    BY <1>1, <1>2, <1>3, RegSame
  <1>4. CASE /\ UNCHANGED ExecutionRetryDeadlines
             /\ FinishTerminal(p) \/ FinishFailed(p) \/ FailAndFinish(p)
    BY <1>2, <1>4, ClosedWindow, RegKept
  <1>5. CASE AutoFinalize(p)
    <2>1. CASE TimeoutAdvances(p)
      BY <1>3, <2>1 DEF TimeoutAdvances, AdvanceToReferendum, executionVars, windowVars
    <2>2. ASSUME NEW st, SetStatusAndEmit(p, st) PROVE RegInv'
      BY <1>3, <1>4, <2>2 DEF SetStatusAndEmit, windowVars
    <2> QED BY <1>5, <2>1, <2>2 DEF AutoFinalize, TimeoutDecides
  <1>6. CASE FinalizeTerminal(p)
    BY <1>4, <1>6 DEF FinalizeTerminal
  <1>7. ASSUME NEW outcome \in Outcomes, ExecuteProposal(p, outcome) PROVE RegInv'
    <2>1. CASE ScheduleExecutionRetry(p)
      <3>1. hook.phase = "execute" /\ now \in Nat
        BY <1>7 DEF ExecuteProposal, Item, TypeOK
      <3>2. NextDeadlineBlock' = now
        BY <1>2, <3>1 DEF NextDeadlineBlock
      <3>3. RescheduleOrQueue(p, now + ExecutionRetryGraceBlocks)
        BY <2>1 DEF ScheduleExecutionRetry
      <3>4. now + ExecutionRetryGraceBlocks \in Nat
        BY <3>1, ExecutionAssumption
      <3>5. /\ ExecutionRetryDeadlines \subseteq ExecutionRetryDeadlines'
            /\ \/ \E e \in ExecutionRetryDeadlines' :
                     e[2] = p /\ e[1] \in Nat /\ e[1] >= now + ExecutionRetryGraceBlocks
               \/ p \in PendingExecutionRetryExpirations'
            /\ PendingExecutionRetryExpirations \subseteq PendingExecutionRetryExpirations'
        BY <3>3, <3>4, RescheduledAhead
      <3>6. DeadlineRegistered(p)'
        BY <3>1, <3>2, <3>5, ExecutionAssumption DEF DeadlineRegistered
      <3>7. \A q \in DOMAIN ProposalExecutionRetryStates' :
               q # p => q \in DOMAIN ProposalExecutionRetryStates
        BY <2>1 DEF ScheduleExecutionRetry, Insert
      <3> QED BY <1>2, <3>5, <3>6, <3>7, RegKept
    <2> QED BY <1>4, <1>7, <2>1 DEF ExecuteProposal
  <1>8. CASE \/ SkipExpired(p) \/ AutoFinalizeFails(p) \/ SkipExecution(p)
             \/ ExecutionFails(p) \/ FinalizeTerminalFails(p) \/ Notify(p)
    BY <1>3, <1>8
    DEF SkipExpired, AutoFinalizeFails, SkipExecution, ExecutionFails,
        FinalizeTerminalFails, Notify, executionVars, windowVars
  <1> QED BY <1>5, <1>6, <1>7, <1>8

\* Items of the two deadline phases.
LEMMA RegDeadlineItems ==
    ASSUME TypeOK, RegInv, NEW p \in ProposalId,
           SkipDeadline(p) \/ RequeueDeadline(p) \/ ExpireRetry(p) \/ ExpireRetryFails(p)
    PROVE  RegInv'
  <1>1. /\ DropItem(p) /\ now' = now /\ now \in Nat
        /\ hook.phase \in {"retry_pending", "deadlines"}
    BY DEF SkipDeadline, RequeueDeadline, ExpireRetry, ExpireRetryFails, WindowOver,
           DeadlineItem, Item, deadlineFrame, TypeOK
  <1>2. /\ NextDeadlineBlock' = NextDeadlineBlock /\ hook'.phase = hook.phase
        /\ NextDeadlineBlock = IF hook.phase = "retry_pending" THEN now ELSE now + 1
        /\ \A q : q # p => (Item("deadlines", q)' <=> Item("deadlines", q))
    BY <1>1, ItemDropped DEF NextDeadlineBlock
  <1>3. CASE SkipDeadline(p)
    BY <1>2, <1>3, RegKept DEF SkipDeadline
  <1>4. CASE ExpireRetry(p)
    BY <1>2, <1>4, ClosedWindow, RegKept DEF ExpireRetry
  <1>5. CASE RequeueDeadline(p)
    <2> DEFINE deadline == ProposalExecutionRetryStates[p].retry_deadline
    <2>1. /\ hook.phase = "retry_pending" /\ p \in DOMAIN ProposalExecutionRetryStates
          /\ deadline > now /\ UNCHANGED ProposalExecutionRetryStates
      BY <1>5 DEF RequeueDeadline, Item
    <2>2. deadline \in Nat
      <3>1. ProposalExecutionRetryStates[p] \in RetryRecord
        BY <2>1, LookupInMap DEF TypeOK, ExecutionTypeOK
      <3> QED BY <3>1 DEF RetryRecord
    <2> HIDE DEF deadline
    <2>3. CASE DeadlineBucketsWithRoom(deadline) # {}
      <3>1. /\ RescheduleDeadline(p, deadline)
            /\ PendingExecutionRetryExpirations' = PendingExecutionRetryExpirations \ {p}
        BY <1>5, <2>3 DEF RequeueDeadline, deadline
      <3>2. PICK e \in ExecutionRetryDeadlines' : e[2] = p /\ e[1] \in Nat /\ e[1] >= deadline
        BY <2>2, <3>1, RescheduledAhead
      <3>3. DeadlineRegistered(p)'
        BY <1>1, <1>2, <2>1, <2>2, <3>2 DEF DeadlineRegistered
      <3>4. ExecutionRetryDeadlines \subseteq ExecutionRetryDeadlines'
        BY <2>2, <3>1, RescheduledAhead
      <3> QED BY <1>2, <2>1, <3>1, <3>3, <3>4, RegKept
    <2>4. CASE DeadlineBucketsWithRoom(deadline) = {}
      <3>1. UNCHANGED windowVars
        BY <1>5, <2>1, <2>4 DEF RequeueDeadline, deadline, windowVars
      <3> QED BY <1>2, <2>1, <3>1, RegSame
    <2> QED BY <2>3, <2>4
  <1>6. CASE ExpireRetryFails(p)
    <2>1. UNCHANGED ProposalExecutionRetryStates
      BY <1>6 DEF ExpireRetryFails
    <2>2. CASE hook.phase = "deadlines"
      <3>1. RescheduleOrQueue(p, now + 1) /\ now + 1 \in Nat
        BY <1>1, <1>6, <2>2 DEF ExpireRetryFails
      <3>2. /\ ExecutionRetryDeadlines \subseteq ExecutionRetryDeadlines'
            /\ \/ \E e \in ExecutionRetryDeadlines' :
                     e[2] = p /\ e[1] \in Nat /\ e[1] >= now + 1
               \/ p \in PendingExecutionRetryExpirations'
            /\ PendingExecutionRetryExpirations \subseteq PendingExecutionRetryExpirations'
        BY <3>1, RescheduledAhead
      <3>3. DeadlineRegistered(p)'
        BY <1>2, <2>2, <3>2 DEF DeadlineRegistered
      <3> QED BY <1>2, <2>1, <3>2, <3>3, RegKept
    <2>3. CASE hook.phase # "deadlines"
      <3>1. UNCHANGED windowVars
        BY <1>6, <2>1, <2>3 DEF ExpireRetryFails, windowVars
      <3> QED BY <1>2, <2>3, <3>1, RegSame
    <2> QED BY <2>2, <2>3
  <1> QED BY <1>3, <1>4, <1>5, <1>6

\* The steps of deletion.
LEMMA RegCleanup ==
    ASSUME TypeOK, RegInv, NEW p \in ProposalId, CleanupStep(p) \/ PurgeProposal(p)
    PROVE  RegInv'
  <1>1. hook \in HookState
    BY DEF TypeOK, HookState
  <1>2. /\ hook.phase = "cleanup" /\ hook'.phase = "cleanup" /\ now' = now
        /\ UNCHANGED <<ExecutionRetryDeadlines, PendingExecutionRetryExpirations>>
    BY <1>1 DEF CleanupStep, PurgeProposal, CleanupTurn, SpendBudget, HookState, storeVars,
                executionVars
  <1>3. NextDeadlineBlock' = NextDeadlineBlock /\ \A q : ~Item("deadlines", q)
    BY <1>2 DEF NextDeadlineBlock, Item
  <1>4. CASE CleanupStep(p)
    BY <1>2, <1>3, <1>4, RegSame DEF CleanupStep, executionVars, windowVars
  <1>5. CASE PurgeProposal(p)
    BY <1>2, <1>3, <1>5, RegKept DEF PurgeProposal, Remove
  <1> QED BY <1>4, <1>5

\* Every step keeps the open windows registered.
LEMMA RegStep == TypeInv /\ RegInv /\ [Next]_vars => RegInv'
  <1> SUFFICES ASSUME TypeInv, RegInv, [Next]_vars PROVE RegInv'
    OBVIOUS
  <1>0. TypeOK
    BY DEF TypeInv
  <1>1. CASE Extrinsic
    BY <1>1, RegExtrinsic
  <1>2. CASE \/ NewBlock \/ EnterExpiryNow \/ EnterExecute \/ EnterFinalize
             \/ EnterRetryPending \/ EnterNotify \/ EnterActivate \/ EnterCleanup \/ EndHook
             \/ ActivateCleanup \/ AtBound
    BY <1>0, <1>2, RegPhases
  <1>3. CASE EnterDeadlines
    BY <1>0, <1>3, RegEnterDeadlines
  <1>4. ASSUME NEW p \in ProposalId,
               \/ SkipExpired(p) \/ AutoFinalize(p) \/ AutoFinalizeFails(p)
               \/ SkipExecution(p) \/ ExecutionFails(p)
               \/ \E outcome \in Outcomes : ExecuteProposal(p, outcome)
               \/ FinalizeTerminal(p) \/ FinalizeTerminalFails(p) \/ Notify(p)
        PROVE  RegInv'
    BY <1>0, <1>4, RegItems
  <1>5. ASSUME NEW p \in ProposalId,
               SkipDeadline(p) \/ RequeueDeadline(p) \/ ExpireRetry(p) \/ ExpireRetryFails(p)
        PROVE  RegInv'
    BY <1>0, <1>5, RegDeadlineItems
  <1>6. ASSUME NEW p \in ProposalId, CleanupStep(p) \/ PurgeProposal(p) PROVE RegInv'
    BY <1>0, <1>6, RegCleanup
  <1>7. CASE UNCHANGED vars
    <2>1. UNCHANGED windowVars /\ hook' = hook /\ now' = now
      BY <1>7 DEF vars, storeVars, hookVars, executionVars, windowVars
    <2> QED BY <2>1, RegSame DEF NextDeadlineBlock
  <1>8. CASE HookStep
    BY <1>2, <1>3, <1>4, <1>5, <1>6, <1>8 DEF HookStep
  <1> QED BY <1>1, <1>2, <1>7, <1>8 DEF Next

\* lifecycle.rs and execution.rs: a passed proposal is never forgotten, and the
\* hook and an administrator never compete for it: it is in the execution queue,
\* or its manual-retry window is open and a block still to come closes it.
THEOREM PassedNeverForgotten == Spec => []PassedIsQueued
  <1>1. Init => RegInv
    BY DEF Init, ExecutionInit, EmptyMap, RegInv
  <1>2. LocalInv /\ RegInv => PassedIsQueued
    BY DEF LocalInv, Local, RegInv, PassedIsQueued
  <1> QED BY <1>1, <1>2, RegStep, RecordsFitStatus, TypesCorrect, PTL DEF Spec

-------------------------------------------------------------------------------
(* The retention FIFO.                                                       *)

\* The FIFO is ordered, and no task lies further ahead than one retention: a
\* task appended now is the latest.
FifoInv ==
    /\ CleanupFifoOrdered
    /\ \A i \in DOMAIN ScheduledCleanups : ScheduledCleanups[i].cleanup_at <= now + Retention

\* What a step may do to the FIFO.
FifoStep ==
    \/ UNCHANGED ScheduledCleanups /\ now' \in {now, now + 1}
    \/ now' = now /\ \E p \in ProposalId : ScheduleCleanup(p)
    \/ /\ now' = now /\ ScheduledCleanups # << >>
       /\ ScheduledCleanups' = Tail(ScheduledCleanups)

\* The terminal side effects append a task.
LEMMA FinishSchedules ==
    ASSUME NEW p, FinishTerminal(p) \/ FinishFailed(p) \/ FailAndFinish(p)
    PROVE  ScheduleCleanup(p)
  BY DEF FinishTerminal, FinishFailed, FailAndFinish, TerminalSideEffects

\* Every step of the engine is a step of the FIFO.
LEMMA StepsAreFifoSteps ==
    ASSUME Next
    PROVE  FifoStep
  <1>1. ASSUME NEW p \in ProposalId, now' = now,
               FinishTerminal(p) \/ FinishFailed(p) \/ FailAndFinish(p)
        PROVE  FifoStep
    BY <1>1, FinishSchedules DEF FifoStep
  <1>2. CASE now' \in {now, now + 1} /\ UNCHANGED ScheduledCleanups
    BY <1>2 DEF FifoStep
  <1>3. ASSUME NEW p \in ProposalId, NEW st, SetStatusAndEmit(p, st) PROVE FifoStep
    BY <1>1, <1>2, <1>3 DEF SetStatusAndEmit, cleanupVars
  <1>4. ASSUME NEW p \in ProposalId, TimeoutDecides(p) \/ TimeoutAdvances(p) PROVE FifoStep
    BY <1>2, <1>3, <1>4 DEF TimeoutDecides, TimeoutAdvances, AdvanceToReferendum, cleanupVars
  <1>5. CASE Extrinsic
    <2>1. PICK p \in ProposalId :
            \/ \E s \in Subject, kind \in Kinds, mutexKind \in MutexKind :
                  CreateProposal(p, s, kind, mutexKind)
            \/ \E st \in {"PASSED", "REJECTED"} : DecideByVote(p, st)
            \/ AdvanceByVote(p)
            \/ FinalizeProposal(p)
            \/ \E outcome \in Outcomes : RetryPassedProposal(p, outcome)
            \/ CancelPassedProposal(p)
      BY <1>5 DEF Extrinsic
    <2>2. ASSUME NEW outcome, RetryPassedProposal(p, outcome) PROVE FifoStep
      BY <1>1, <1>2, <2>2 DEF RetryPassedProposal, cleanupVars
    <2>3. CASE \/ \E s \in Subject, kind \in Kinds, mutexKind \in MutexKind :
                     CreateProposal(p, s, kind, mutexKind)
               \/ AdvanceByVote(p)
      BY <1>2, <2>3 DEF CreateProposal, AdvanceByVote, AdvanceToReferendum, cleanupVars
    <2> QED BY <1>1, <1>3, <1>4, <2>1, <2>2, <2>3
            DEF DecideByVote, FinalizeProposal, CancelPassedProposal
  <1>6. CASE \/ NewBlock \/ AtBound \/ EnterExpiryNow \/ EnterExecute \/ EnterFinalize
             \/ EnterRetryPending \/ EnterDeadlines \/ EnterNotify \/ EnterActivate
             \/ EnterCleanup \/ EndHook
    BY <1>2, <1>6
    DEF NewBlock, AtBound, EnterExpiryNow, EnterExecute, EnterFinalize, EnterRetryPending,
        EnterDeadlines, EnterNotify, EnterActivate, EnterCleanup, EndHook, vars, storeVars,
        cleanupVars
  <1>7. CASE ActivateCleanup
    BY <1>7 DEF ActivateCleanup, ActivateHead, CleanupDue, storeVars, FifoStep
  <1>8. ASSUME NEW p \in ProposalId,
               \/ SkipExpired(p) \/ AutoFinalizeFails(p) \/ SkipExecution(p)
               \/ ExecutionFails(p) \/ FinalizeTerminalFails(p) \/ SkipDeadline(p)
               \/ RequeueDeadline(p) \/ ExpireRetryFails(p) \/ Notify(p)
               \/ CleanupStep(p) \/ PurgeProposal(p)
        PROVE  FifoStep
    BY <1>2, <1>8
    DEF SkipExpired, AutoFinalizeFails, SkipExecution, ExecutionFails,
        FinalizeTerminalFails, SkipDeadline, RequeueDeadline, ExpireRetryFails, Notify,
        CleanupStep, PurgeProposal, storeVars, cleanupVars, executeFrame, deadlineFrame
  <1>9. ASSUME NEW p \in ProposalId, AutoFinalize(p) PROVE FifoStep
    BY <1>4, <1>9 DEF AutoFinalize
  <1>10. ASSUME NEW p \in ProposalId, NEW outcome, ExecuteProposal(p, outcome)
         PROVE  FifoStep
    BY <1>1, <1>2, <1>10 DEF ExecuteProposal, executeFrame, cleanupVars
  <1>11. ASSUME NEW p \in ProposalId, FinalizeTerminal(p) \/ ExpireRetry(p) PROVE FifoStep
    BY <1>1, <1>11 DEF FinalizeTerminal, ExpireRetry, storeVars, deadlineFrame
  <1> QED BY <1>5, <1>6, <1>7, <1>8, <1>9, <1>10, <1>11 DEF Next, HookStep

\* Every step of the FIFO keeps it ordered.
LEMMA FifoStepOrdered ==
    ASSUME TypeOK, FifoInv, FifoStep
    PROVE  FifoInv'
  <1> DEFINE n == Len(ScheduledCleanups)
  <1>1. /\ now \in Nat /\ Retention \in Nat
        /\ ScheduledCleanups \in Seq(ScheduledCleanup)
        /\ n \in Nat /\ DOMAIN ScheduledCleanups = 1 .. n
    BY CleanupAssumption DEF TypeOK, CleanupTypeOK
  <1>2. ASSUME NEW i \in 1 .. n PROVE ScheduledCleanups[i].cleanup_at \in Nat
    <2>1. ScheduledCleanups[i] \in ScheduledCleanup
      BY <1>1
    <2> QED BY <2>1 DEF ScheduledCleanup
  <1>3. CASE UNCHANGED ScheduledCleanups /\ now' \in {now, now + 1}
    <2>1. CleanupFifoOrdered'
      BY <1>3 DEF FifoInv, CleanupFifoOrdered
    <2>2. ASSUME NEW i \in 1 .. n
          PROVE  ScheduledCleanups[i].cleanup_at <= now' + Retention
      <3>1. ScheduledCleanups[i].cleanup_at <= now + Retention
        BY <1>1 DEF FifoInv
      <3> QED BY <1>1, <1>2, <1>3, <3>1
    <2> QED BY <1>1, <1>3, <2>1, <2>2 DEF FifoInv
  <1>4. ASSUME now' = now, NEW p \in ProposalId, ScheduleCleanup(p)
        PROVE  FifoInv'
    <2> DEFINE task == [cleanup_at |-> now + Retention, proposal_id |-> p]
    <2>1. task.cleanup_at = now + Retention
      OBVIOUS
    <2>2. /\ DOMAIN ScheduledCleanups' = 1 .. (n + 1)
          /\ \A i \in 1 .. n : ScheduledCleanups'[i] = ScheduledCleanups[i]
          /\ ScheduledCleanups'[n + 1] = task
      BY <1>1, <1>4 DEF ScheduleCleanup
    <2> HIDE DEF task, n
    <2>3. ASSUME NEW i \in 1 .. (n + 1)
          PROVE  ScheduledCleanups'[i].cleanup_at <= now' + Retention
      BY <1>1, <1>2, <1>4, <2>1, <2>2 DEF FifoInv
    <2>4. ASSUME NEW i \in 1 .. (n + 1), NEW j \in 1 .. (n + 1), i <= j
          PROVE  ScheduledCleanups'[i].cleanup_at <= ScheduledCleanups'[j].cleanup_at
      <3>1. CASE j = n + 1
        BY <1>4, <2>1, <2>2, <2>3, <3>1
      <3>2. CASE j # n + 1
        <4>1. i \in 1 .. n /\ j \in 1 .. n
          BY <1>1, <2>4, <3>2
        <4> QED BY <1>1, <2>2, <2>4, <4>1 DEF FifoInv, CleanupFifoOrdered
      <3> QED BY <3>1, <3>2
    <2> QED BY <2>2, <2>3, <2>4 DEF FifoInv, CleanupFifoOrdered
  <1>5. CASE /\ now' = now /\ ScheduledCleanups # << >>
             /\ ScheduledCleanups' = Tail(ScheduledCleanups)
    <2>1. /\ n > 0 /\ DOMAIN ScheduledCleanups' = 1 .. (n - 1)
          /\ \A i \in 1 .. (n - 1) : ScheduledCleanups'[i] = ScheduledCleanups[i + 1]
      BY <1>1, <1>5
    <2> HIDE DEF n
    <2>2. \A i \in 1 .. (n - 1) : i + 1 \in DOMAIN ScheduledCleanups
      BY <1>1, <2>1
    <2>3. ASSUME NEW i \in 1 .. (n - 1), NEW j \in 1 .. (n - 1), i <= j
          PROVE  ScheduledCleanups'[i].cleanup_at <= ScheduledCleanups'[j].cleanup_at
      <3>1. i + 1 <= j + 1
        BY <2>3
      <3> QED BY <2>1, <2>2, <3>1 DEF FifoInv, CleanupFifoOrdered
    <2>4. ASSUME NEW i \in 1 .. (n - 1)
          PROVE  ScheduledCleanups'[i].cleanup_at <= now' + Retention
      BY <1>5, <2>1, <2>2 DEF FifoInv
    <2> QED BY <2>1, <2>3, <2>4 DEF FifoInv, CleanupFifoOrdered
  <1> QED BY <1>3, <1>4, <1>5 DEF FifoStep

\* cleanup.rs: the retention FIFO is ordered by due block, which is why
\* process_scheduled_cleanups may stop at the first task that lies ahead.
THEOREM RetentionInOrder == Spec => []CleanupFifoOrdered
  <1>1. Init => FifoInv
    BY DEF Init, CleanupInit, FifoInv, CleanupFifoOrdered
  <1>2. TypeInv /\ FifoInv /\ [Next]_vars => FifoInv'
    <2> SUFFICES ASSUME TypeInv, FifoInv, [Next]_vars PROVE FifoInv'
      OBVIOUS
    <2>1. FifoStep
      BY StepsAreFifoSteps DEF FifoStep, vars, storeVars, cleanupVars
    <2> QED BY <2>1, FifoStepOrdered DEF TypeInv
  <1>3. FifoInv => CleanupFifoOrdered
    BY DEF FifoInv
  <1> QED BY <1>1, <1>2, <1>3, TypesCorrect, PTL DEF Spec

-------------------------------------------------------------------------------
(* The expiry buckets.                                                       *)

\* What UndecidedIsIndexed says of one proposal.
Indexed(q) ==
    /\ IsOpen(q) => <<Proposals[q].end + 1, q>> \in ProposalsByExpiry
    /\ IsOverdue(q) => \/ \E e \in ProposalsByExpiry : e[2] = q
                       \/ ExpiryItem(q)
                       \/ q \in AutoFinalizeDeadLetters

\* The cursor never points ahead of the block reached: the buckets the hook
\* drains hold no entry that an open vote still needs.
IndexInv == UndecidedIsIndexed /\ PendingExpiryBucket <= now

\* What a step may do to a proposal it does not work on.
IndexKept(q) ==
    /\ HasStatus(q, "VOTING")' => HasStatus(q, "VOTING") /\ Proposals'[q] = Proposals[q]
    /\ \A b : <<b, q>> \in ProposalsByExpiry => <<b, q>> \in ProposalsByExpiry'
    /\ ExpiryItem(q) => ExpiryItem(q)'
    /\ q \in AutoFinalizeDeadLetters => q \in AutoFinalizeDeadLetters'

\* ... keeps it filed.
LEMMA IndexedKept ==
    ASSUME TypeOK, NEW q \in ProposalId, Indexed(q), IndexKept(q), now' = now
    PROVE  Indexed(q)'
  <1>1. IsOpen(q)' => IsOpen(q) /\ Proposals'[q] = Proposals[q]
    BY DEF IsOpen, IndexKept
  <1>2. IsOverdue(q)' => IsOverdue(q)
    BY DEF IsOverdue, IndexKept
  <1>3. ASSUME NEW e \in ProposalsByExpiry, e[2] = q PROVE e \in ProposalsByExpiry'
    <2>1. e = <<e[1], q>>
      BY <1>3 DEF TypeOK, ExpiryTypeOK
    <2> QED BY <1>3, <2>1 DEF IndexKept
  <1>4. IsOpen(q)' => <<Proposals'[q].end + 1, q>> \in ProposalsByExpiry'
    BY <1>1 DEF Indexed, IndexKept
  <1>5. IsOverdue(q)' => \/ \E e \in ProposalsByExpiry' : e[2] = q
                         \/ ExpiryItem(q)'
                         \/ q \in AutoFinalizeDeadLetters'
    BY <1>2, <1>3 DEF Indexed, IndexKept
  <1> QED BY <1>4, <1>5 DEF Indexed

\* Steps that only move the cursor back or not at all.
LEMMA IndexInvStep ==
    ASSUME TypeOK, IndexInv, now' = now, PendingExpiryBucket' = PendingExpiryBucket,
           \A q \in ProposalId : IndexKept(q) \/ Indexed(q)'
    PROVE  IndexInv'
  <1>1. ASSUME NEW q \in ProposalId PROVE Indexed(q)'
    <2>1. Indexed(q)
      BY DEF IndexInv, UndecidedIsIndexed, Indexed
    <2> QED BY <2>1, IndexedKept
  <1>2. UndecidedIsIndexed'
    BY <1>1 DEF UndecidedIsIndexed, Indexed
  <1> QED BY <1>2 DEF IndexInv

indexVars == <<now, Proposals, ProposalsByExpiry, PendingExpiryBucket,
               AutoFinalizeDeadLetters>>

\* Steps outside the expiry phases that change no table the index depends on.
LEMMA IndexSame ==
    ASSUME TypeOK, IndexInv, UNCHANGED indexVars,
           \A q \in ProposalId : ExpiryItem(q) => ExpiryItem(q)'
    PROVE  IndexInv'
  <1>1. ASSUME NEW q \in ProposalId PROVE IndexKept(q)
    BY DEF IndexKept, indexVars, HasStatus, Exists
  <1> QED BY <1>1, IndexInvStep DEF indexVars

\* A proposal that has left VOTING needs no entry.
LEMMA IndexDecided ==
    ASSUME TypeOK, IndexInv, NEW p \in ProposalId, ~HasStatus(p, "VOTING")',
           \A q \in ProposalId \ {p} :
              /\ Exists(q)' <=> Exists(q)
              /\ Exists(q) => Proposals'[q] = Proposals[q]
              /\ ExpiryItem(q) => ExpiryItem(q)',
           UNCHANGED <<now, ProposalsByExpiry, PendingExpiryBucket>>,
           AutoFinalizeDeadLetters \ {p} \subseteq AutoFinalizeDeadLetters'
    PROVE  IndexInv'
  <1>1. Indexed(p)'
    BY DEF Indexed, IsOpen, IsOverdue
  <1>2. ASSUME NEW q \in ProposalId \ {p} PROVE IndexKept(q)
    BY DEF IndexKept, HasStatus
  <1> QED BY <1>1, <1>2, IndexInvStep

\* A proposal that starts a voting stage is filed under the block after its end.
LEMMA IndexFiled ==
    ASSUME TypeOK, IndexInv, NEW p \in ProposalId,
           Proposals'[p].end = now + VotingDuration,
           <<now + VotingDuration + 1, p>> \in ProposalsByExpiry',
           \A q \in ProposalId \ {p} :
              /\ Exists(q)' <=> Exists(q)
              /\ Exists(q) => Proposals'[q] = Proposals[q]
              /\ \A b : <<b, q>> \in ProposalsByExpiry => <<b, q>> \in ProposalsByExpiry'
              /\ ExpiryItem(q) => ExpiryItem(q)',
           UNCHANGED <<now, PendingExpiryBucket>>,
           AutoFinalizeDeadLetters \ {p} \subseteq AutoFinalizeDeadLetters'
    PROVE  IndexInv'
  <1>1. Indexed(p)'
    <2>1. ~(now' > Proposals'[p].end)
      BY StoreAssumption DEF TypeOK
    <2> QED BY <2>1 DEF Indexed, IsOpen, IsOverdue
  <1>2. ASSUME NEW q \in ProposalId \ {p} PROVE IndexKept(q)
    BY DEF IndexKept, HasStatus
  <1> QED BY <1>1, <1>2, IndexInvStep

\* A decision, and a passed proposal that is concluded.
LEMMA IndexStatus ==
    ASSUME TypeOK, IndexInv, NEW p \in ProposalId, NEW st \in Status, st # "VOTING",
           SetProposalStatus(p, st),
           \A q \in ProposalId \ {p} : ExpiryItem(q) => ExpiryItem(q)',
           UNCHANGED <<now, ProposalsByExpiry, PendingExpiryBucket>>,
           AutoFinalizeDeadLetters \ {p} \subseteq AutoFinalizeDeadLetters'
    PROVE  IndexInv'
  <1>1. /\ Proposals'[p].status = st
        /\ \A q \in ProposalId \ {p} :
              /\ Exists(q)' <=> Exists(q)
              /\ Exists(q) => Proposals'[q] = Proposals[q]
    BY StatusChange
  <1>2. ~HasStatus(p, "VOTING")'
    BY <1>1 DEF HasStatus
  <1> QED BY <1>1, <1>2, IndexDecided

\* A joint proposal that goes on to its referendum is filed anew.
LEMMA IndexAdvance ==
    ASSUME TypeOK, IndexInv, NEW p \in ProposalId, Exists(p), AdvanceToReferendum(p),
           \A q \in ProposalId \ {p} : ExpiryItem(q) => ExpiryItem(q)',
           UNCHANGED PendingExpiryBucket,
           AutoFinalizeDeadLetters \ {p} \subseteq AutoFinalizeDeadLetters'
    PROVE  IndexInv'
  <1>1. p \in DOMAIN Proposals /\ Proposals[p] \in ProposalRecord
    BY LookupInMap DEF TypeOK, Exists
  <1>2. /\ Proposals'[p].end = now + VotingDuration
        /\ \A q \in ProposalId \ {p} :
              /\ Exists(q)' <=> Exists(q)
              /\ Exists(q) => Proposals'[q] = Proposals[q]
    BY <1>1 DEF AdvanceToReferendum, Exists, ProposalRecord
  <1>3. /\ ProposalsByExpiry' = (ProposalsByExpiry \ {<<Proposals[p].end + 1, p>>})
                                  \cup {<<now + VotingDuration + 1, p>>}
        /\ now' = now
    BY DEF AdvanceToReferendum, WithoutOldExpiry
  <1>4. ASSUME NEW q \in ProposalId \ {p}, NEW b, <<b, q>> \in ProposalsByExpiry
        PROVE  <<b, q>> \in ProposalsByExpiry'
    BY <1>3, <1>4
  <1> QED BY <1>2, <1>3, <1>4, IndexFiled

\* Dropping an item keeps the others.
LEMMA OtherExpiryItems ==
    ASSUME TypeOK, NEW p,
           DropItem(p) \/ hook' = hook \/ hook.phase \notin {"expiry_cursor", "expiry_now"}
    PROVE  \A q : q # p => (ExpiryItem(q) => ExpiryItem(q)')
  <1>1. hook \in HookState
    BY DEF TypeOK, HookState
  <1>2. CASE DropItem(p)
    <2>1. hook'.phase = hook.phase /\ hook'.todo = hook.todo \ {p}
      BY <1>1, <1>2 DEF DropItem, HookState
    <2> QED BY <2>1 DEF ExpiryItem, Item
  <1>3. CASE hook' = hook \/ hook.phase \notin {"expiry_cursor", "expiry_now"}
    BY <1>3 DEF ExpiryItem, Item
  <1> QED BY <1>2, <1>3

\* A decision keeps the rest of the index.
LEMMA IndexDecision ==
    ASSUME TypeOK, IndexInv, NEW p \in ProposalId, NEW st \in {"PASSED", "REJECTED"},
           SetStatusAndEmit(p, st), DropItem(p) \/ hook' = hook,
           UNCHANGED <<ProposalsByExpiry, PendingExpiryBucket>>
    PROVE  IndexInv'
  <1>1. /\ SetProposalStatus(p, st) /\ now' = now
        /\ AutoFinalizeDeadLetters' = AutoFinalizeDeadLetters \ {p}
    BY DEF SetStatusAndEmit, ForgetAutoFinalize
  <1>2. \A q \in ProposalId \ {p} : ExpiryItem(q) => ExpiryItem(q)'
    BY OtherExpiryItems
  <1>3. st \in Status /\ st # "VOTING"
    BY StatusNames
  <1> QED BY <1>1, <1>2, <1>3, IndexStatus

\* The extrinsics.
LEMMA IndexExtrinsic ==
    ASSUME TypeOK, IndexInv, Extrinsic
    PROVE  IndexInv'
  <1>1. PICK p \in ProposalId :
            \/ \E s \in Subject, kind \in Kinds, mutexKind \in MutexKind :
                  CreateProposal(p, s, kind, mutexKind)
            \/ \E st \in {"PASSED", "REJECTED"} : DecideByVote(p, st)
            \/ AdvanceByVote(p)
            \/ FinalizeProposal(p)
            \/ \E outcome \in Outcomes : RetryPassedProposal(p, outcome)
            \/ CancelPassedProposal(p)
    BY DEF Extrinsic
  <1>2. hook' = hook
    BY <1>1 DEF CreateProposal, DecideByVote, AdvanceByVote, FinalizeProposal,
                RetryPassedProposal, CancelPassedProposal, hookVars
  <1>3. /\ \A q \in ProposalId : ExpiryItem(q) => ExpiryItem(q)'
    BY <1>2 DEF ExpiryItem, Item
  <1>4. ASSUME NEW s \in Subject, NEW kind \in Kinds, NEW mutexKind \in MutexKind,
               CreateProposal(p, s, kind, mutexKind)
        PROVE  IndexInv'
    <2> DEFINE new == [kind |-> kind, stage |-> kind, subject |-> s, status |-> "VOTING",
                       end |-> now + VotingDuration]
    <2>1. /\ Proposals' = Insert(Proposals, p, new)
          /\ ProposalsByExpiry' = ProposalsByExpiry \cup {<<now + VotingDuration + 1, p>>}
          /\ UNCHANGED <<now, PendingExpiryBucket, AutoFinalizeDeadLetters>>
      BY <1>4 DEF CreateProposal
    <2>2. /\ Proposals'[p] = new
          /\ \A q \in ProposalId \ {p} : /\ Exists(q)' <=> Exists(q)
                                         /\ Exists(q) => Proposals'[q] = Proposals[q]
      BY <2>1 DEF Exists, Insert
    <2>3. Proposals'[p].end = now + VotingDuration
      BY <2>2
    <2> HIDE DEF new
    <2>4. \A q, b : <<b, q>> \in ProposalsByExpiry => <<b, q>> \in ProposalsByExpiry'
      BY <2>1
    <2> QED BY <1>3, <2>1, <2>2, <2>3, <2>4, IndexFiled
  <1>5. ASSUME NEW st \in {"PASSED", "REJECTED"}, DecideByVote(p, st) PROVE IndexInv'
    BY <1>2, <1>5, IndexDecision DEF DecideByVote
  <1>6. CASE AdvanceByVote(p)
    BY <1>3, <1>6, IndexAdvance DEF AdvanceByVote, IsOpen, HasStatus
  <1>7. CASE FinalizeProposal(p)
    <2>1. CASE TimeoutDecides(p)
      BY <1>2, <1>7, <2>1, IndexDecision DEF TimeoutDecides, FinalizeProposal
    <2>2. CASE TimeoutAdvances(p) /\ UNCHANGED <<AutoFinalizeRetryStates,
                                                 AutoFinalizeDeadLetters>>
      BY <1>3, <1>7, <2>2, IndexAdvance
      DEF TimeoutAdvances, FinalizeProposal, IsOverdue, HasStatus
    <2> QED BY <1>7, <2>1, <2>2 DEF FinalizeProposal
  <1>8. ASSUME NEW outcome \in Outcomes, RetryPassedProposal(p, outcome) PROVE IndexInv'
    <2>1. UNCHANGED <<now, ProposalsByExpiry, PendingExpiryBucket, AutoFinalizeDeadLetters>>
      BY <1>8 DEF RetryPassedProposal, expiryVars
    <2>2. CASE SetProposalStatus(p, "EXECUTED") \/ SetProposalStatus(p, "EXECUTION_FAILED")
      BY <1>3, <2>1, <2>2, IndexStatus, StatusNames
    <2>3. CASE UNCHANGED Proposals
      BY <1>3, <2>1, <2>3, IndexSame DEF indexVars
    <2> QED BY <1>8, <2>2, <2>3 DEF RetryPassedProposal, FailAndFinish
  <1>9. CASE CancelPassedProposal(p)
    <2>1. /\ UNCHANGED <<now, ProposalsByExpiry, PendingExpiryBucket,
                         AutoFinalizeDeadLetters>>
          /\ SetProposalStatus(p, "EXECUTION_FAILED")
      BY <1>9 DEF CancelPassedProposal, FailAndFinish, expiryVars
    <2> QED BY <1>3, <2>1, IndexStatus, StatusNames
  <1> QED BY <1>1, <1>4, <1>5, <1>6, <1>7, <1>8, <1>9

\* Draining a bucket that is not ahead of the block turns its entries into items
\* or leaves them there; open votes are filed further ahead.
LEMMA DrainKeepsIndexed ==
    ASSUME TypeOK, UndecidedIsIndexed, NEW b \in Nat, NEW T,
           DrainBucket(b, T), UNCHANGED <<Proposals, AutoFinalizeDeadLetters>>,
           now' \in {now, now + 1}, b <= now',
           \A q : ~ExpiryItem(q), \A q \in T : ExpiryItem(q)'
    PROVE  UndecidedIsIndexed'
  <1>0. now \in Nat /\ now' \in Nat
    BY DEF TypeOK
  <1>1. ASSUME NEW q \in ProposalId PROVE Indexed(q)'
    <2>1. Indexed(q)
      BY DEF UndecidedIsIndexed, Indexed
    <2>2. HasStatus(q, "VOTING")' => /\ HasStatus(q, "VOTING")
                                     /\ Proposals[q].end \in Nat
      <3>1. CASE HasStatus(q, "VOTING")
        <4>1. Proposals[q] \in ProposalRecord
          BY <3>1, LookupInMap DEF HasStatus, Exists, TypeOK
        <4> QED BY <3>1, <4>1 DEF ProposalRecord
      <3>2. CASE ~HasStatus(q, "VOTING")
        BY <3>2 DEF HasStatus, Exists
      <3> QED BY <3>1, <3>2
    <2>3. ASSUME IsOpen(q)'
          PROVE  <<Proposals'[q].end + 1, q>> \in ProposalsByExpiry'
      <3>1. /\ HasStatus(q, "VOTING") /\ Proposals[q].end \in Nat
            /\ now' <= Proposals[q].end
        BY <2>2, <2>3 DEF IsOpen
      <3>2. IsOpen(q) /\ Proposals[q].end + 1 # b
        BY <1>0, <3>1 DEF IsOpen
      <3>3. <<Proposals[q].end + 1, q>> \in ProposalsByExpiry
        BY <2>1, <3>2 DEF Indexed
      <3> QED BY <3>2, <3>3 DEF DrainBucket
    <2>4. ASSUME IsOverdue(q)'
          PROVE  \/ \E e \in ProposalsByExpiry' : e[2] = q
                 \/ ExpiryItem(q)'
                 \/ q \in AutoFinalizeDeadLetters'
      <3>1. HasStatus(q, "VOTING") /\ Proposals[q].end \in Nat
        BY <2>2, <2>4 DEF IsOverdue
      <3>2. IsOpen(q) \/ IsOverdue(q)
        BY <1>0, <3>1 DEF IsOpen, IsOverdue
      <3>3. (\E e \in ProposalsByExpiry : e[2] = q) \/ q \in AutoFinalizeDeadLetters
        <4>1. CASE IsOpen(q)
          <5>1. <<Proposals[q].end + 1, q>>[2] = q
            OBVIOUS
          <5> QED BY <2>1, <4>1, <5>1 DEF Indexed
        <4>2. CASE IsOverdue(q)
          BY <2>1, <4>2 DEF Indexed
        <4> QED BY <3>2, <4>1, <4>2
      <3>4. ASSUME NEW e \in ProposalsByExpiry, e[2] = q
            PROVE  (\E d \in ProposalsByExpiry' : d[2] = q) \/ ExpiryItem(q)'
        <4>1. e = <<e[1], q>>
          BY <3>4 DEF TypeOK, ExpiryTypeOK
        <4>2. CASE e \in ProposalsByExpiry'
          BY <3>4, <4>2
        <4>3. CASE e \notin ProposalsByExpiry'
          BY <3>4, <4>1, <4>3 DEF DrainBucket
        <4> QED BY <4>2, <4>3
      <3> QED BY <3>3, <3>4
    <2> QED BY <2>3, <2>4 DEF Indexed
  <1> QED BY <1>1 DEF UndecidedIsIndexed, Indexed

\* A new block visits the bucket left half done.
LEMMA IndexNewBlock ==
    ASSUME TypeOK, IndexInv, NewBlock
    PROVE  IndexInv'
  <1>1. PICK T \in Drains(PendingExpiryBucket, MaxAutoFinalizePerBlock, WeightAllowance) :
          /\ DrainBucket(PendingExpiryBucket, T)
          /\ PendingExpiryBucket' \in {PendingExpiryBucket, NoBucket}
          /\ hook'.phase = "expiry_cursor" /\ hook'.todo = T
    BY DEF NewBlock
  <1>2. /\ now' = now + 1 /\ now \in Nat /\ PendingExpiryBucket \in Nat
        /\ PendingExpiryBucket <= now'
        /\ UNCHANGED <<Proposals, AutoFinalizeDeadLetters>>
    BY DEF NewBlock, TypeOK, ExpiryTypeOK, IndexInv
  <1>3. (\A q : ~ExpiryItem(q)) /\ \A q \in T : ExpiryItem(q)'
    BY <1>1 DEF NewBlock, InBody, ExpiryItem, Item
  <1>4. UndecidedIsIndexed'
    BY <1>1, <1>2, <1>3, DrainKeepsIndexed DEF IndexInv
  <1> QED BY <1>1, <1>2, <1>4 DEF IndexInv, NoBucket

\* ... and then the bucket of this block.
LEMMA IndexEnterExpiryNow ==
    ASSUME TypeOK, IndexInv, EnterExpiryNow
    PROVE  IndexInv'
  <1>1. /\ now' = now /\ now \in Nat
        /\ UNCHANGED <<Proposals, AutoFinalizeDeadLetters>>
        /\ \A q : ~ExpiryItem(q)
    BY DEF EnterExpiryNow, PhaseDone, storeVars, TypeOK, ExpiryItem, Item
  <1>2. CASE hook.budget > 0 /\ ~hook.blocked
    <2>1. PICK w \in LeftoverAllowances : \E T \in Drains(now, hook.budget, w) :
            /\ DrainBucket(now, T)
            /\ PendingExpiryBucket' = IF HasRemaining(now, T) THEN now ELSE PendingExpiryBucket
            /\ Enter("expiry_now", T, 0)
      BY <1>2 DEF EnterExpiryNow
    <2>2. PICK T \in Drains(now, hook.budget, w) :
            /\ DrainBucket(now, T)
            /\ PendingExpiryBucket' = IF HasRemaining(now, T) THEN now ELSE PendingExpiryBucket
            /\ Enter("expiry_now", T, 0)
      BY <2>1
    <2>3. \A q \in T : ExpiryItem(q)'
      BY <2>2 DEF Enter, ExpiryItem, Item
    <2>4. UndecidedIsIndexed'
      BY <1>1, <2>2, <2>3, DrainKeepsIndexed DEF IndexInv
    <2> QED BY <1>1, <2>2, <2>4 DEF IndexInv
  <1>3. CASE ~(hook.budget > 0 /\ ~hook.blocked)
    <2>1. UNCHANGED indexVars
      BY <1>1, <1>3 DEF EnterExpiryNow, indexVars
    <2> QED BY <1>1, <2>1, IndexSame
  <1> QED BY <1>2, <1>3

\* An entry of a bucket is skipped, settles its proposal, or is tried again later.
LEMMA IndexExpiryItems ==
    ASSUME TypeOK, IndexInv, NEW p \in ProposalId,
           SkipExpired(p) \/ AutoFinalize(p) \/ AutoFinalizeFails(p)
    PROVE  IndexInv'
  <1>1. DropItem(p)
    BY DEF SkipExpired, AutoFinalize, AutoFinalizeFails
  <1>2. \A q \in ProposalId \ {p} : ExpiryItem(q) => ExpiryItem(q)'
    BY <1>1, OtherExpiryItems
  <1>3. CASE SkipExpired(p)
    <2>1. /\ UNCHANGED <<now, Proposals, ProposalsByExpiry, PendingExpiryBucket>>
          /\ AutoFinalizeDeadLetters' = AutoFinalizeDeadLetters \ {p}
          /\ ~IsOverdue(p)
      BY <1>3 DEF SkipExpired, ForgetAutoFinalize, storeVars
    <2>2. Indexed(p)
      BY DEF IndexInv, UndecidedIsIndexed, Indexed
    <2>3. Indexed(p)'
      BY <2>1, <2>2 DEF Indexed, IsOpen, IsOverdue, HasStatus, Exists
    <2>4. ASSUME NEW q \in ProposalId \ {p} PROVE IndexKept(q)
      BY <1>2, <2>1 DEF IndexKept, HasStatus, Exists
    <2> QED BY <2>1, <2>3, <2>4, IndexInvStep
  <1>4. CASE AutoFinalizeFails(p)
    <2>1. /\ UNCHANGED <<now, Proposals, PendingExpiryBucket>>
          /\ DeferAutoFinalize(p) /\ IsOverdue(p)
      BY <1>4 DEF AutoFinalizeFails, storeVars
    <2>2. /\ ProposalsByExpiry \subseteq ProposalsByExpiry'
          /\ AutoFinalizeDeadLetters \subseteq AutoFinalizeDeadLetters'
          /\ (\E b : <<b, p>> \in ProposalsByExpiry') \/ p \in AutoFinalizeDeadLetters'
      BY <2>1 DEF DeferAutoFinalize
    <2>3. (\E e \in ProposalsByExpiry' : e[2] = p) \/ p \in AutoFinalizeDeadLetters'
      <3>1. \A b : <<b, p>>[2] = p
        OBVIOUS
      <3> QED BY <2>2, <3>1
    <2>4. ~IsOpen(p)'
      <3>1. Proposals[p] \in ProposalRecord
        BY <2>1, LookupInMap DEF IsOverdue, HasStatus, Exists, TypeOK
      <3>2. Proposals[p].end \in Nat /\ now \in Nat /\ now > Proposals[p].end
        BY <2>1, <3>1 DEF ProposalRecord, TypeOK, IsOverdue
      <3> QED BY <2>1, <3>2 DEF IsOpen
    <2>5. Indexed(p)'
      BY <2>3, <2>4 DEF Indexed
    <2>6. ASSUME NEW q \in ProposalId \ {p} PROVE IndexKept(q)
      BY <1>2, <2>1, <2>2 DEF IndexKept, HasStatus, Exists
    <2> QED BY <2>1, <2>5, <2>6, IndexInvStep
  <1>5. CASE AutoFinalize(p)
    <2>1. CASE TimeoutDecides(p)
      BY <1>1, <1>5, <2>1, IndexDecision DEF TimeoutDecides, AutoFinalize
    <2>2. CASE TimeoutAdvances(p) /\ ForgetAutoFinalize(p)
      BY <1>2, <1>5, <2>2, IndexAdvance
      DEF TimeoutAdvances, AutoFinalize, ForgetAutoFinalize, IsOverdue, HasStatus
    <2> QED BY <1>5, <2>1, <2>2 DEF AutoFinalize
  <1> QED BY <1>3, <1>4, <1>5

\* The later phases of the hook.
LEMMA IndexLaterPhases ==
    ASSUME TypeOK, IndexInv,
           \/ EnterExecute \/ EnterFinalize \/ EnterRetryPending \/ EnterDeadlines
           \/ EnterNotify \/ EnterActivate \/ EnterCleanup \/ EndHook \/ ActivateCleanup
           \/ AtBound
    PROVE  IndexInv'
  <1>1. UNCHANGED indexVars
    BY DEF EnterExecute, EnterFinalize, EnterRetryPending, EnterDeadlines, EnterNotify,
           EnterActivate, EnterCleanup, EndHook, ActivateCleanup, AtBound, vars, storeVars,
           expiryVars, indexVars
  <1>2. \A q \in ProposalId : ~ExpiryItem(q)
    BY DEF EnterExecute, EnterFinalize, EnterRetryPending, EnterDeadlines, EnterNotify,
           EnterActivate, EnterCleanup, EndHook, ActivateCleanup, AtBound, PhaseDone,
           InBody, ExpiryItem, Item
  <1> QED BY <1>1, <1>2, IndexSame

\* The items of the later phases.
LEMMA IndexLaterItems ==
    ASSUME TypeOK, IndexInv, NEW p \in ProposalId,
           \/ SkipExecution(p) \/ ExecutionFails(p)
           \/ \E outcome \in Outcomes : ExecuteProposal(p, outcome)
           \/ FinalizeTerminal(p) \/ FinalizeTerminalFails(p)
           \/ SkipDeadline(p) \/ RequeueDeadline(p) \/ ExpireRetry(p) \/ ExpireRetryFails(p)
           \/ Notify(p) \/ CleanupStep(p) \/ PurgeProposal(p)
    PROVE  IndexInv'
  <1>1. \A q \in ProposalId : ~ExpiryItem(q)
    BY DEF SkipExecution, ExecutionFails, ExecuteProposal, FinalizeTerminal,
           FinalizeTerminalFails, SkipDeadline, RequeueDeadline, ExpireRetry,
           ExpireRetryFails, WindowOver, DeadlineItem, Notify, CleanupStep, PurgeProposal,
           CleanupTurn, ExpiryItem, Item
  <1>2. /\ UNCHANGED <<now, ProposalsByExpiry, PendingExpiryBucket>>
        /\ AutoFinalizeDeadLetters \ {p} \subseteq AutoFinalizeDeadLetters'
    BY DEF SkipExecution, ExecutionFails, ExecuteProposal, FinalizeTerminal,
           FinalizeTerminalFails, SkipDeadline, RequeueDeadline, ExpireRetry,
           ExpireRetryFails, Notify, CleanupStep, PurgeProposal, ForgetAutoFinalize,
           executeFrame, deadlineFrame, storeVars, expiryVars
  <1>3. CASE \E st \in Status \ {"VOTING"} : SetProposalStatus(p, st)
    BY <1>1, <1>2, <1>3, IndexStatus
  <1>4. CASE UNCHANGED <<Proposals, AutoFinalizeDeadLetters>>
    BY <1>1, <1>2, <1>4, IndexSame DEF indexVars
  <1>5. CASE PurgeProposal(p)
    <2>1. Proposals' = Remove(Proposals, p)
      BY <1>5 DEF PurgeProposal
    <2>2. /\ ~HasStatus(p, "VOTING")'
          /\ \A q \in ProposalId \ {p} : /\ Exists(q)' <=> Exists(q)
                                         /\ Exists(q) => Proposals'[q] = Proposals[q]
      BY <2>1 DEF HasStatus, Exists, Remove
    <2> QED BY <1>1, <1>2, <2>2, IndexDecided
  <1>6. {"EXECUTED", "EXECUTION_FAILED"} \subseteq Status \ {"VOTING"}
    BY StatusNames
  <1>7. CASE ExecutionFails(p) \/ ExpireRetry(p)
    BY <1>3, <1>4, <1>6, <1>7
    DEF ExecutionFails, ExpireRetry, FailAndFinish, executeFrame, expiryVars
  <1>8. ASSUME NEW outcome, ExecuteProposal(p, outcome) PROVE IndexInv'
    BY <1>3, <1>4, <1>6, <1>8 DEF ExecuteProposal, FailAndFinish, executeFrame, expiryVars
  <1>9. CASE \/ SkipExecution(p) \/ FinalizeTerminal(p) \/ FinalizeTerminalFails(p)
             \/ SkipDeadline(p) \/ RequeueDeadline(p) \/ ExpireRetryFails(p)
             \/ Notify(p) \/ CleanupStep(p)
    BY <1>4, <1>9
    DEF SkipExecution, FinalizeTerminal, FinalizeTerminalFails, SkipDeadline,
        RequeueDeadline, ExpireRetryFails, Notify, CleanupStep, executeFrame,
        deadlineFrame, storeVars, expiryVars
  <1> QED BY <1>5, <1>7, <1>8, <1>9

\* Every step keeps the undecided proposals filed.
LEMMA IndexStep == TypeInv /\ IndexInv /\ [Next]_vars => IndexInv'
  <1> SUFFICES ASSUME TypeInv, IndexInv, [Next]_vars PROVE IndexInv'
    OBVIOUS
  <1>0. TypeOK
    BY DEF TypeInv
  <1>1. CASE Extrinsic
    BY <1>0, <1>1, IndexExtrinsic
  <1>2. CASE NewBlock
    BY <1>0, <1>2, IndexNewBlock
  <1>3. CASE EnterExpiryNow
    BY <1>0, <1>3, IndexEnterExpiryNow
  <1>4. CASE \/ EnterExecute \/ EnterFinalize \/ EnterRetryPending \/ EnterDeadlines
             \/ EnterNotify \/ EnterActivate \/ EnterCleanup \/ EndHook \/ ActivateCleanup
             \/ AtBound
    BY <1>0, <1>4, IndexLaterPhases
  <1>5. ASSUME NEW p \in ProposalId,
               SkipExpired(p) \/ AutoFinalize(p) \/ AutoFinalizeFails(p)
        PROVE  IndexInv'
    BY <1>0, <1>5, IndexExpiryItems
  <1>6. ASSUME NEW p \in ProposalId,
               \/ SkipExecution(p) \/ ExecutionFails(p)
               \/ \E outcome \in Outcomes : ExecuteProposal(p, outcome)
               \/ FinalizeTerminal(p) \/ FinalizeTerminalFails(p)
               \/ SkipDeadline(p) \/ RequeueDeadline(p) \/ ExpireRetry(p)
               \/ ExpireRetryFails(p)
               \/ Notify(p) \/ CleanupStep(p) \/ PurgeProposal(p)
        PROVE  IndexInv'
    BY <1>0, <1>6, IndexLaterItems
  <1>7. CASE UNCHANGED vars
    <2>1. UNCHANGED indexVars /\ \A q \in ProposalId : ExpiryItem(q) => ExpiryItem(q)'
      BY <1>7 DEF vars, storeVars, hookVars, expiryVars, indexVars, ExpiryItem, Item
    <2> QED BY <1>0, <2>1, IndexSame
  <1>8. CASE HookStep
    BY <1>3, <1>4, <1>5, <1>6, <1>8 DEF HookStep
  <1> QED BY <1>1, <1>2, <1>4, <1>7, <1>8 DEF Next

-------------------------------------------------------------------------------
(* The active lists.                                                         *)

\* No subject has more undecided proposals than the limit.
LimitInv == \A s \in Subject : Cardinality(ActiveProposalsBySubject[s]) <= MaxActiveProposals

\* What a step may do to the list of one subject: drop members, or add one
\* while there is room.
ListStep(s) ==
    \/ ActiveProposalsBySubject'[s] \subseteq ActiveProposalsBySubject[s]
    \/ /\ Cardinality(ActiveProposalsBySubject[s]) < MaxActiveProposals
       /\ \E p \in ProposalId : ActiveProposalsBySubject'[s] = ActiveProposalsBySubject[s] \cup {p}

\* Every step of the engine is such a step for every subject.
LEMMA StepsAreListSteps ==
    ASSUME TypeOK, Next, NEW s \in Subject
    PROVE  ListStep(s)
  <1>0. ActiveProposalsBySubject \in [Subject -> SUBSET ProposalId]
    BY DEF TypeOK, MutexTypeOK
  <1>1. CASE UNCHANGED ActiveProposalsBySubject
    BY <1>1 DEF ListStep
  <1>2. ASSUME NEW p, NEW t, RemoveActiveProposal(t, p) PROVE ListStep(s)
    BY <1>0, <1>2 DEF RemoveActiveProposal, ListStep
  <1>3. ASSUME NEW p \in ProposalId, NEW t \in Subject, TryAddActiveProposal(t, p)
        PROVE  ListStep(s)
    BY <1>0, <1>3 DEF TryAddActiveProposal, ListStep
  <1>4. ASSUME NEW p \in ProposalId, TimeoutDecides(p) \/ TimeoutAdvances(p) PROVE ListStep(s)
    BY <1>1, <1>2, <1>4 DEF TimeoutDecides, TimeoutAdvances, SetStatusAndEmit,
                            AdvanceToReferendum, mutexVars
  <1>5. CASE Extrinsic
    BY <1>1, <1>2, <1>3, <1>4, <1>5
    DEF Extrinsic, CreateProposal, DecideByVote, SetStatusAndEmit, AdvanceByVote,
        AdvanceToReferendum, FinalizeProposal, RetryPassedProposal, CancelPassedProposal,
        mutexVars
  <1>6. CASE NewBlock \/ AtBound
    BY <1>1, <1>6 DEF NewBlock, AtBound, vars, mutexVars
  <1>7. ASSUME NEW p \in ProposalId, AutoFinalize(p) PROVE ListStep(s)
    BY <1>4, <1>7 DEF AutoFinalize
  <1>8. CASE ActivateCleanup
    BY <1>2, <1>8 DEF ActivateCleanup
  <1>9. CASE HookStep
    <2>1. CASE \/ EnterExpiryNow \/ EnterExecute \/ EnterFinalize \/ EnterRetryPending
               \/ EnterDeadlines \/ EnterNotify \/ EnterActivate \/ EnterCleanup \/ EndHook
      BY <1>1, <2>1
      DEF EnterExpiryNow, EnterExecute, EnterFinalize, EnterRetryPending, EnterDeadlines,
          EnterNotify, EnterActivate, EnterCleanup, EndHook, mutexVars
    <2>2. ASSUME NEW p \in ProposalId,
                 \/ SkipExpired(p) \/ AutoFinalizeFails(p) \/ SkipExecution(p)
                 \/ ExecutionFails(p) \/ \E outcome \in Outcomes : ExecuteProposal(p, outcome)
                 \/ FinalizeTerminal(p) \/ FinalizeTerminalFails(p) \/ SkipDeadline(p)
                 \/ RequeueDeadline(p) \/ ExpireRetry(p) \/ ExpireRetryFails(p)
                 \/ Notify(p) \/ CleanupStep(p) \/ PurgeProposal(p)
          PROVE  ListStep(s)
      BY <1>1, <2>2
      DEF SkipExpired, AutoFinalizeFails, SkipExecution, ExecutionFails, ExecuteProposal,
          FinalizeTerminal, FinalizeTerminalFails, SkipDeadline, RequeueDeadline,
          ExpireRetry, ExpireRetryFails, Notify, CleanupStep, PurgeProposal,
          executeFrame, deadlineFrame, mutexVars
    <2> QED BY <1>7, <1>8, <1>9, <2>1, <2>2 DEF HookStep
  <1> QED BY <1>5, <1>6, <1>9 DEF Next

\* Every step keeps the limit.
LEMMA LimitStep == TypeInv /\ LimitInv /\ [Next]_vars => LimitInv'
  <1> SUFFICES ASSUME TypeInv, LimitInv, [Next]_vars, NEW s \in Subject
               PROVE  Cardinality(ActiveProposalsBySubject'[s]) <= MaxActiveProposals
    BY DEF LimitInv
  <1> DEFINE A == ActiveProposalsBySubject[s]
             B == ActiveProposalsBySubject'[s]
  <1>1. TypeOK /\ A \in SUBSET ProposalId
    BY DEF TypeInv, TypeOK, MutexTypeOK
  <1>2. /\ IsFiniteSet(A) /\ Cardinality(A) \in Nat
        /\ Cardinality(A) <= MaxActiveProposals /\ MaxActiveProposals \in Nat
    BY <1>1, FiniteIds, MutexAssumption DEF LimitInv
  <1>3. ListStep(s)
    <2>1. CASE Next
      BY <1>1, <2>1, StepsAreListSteps
    <2>2. CASE UNCHANGED vars
      BY <2>2 DEF ListStep, vars, mutexVars
    <2> QED BY <2>1, <2>2
  <1>4. CASE B \subseteq A
    <2>1. Cardinality(B) \in Nat /\ Cardinality(B) <= Cardinality(A)
      BY <1>2, <1>4, FS_Subset, FS_CardinalityType
    <2> QED BY <1>2, <2>1
  <1>5. ASSUME NEW p \in ProposalId, B = A \cup {p}, Cardinality(A) < MaxActiveProposals
        PROVE  Cardinality(B) <= MaxActiveProposals
    <2>1. Cardinality(A \cup {p}) = IF p \in A THEN Cardinality(A) ELSE Cardinality(A) + 1
      BY <1>2, FS_AddElement
    <2> QED BY <1>2, <1>5, <2>1
  <1> QED BY <1>3, <1>4, <1>5 DEF ListStep

\* limit.rs and lifecycle.rs: the active list of a subject is the set of its
\* undecided proposals and never exceeds the limit, and every undecided proposal
\* is filed where a hook finds it, is being handled, or is a dead letter.
THEOREM IndexesAgree == Spec => []IndexesMatchStatus
  <1>1. Init => LimitInv
    <2> SUFFICES ASSUME Init, NEW s \in Subject
                 PROVE  Cardinality(ActiveProposalsBySubject[s]) <= MaxActiveProposals
      BY DEF LimitInv
    <2>1. ActiveProposalsBySubject[s] = {}
      BY DEF Init, MutexInit
    <2> QED BY <2>1, FS_EmptySet, MutexAssumption
  <1>2. Init => IndexInv
    <2> SUFFICES ASSUME Init PROVE IndexInv
      OBVIOUS
    <2>1. \A q : ~Exists(q)
      BY DEF Init, EmptyMap, Exists
    <2>2. PendingExpiryBucket <= now
      BY DEF Init, ExpiryInit, NoBucket
    <2> QED BY <2>1, <2>2 DEF IndexInv, UndecidedIsIndexed, IsOpen, IsOverdue, HasStatus
  <1>3. TypeInv /\ LocalInv /\ LimitInv => ActiveListsUndecided
    <2> SUFFICES ASSUME TypeInv, LocalInv, LimitInv, NEW s \in Subject
                 PROVE  /\ ActiveProposalsBySubject[s] =
                             {p \in ProposalId : HasStatus(p, "VOTING")
                                                 /\ Proposals[p].subject = s}
                        /\ Cardinality(ActiveProposalsBySubject[s]) <= MaxActiveProposals
      BY DEF ActiveListsUndecided
    <2>1. ActiveProposalsBySubject[s] \subseteq ProposalId
      BY DEF TypeInv, TypeOK, MutexTypeOK
    <2> QED BY <2>1 DEF LocalInv, Local, LimitInv
  <1>4. IndexInv => UndecidedIsIndexed
    BY DEF IndexInv
  <1>5. TypeInv /\ LocalInv /\ LimitInv /\ IndexInv => IndexesMatchStatus
    BY <1>3, <1>4 DEF IndexesMatchStatus
  <1> QED BY <1>1, <1>2, <1>5, IndexStep, LimitStep, RecordsFitStatus, TypesCorrect, PTL DEF Spec
===============================================================================
