---------------------------- MODULE PersonalAccount ----------------------------
(***************************************************************************)
(* A personal multisig account from registration to closing: the accounts   *)
(* (entity/personal-manage), their administrators (admins/personal-admins), *)
(* the votes on them (votingengine/internal-vote) and the transfers they    *)
(* approve (transaction/multisig).  The voting engine appears as what it    *)
(* promises (ProposalLifecycle): a passed proposal is executed or failed at *)
(* some later time, once.                                                   *)
(***************************************************************************)
EXTENDS ProposalMutex

CONSTANTS
    Admin,       \* people who may administer an account
    Creator,     \* whose accounts are modelled; creator and name fix the address
    MaxBlock     \* bound on the block number

ASSUME PersonalAssumption ==
    /\ IsFiniteSet(Admin)
    /\ Creator \in Admin
    /\ MaxBlock \in Nat

VARIABLES
    PersonalAccounts,        \* personal-manage: account -> Pending or Active
    AdminAccounts,           \* personal-admins: account -> status and admins
    ActivePersonalThresholds,           \* internal-vote: account -> threshold
    PendingPersonalThresholds,          \* creation -> threshold once active
    PendingPersonalAdminChangeThresholds, \* admin change -> new threshold
    PendingCloseProposal,    \* account -> the closing proposal under way
    PendingPersonalCreate,   \* creations whose deposit is reserved
    reserved,                \* deposits reserved in the creator's balance
    ballot                   \* proposal -> role, snapshots, tickets and tally

accountVars ==
    <<PersonalAccounts, AdminAccounts, ActivePersonalThresholds,
      PendingPersonalThresholds, PendingPersonalAdminChangeThresholds,
      PendingCloseProposal, PendingPersonalCreate, reserved>>
vars == <<now, NextProposalId, Proposals, mutexVars, accountVars, ballot>>

Role == {"General", "PersonalCreate", "PersonalClose", "PersonalAdminChange"}

\* InternalProposalRoles, InternalThresholdSnapshot, AdminSnapshot, InternalVotesByTicket,
\* InternalTallies and, for an admin change, the new set in ProposalData.
Ballot == [role : Role, threshold : Nat, snapshot : SUBSET Admin,
           yes : SUBSET Admin, no : SUBSET Admin,
           tally : [yes : Nat, no : Nat], admins : SUBSET Admin]

AccountStatus == {"Pending", "Active"}

TypeOK ==
    /\ now \in Nat
    /\ NextProposalId \in Nat
    /\ IsMap(Proposals, ProposalId, ProposalRecord)
    /\ MutexTypeOK
    /\ IsMap(PersonalAccounts, Subject, AccountStatus)
    /\ IsMap(AdminAccounts, Subject, [status : AccountStatus, admins : SUBSET Admin])
    /\ IsMap(ActivePersonalThresholds, Subject, Nat)
    /\ IsMap(PendingPersonalThresholds, ProposalId, Nat)
    /\ IsMap(PendingPersonalAdminChangeThresholds, ProposalId, Nat)
    /\ IsMap(PendingCloseProposal, Subject, ProposalId)
    /\ PendingPersonalCreate \subseteq ProposalId
    /\ reserved \in Nat
    /\ IsMap(ballot, ProposalId, Ballot)

Init ==
    /\ now = 0
    /\ NextProposalId = 0
    /\ Proposals = EmptyMap
    /\ MutexInit
    /\ PersonalAccounts = EmptyMap
    /\ AdminAccounts = EmptyMap
    /\ ActivePersonalThresholds = EmptyMap
    /\ PendingPersonalThresholds = EmptyMap
    /\ PendingPersonalAdminChangeThresholds = EmptyMap
    /\ PendingCloseProposal = EmptyMap
    /\ PendingPersonalCreate = {}
    /\ reserved = 0
    /\ ballot = EmptyMap

-------------------------------------------------------------------------------
(* Guards.                                                                   *)

\* ensure_dynamic_threshold: a strict majority of at least two voters.
DynamicThreshold(count, threshold) ==
    /\ count >= 2
    /\ threshold > 0 /\ threshold <= count /\ threshold * 2 > count

\* The configurations ensure_admin_config and validate_admin_set_for_change
\* accept, as <<admins, threshold>>.
AdminConfigs ==
    {c \in (SUBSET Admin) \X (1 .. Cardinality(Admin)) :
        DynamicThreshold(Cardinality(c[1]), c[2])}

IsActive(s) == s \in DOMAIN PersonalAccounts /\ PersonalAccounts[s] = "Active"

HasActiveAdmins(s) == s \in DOMAIN AdminAccounts /\ AdminAccounts[s].status = "Active"

IsPersonalAdmin(s, who) == HasActiveAdmins(s) /\ who \in AdminAccounts[s].admins

-------------------------------------------------------------------------------
(* Creating proposals.  Every creation is one storage transaction that ends  *)
(* with the proposer's own yes vote, which never decides: no threshold is 1. *)

\* allocate_and_lock, finish_proposal_create and register_data_and_auto_approve
CreateBallot(p, s, who, role, mutexKind, snapshot, threshold, admins) ==
    /\ AllocateProposalId(p)
    /\ TryAddActiveProposal(s, p)
    /\ AcquireMutex(p, s, mutexKind)
    /\ Proposals' =
         Insert(Proposals, p, [kind |-> "internal", stage |-> "internal", subject |-> s,
                               status |-> "VOTING", end |-> now + VotingDuration])
    /\ ballot' =
         Insert(ballot, p, [role |-> role, threshold |-> threshold, snapshot |-> snapshot,
                            yes |-> {who}, no |-> {}, tally |-> [yes |-> 1, no |-> 0],
                            admins |-> admins])

\* do_propose_create: registration needs the consent of all future admins.
ProposeCreate(p, s, config) ==
    LET admins == config[1]
    IN  /\ Creator \in admins
        /\ s \notin DOMAIN PersonalAccounts
        /\ s \notin DOMAIN AdminAccounts
        /\ CreateBallot(p, s, Creator, "PersonalCreate", "Regular",
                        admins, Cardinality(admins), {})
        /\ reserved' = reserved + 1
        /\ PersonalAccounts' = Insert(PersonalAccounts, s, "Pending")
        /\ AdminAccounts' = Insert(AdminAccounts, s, [status |-> "Pending", admins |-> admins])
        /\ PendingPersonalThresholds' = Insert(PendingPersonalThresholds, p, config[2])
        /\ PendingPersonalCreate' = PendingPersonalCreate \cup {p}
        /\ UNCHANGED <<now, ActivePersonalThresholds, PendingCloseProposal,
                       PendingPersonalAdminChangeThresholds>>

\* do_propose_close: closing needs the consent of all current admins.
ProposeClose(p, s, who) ==
    /\ IsActive(s)
    /\ IsPersonalAdmin(s, who)
    /\ s \notin DOMAIN PendingCloseProposal
    /\ LET admins == AdminAccounts[s].admins
       IN  CreateBallot(p, s, who, "PersonalClose", "Regular", admins,
                        Cardinality(admins), {})
    /\ PendingCloseProposal' = Insert(PendingCloseProposal, s, p)
    /\ UNCHANGED <<now, PersonalAccounts, AdminAccounts, ActivePersonalThresholds,
                   PendingPersonalThresholds, PendingPersonalAdminChangeThresholds,
                   PendingPersonalCreate, reserved>>

\* do_create_active_personal_proposal for the roles decided by the account's
\* own threshold.
CreateByThreshold(p, s, who, role, mutexKind, admins) ==
    /\ IsPersonalAdmin(s, who)
    /\ s \in DOMAIN ActivePersonalThresholds
    /\ DynamicThreshold(Cardinality(AdminAccounts[s].admins), ActivePersonalThresholds[s])
    /\ CreateBallot(p, s, who, role, mutexKind, AdminAccounts[s].admins,
                    ActivePersonalThresholds[s], admins)

\* propose_admin_set_change.  The change must differ from the current set, names
\* included (same_admin_set); names are left out here, so one that keeps the
\* people stands for one that renames an admin, whatever its threshold.
ProposeAdminSetChange(p, s, who, config) ==
    /\ CreateByThreshold(p, s, who, "PersonalAdminChange", "AdminSetMutationExclusive",
                         config[1])
    /\ PendingPersonalAdminChangeThresholds' =
         Insert(PendingPersonalAdminChangeThresholds, p, config[2])
    /\ UNCHANGED <<now, PersonalAccounts, AdminAccounts, ActivePersonalThresholds,
                   PendingPersonalThresholds, PendingCloseProposal,
                   PendingPersonalCreate, reserved>>

\* propose_transfer out of a personal account
ProposeTransfer(p, s, who) ==
    /\ IsActive(s)
    /\ CreateByThreshold(p, s, who, "General", "Regular", {})
    /\ UNCHANGED <<now, accountVars>>

-------------------------------------------------------------------------------
(* Ending proposals.                                                         *)

\* Mutant: a closing proposal that came to nothing leaves its mark.
MarksKept(p) == PendingCloseProposal

\* The closing marks once p has come to nothing.
MarksWithout(p) ==
    IF ballot[p].role = "PersonalClose"
    THEN Remove(PendingCloseProposal, Proposals[p].subject)
    ELSE PendingCloseProposal

\* A proposal is rejected or has failed: the owner's callback takes back what
\* the proposal had put aside, the Track its pending thresholds.
Abandon(p) ==
    LET s == Proposals[p].subject
        role == ballot[p].role
    IN  /\ ReleaseMutexes(p)
        /\ IF role = "PersonalCreate" /\ p \in PendingPersonalCreate
           THEN /\ AdminAccounts[s].status = "Pending"
                /\ AdminAccounts' = Remove(AdminAccounts, s)
                /\ PersonalAccounts' = Remove(PersonalAccounts, s)
                /\ PendingPersonalCreate' = PendingPersonalCreate \ {p}
                /\ reserved' = reserved - 1
           ELSE UNCHANGED <<AdminAccounts, PersonalAccounts, PendingPersonalCreate, reserved>>
        /\ PendingCloseProposal' = MarksWithout(p)
        /\ PendingPersonalThresholds' = Remove(PendingPersonalThresholds, p)
        /\ PendingPersonalAdminChangeThresholds' =
             Remove(PendingPersonalAdminChangeThresholds, p)
        /\ UNCHANGED ActivePersonalThresholds

Reject(p) ==
    /\ SetProposalStatus(p, "REJECTED")
    /\ RemoveActiveProposal(Proposals[p].subject, p)
    /\ Abandon(p)

\* Mutant: the lock is given back as soon as the proposal is decided.
PassAndUnlock(p) ==
    /\ SetProposalStatus(p, "PASSED")
    /\ RemoveActiveProposal(Proposals[p].subject, p)
    /\ ReleaseMutexes(p)
    /\ UNCHANGED accountVars

\* Passing keeps the lock until the execution.
Pass(p) ==
    /\ SetProposalStatus(p, "PASSED")
    /\ RemoveActiveProposal(Proposals[p].subject, p)
    /\ UNCHANGED <<InternalProposalMutexes, ProposalMutexBindings, accountVars>>

\* The ballot with one more ticket.
WithTicket(b, who, approve) ==
    IF approve THEN [b EXCEPT !.yes = @ \cup {who}, !.tally.yes = @ + 1]
               ELSE [b EXCEPT !.no = @ \cup {who}, !.tally.no = @ + 1]

\* Mutant: the vote is given up while the last voters could still carry it.
DecisionEarly(b) ==
    LET remaining == Cardinality(b.snapshot) - (b.tally.yes + b.tally.no)
    IN  IF b.tally.yes >= b.threshold THEN "PASSED"
        ELSE IF b.tally.yes + remaining <= b.threshold THEN "REJECTED"
        ELSE "VOTING"

\* What the tally decides: enough yes votes, or too few voters left for them.
Decision(b) ==
    LET remaining == Cardinality(b.snapshot) - (b.tally.yes + b.tally.no)
    IN  IF b.tally.yes >= b.threshold THEN "PASSED"
        ELSE IF b.tally.yes + remaining < b.threshold THEN "REJECTED"
        ELSE "VOTING"

\* do_internal_vote
Vote(p, who, approve) ==
    /\ IsOpen(p)
    /\ who \in ballot[p].snapshot
    /\ who \notin ballot[p].yes \cup ballot[p].no
    /\ LET after == WithTicket(ballot[p], who, approve)
       IN  /\ ballot' = [ballot EXCEPT ![p] = after]
           /\ \/ Decision(after) = "PASSED" /\ Pass(p)
              \/ Decision(after) = "REJECTED" /\ Reject(p)
              \/ /\ Decision(after) = "VOTING"
                 /\ UNCHANGED <<Proposals, mutexVars, accountVars>>
    /\ UNCHANGED <<now, NextProposalId>>

\* do_finalize_internal_timeout
FinalizeTimeout(p) ==
    /\ IsOverdue(p)
    /\ Reject(p)
    /\ UNCHANGED <<now, NextProposalId, ballot>>

-------------------------------------------------------------------------------
(* Executing passed proposals, at any time the engine gets to them.          *)

Executing(p, role) == HasStatus(p, "PASSED") /\ ballot[p].role = role

Executed(p) ==
    /\ SetProposalStatus(p, "EXECUTED")
    /\ ReleaseMutexes(p)
    /\ UNCHANGED <<now, NextProposalId, ActiveProposalsBySubject, ballot>>

\* execute_create_with_finalizer, then the Track activates the threshold.
ExecuteCreate(p) ==
    LET s == Proposals[p].subject
    IN  /\ Executing(p, "PersonalCreate")
        /\ AdminAccounts[s].status = "Pending"
        /\ Executed(p)
        /\ reserved' = reserved - 1
        /\ AdminAccounts' = [AdminAccounts EXCEPT ![s].status = "Active"]
        /\ PersonalAccounts' = [PersonalAccounts EXCEPT ![s] = "Active"]
        /\ ActivePersonalThresholds' =
             Insert(ActivePersonalThresholds, s, PendingPersonalThresholds[p])
        /\ PendingPersonalThresholds' = Remove(PendingPersonalThresholds, p)
        /\ PendingPersonalCreate' = PendingPersonalCreate \ {p}
        /\ UNCHANGED <<PendingPersonalAdminChangeThresholds, PendingCloseProposal>>

\* execute_close_with_finalizer
ExecuteClose(p) ==
    LET s == Proposals[p].subject
    IN  /\ Executing(p, "PersonalClose")
        /\ PendingCloseProposal[s] = p
        /\ HasActiveAdmins(s)
        /\ s \in DOMAIN ActivePersonalThresholds
        /\ Executed(p)
        /\ PersonalAccounts' = Remove(PersonalAccounts, s)
        /\ AdminAccounts' = Remove(AdminAccounts, s)
        /\ PendingCloseProposal' = Remove(PendingCloseProposal, s)
        /\ ActivePersonalThresholds' = Remove(ActivePersonalThresholds, s)
        /\ UNCHANGED <<PendingPersonalThresholds, PendingPersonalAdminChangeThresholds,
                       PendingPersonalCreate, reserved>>

\* The conditions of try_execute_set_change_from_action.
CanChangeAdmins(p) ==
    LET s == Proposals[p].subject
    IN  /\ InternalProposalMutexes[s].admin_set_mutation_proposal = p
        /\ HasActiveAdmins(s)

\* Mutant: the account keeps the threshold of its earlier admins.
ThresholdsUnchanged(s, p) == ActivePersonalThresholds

\* The Track's side effect of an executed admin change.
ThresholdsAfterChange(s, p) ==
    IF p \in DOMAIN PendingPersonalAdminChangeThresholds
    THEN Insert(ActivePersonalThresholds, s, PendingPersonalAdminChangeThresholds[p])
    ELSE ActivePersonalThresholds

\* try_execute_set_change_from_action, then the Track activates the threshold.
\* Its failure branch is never taken (PassedChangeApplies).
ExecuteAdminSetChange(p) ==
    LET s == Proposals[p].subject
    IN  /\ Executing(p, "PersonalAdminChange")
        /\ CanChangeAdmins(p)
        /\ Executed(p)
        /\ AdminAccounts' = [AdminAccounts EXCEPT ![s].admins = ballot[p].admins]
        /\ ActivePersonalThresholds' = ThresholdsAfterChange(s, p)
        /\ PendingPersonalAdminChangeThresholds' =
             Remove(PendingPersonalAdminChangeThresholds, p)
        /\ UNCHANGED <<PersonalAccounts, PendingPersonalThresholds, PendingCloseProposal,
                       PendingPersonalCreate, reserved>>

\* try_execute_transfer_from_callback, at once or by a later manual retry.
ExecuteTransfer(p) ==
    /\ Executing(p, "General")
    /\ IsActive(Proposals[p].subject)
    /\ Executed(p)
    /\ UNCHANGED accountVars

\* The execution fails for good: a balance does not allow it, or the retries
\* of a transfer have run out.
FailExecution(p) ==
    /\ HasStatus(p, "PASSED")
    /\ ballot[p].role # "PersonalAdminChange"
    /\ SetProposalStatus(p, "EXECUTION_FAILED")
    /\ Abandon(p)
    /\ UNCHANGED <<now, NextProposalId, ActiveProposalsBySubject, ballot>>

NewBlock ==
    /\ now < MaxBlock
    /\ now' = now + 1
    /\ UNCHANGED <<NextProposalId, Proposals, mutexVars, accountVars, ballot>>

\* The last modelled block: the bound stops the chain.
AtBound == now = MaxBlock /\ UNCHANGED vars

Next ==
    \/ NewBlock
    \/ AtBound
    \/ \E p \in ProposalId :
          \/ \E s \in Subject :
                \/ \E config \in AdminConfigs : ProposeCreate(p, s, config)
                \/ \E who \in Admin :
                      \/ ProposeClose(p, s, who)
                      \/ ProposeTransfer(p, s, who)
                      \/ \E config \in AdminConfigs : ProposeAdminSetChange(p, s, who, config)
          \/ \E who \in Admin, approve \in BOOLEAN : Vote(p, who, approve)
          \/ FinalizeTimeout(p)
          \/ ExecuteCreate(p) \/ ExecuteClose(p)
          \/ ExecuteAdminSetChange(p) \/ ExecuteTransfer(p)
          \/ FailExecution(p)

Spec == Init /\ [][Next]_vars
===============================================================================
