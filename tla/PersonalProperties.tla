--------------------------- MODULE PersonalProperties ---------------------------
(***************************************************************************)
(* What the personal multisig account promises, across the four pallets     *)
(* that keep its state.                                                     *)
(***************************************************************************)
EXTENDS PersonalAccount

\* A proposal that may still act: it is open or awaits its execution.
Live(p) == HasStatus(p, "VOTING") \/ HasStatus(p, "PASSED")

LiveOf(s, role) ==
    {p \in ProposalId : Live(p) /\ Proposals[p].subject = s /\ ballot[p].role = role}

\* The yes votes a ballot can still reach, counted from the tickets.
Reachable(b) == Cardinality(b.snapshot \ b.no)

\* do_internal_vote: the tally is the number of tickets, nobody holds two, and
\* the proposal is decided exactly when the tickets decide it: it passed with
\* its threshold of yes votes, it was turned down before the end of voting only
\* when the remaining voters could not reach it, and otherwise it is open.
VotesDecide ==
    \A p \in DOMAIN Proposals :
        LET b == ballot[p]
            yes == Cardinality(b.yes)
        IN  /\ b.yes \cap b.no = {}
            /\ b.yes \cup b.no \subseteq b.snapshot
            /\ b.tally = [yes |-> yes, no |-> Cardinality(b.no)]
            /\ HasStatus(p, "VOTING") => yes < b.threshold /\ Reachable(b) >= b.threshold
            /\ HasStatus(p, "REJECTED") /\ now <= Proposals[p].end
                   => Reachable(b) < b.threshold
            /\ Proposals[p].status \in {"PASSED", "EXECUTED", "EXECUTION_FAILED"}
                   => yes >= b.threshold

\* The pallets agree on each account: personal-manage and personal-admins on
\* its existence and status, internal-vote has a threshold for exactly the
\* active ones, and that threshold is a strict majority of the current admins.
AccountStatesAgree ==
    /\ DOMAIN PersonalAccounts = DOMAIN AdminAccounts
    /\ DOMAIN ActivePersonalThresholds = {s \in Subject : IsActive(s)}
    /\ \A s \in DOMAIN AdminAccounts : AdminAccounts[s].status = PersonalAccounts[s]
    /\ \A s \in DOMAIN ActivePersonalThresholds :
           DynamicThreshold(Cardinality(AdminAccounts[s].admins),
                            ActivePersonalThresholds[s])

\* What a proposal puts aside lives as long as the proposal: the deposit, the
\* pending account and the pending threshold of a creation, the account's
\* closing mark, and the new threshold of an admin change.
PendingRecordsLive ==
    /\ reserved = Cardinality(PendingPersonalCreate)
    /\ PendingPersonalCreate = DOMAIN PendingPersonalThresholds
    /\ PendingPersonalCreate = UNION {LiveOf(s, "PersonalCreate") : s \in Subject}
    /\ DOMAIN PendingPersonalAdminChangeThresholds
           = UNION {LiveOf(s, "PersonalAdminChange") : s \in Subject}
    /\ \A s \in Subject :
           /\ LiveOf(s, "PersonalClose")
                  = {p \in ProposalId : s \in DOMAIN PendingCloseProposal
                                        /\ PendingCloseProposal[s] = p}
           /\ (s \in DOMAIN PersonalAccounts /\ PersonalAccounts[s] = "Pending")
                  <=> LiveOf(s, "PersonalCreate") # {}
           /\ Cardinality(LiveOf(s, "PersonalCreate")) <= 1

\* mutex.rs: an admin-set change has its account for itself from its proposal
\* until its execution.
AdminChangeAlone ==
    \A s \in Subject : \A p \in LiveOf(s, "PersonalAdminChange") :
        \A q \in ProposalId : Live(q) /\ Proposals[q].subject = s => q = p

\* try_execute_set_change_from_action never takes its failure branch: when a
\* change has passed, its lock and the active account are still there, whenever
\* the engine gets to it.
PassedChangeApplies ==
    \A p \in ProposalId : Executing(p, "PersonalAdminChange") => CanChangeAdmins(p)

\* An admin-set change is alone on its account as long as it may act, and so it
\* never fails once it has passed.
AdminChangeExclusive == AdminChangeAlone /\ PassedChangeApplies

-------------------------------------------------------------------------------
\* The proposals of role on s that this step executes.
ExecutedNow(s, role) ==
    {p \in LiveOf(s, role) : Proposals[p].status = "PASSED"
                             /\ Proposals'[p].status = "EXECUTED"}

\* The admins of an active account are replaced, and the account is closed,
\* only by the votes of the admins it has at that moment: a threshold of them
\* for a replacement, all of them for closing.
DecideByCurrentAdmins ==
    \A s \in Subject : HasActiveAdmins(s) /\ IsActive(s) =>
        LET admins == AdminAccounts[s].admins
        IN  /\ s \notin DOMAIN AdminAccounts' =>
                  \E p \in ExecutedNow(s, "PersonalClose") : ballot[p].yes = admins
            /\ s \in DOMAIN AdminAccounts' /\ AdminAccounts'[s].admins # admins =>
                  \E p \in ExecutedNow(s, "PersonalAdminChange") :
                      /\ ballot[p].yes \subseteq admins
                      /\ Cardinality(ballot[p].yes) >= ActivePersonalThresholds[s]
                      /\ AdminAccounts'[s].admins = ballot[p].admins

\* DecideByCurrentAdmins holds of every step.
DecidedByCurrentAdmins == [][DecideByCurrentAdmins]_vars

-------------------------------------------------------------------------------
\* ensure_internal_business_proposal: the funds module proves that a passed
\* transfer is one of the current account.  Stated of the transfers that
\* try_execute_transfer_from_callback would carry out: whoever approved them
\* is an admin of the account they spend from.  Closing an account and
\* registering its address again replaces the admins under a shared lock only,
\* and the check compares nothing but the address.
TransferOfCurrentAccount ==
    \A p \in ProposalId :
        Executing(p, "General") /\ IsActive(Proposals[p].subject) =>
            ballot[p].yes \subseteq AdminAccounts[Proposals[p].subject].admins
================================================================================
