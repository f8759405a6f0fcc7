----------------------------- MODULE ProposalMutex -----------------------------
(***************************************************************************)
(* The per-subject proposal mutex and the active-proposal limit             *)
(* (votingengine/src/mutex.rs and limit.rs).  Regular proposals of one      *)
(* subject run side by side; a proposal that changes the subject's admin    *)
(* set runs alone.                                                          *)
(***************************************************************************)
EXTENDS ProposalStore

CONSTANT
    MaxActiveProposals   \* undecided proposals one subject may have at a time

ASSUME MutexAssumption == MaxActiveProposals \in Nat

VARIABLES
    InternalProposalMutexes,   \* subject -> shared count and exclusive owner
    ProposalMutexBindings,     \* proposal -> the locks it holds
    ActiveProposalsBySubject   \* subject -> its undecided proposals

mutexVars ==
    <<InternalProposalMutexes, ProposalMutexBindings, ActiveProposalsBySubject>>

MutexKind == {"Regular", "AdminSetMutationExclusive"}

\* Stands for Option::None in an owner field; no proposal has this id.
NoOwner == MaxProposals

MutexState  == [regular_active_count : Nat,
                admin_set_mutation_proposal : ProposalId \cup {NoOwner}]
EmptyMutex  == [regular_active_count |-> 0,
                admin_set_mutation_proposal |-> NoOwner]
Binding     == [subject : Subject, kind : MutexKind]

MutexTypeOK ==
    /\ InternalProposalMutexes \in [Subject -> MutexState]
    /\ ProposalMutexBindings \in [ProposalId -> SUBSET Binding]
    /\ ActiveProposalsBySubject \in [Subject -> SUBSET ProposalId]

\* No entry in storage and an empty state are the same to every reader.
MutexInit ==
    /\ InternalProposalMutexes = [s \in Subject |-> EmptyMutex]
    /\ ProposalMutexBindings = [p \in ProposalId |-> {}]
    /\ ActiveProposalsBySubject = [s \in Subject |-> {}]

\* Mutant: an admin-set change does not wait for the regular proposals.
CanAcquireEarly(s, kind) ==
    InternalProposalMutexes[s].admin_set_mutation_proposal = NoOwner

\* The conflict checks of acquire_internal_proposal_mutex.
CanAcquire(s, kind) ==
    LET state == InternalProposalMutexes[s]
    IN  /\ state.admin_set_mutation_proposal = NoOwner
        /\ kind = "AdminSetMutationExclusive" => state.regular_active_count = 0

\* What the mutex is once p has taken it.
Acquired(state, p, kind) ==
    IF kind = "Regular"
    THEN [state EXCEPT !.regular_active_count = @ + 1]
    ELSE [state EXCEPT !.admin_set_mutation_proposal = p]

\* acquire_internal_proposal_mutex
AcquireMutex(p, s, kind) ==
    /\ CanAcquire(s, kind)
    /\ InternalProposalMutexes' =
         [InternalProposalMutexes EXCEPT ![s] = Acquired(@, p, kind)]
    /\ ProposalMutexBindings' =
         [ProposalMutexBindings EXCEPT ![p] = @ \cup {[subject |-> s, kind |-> kind]}]

\* Mutant: the shared count is lowered without looking at the bindings.
ReleasedBlindly(s, p) ==
    [regular_active_count |-> InternalProposalMutexes[s].regular_active_count - 1,
     admin_set_mutation_proposal |-> NoOwner]

\* What the mutex of subject s is once p has given up its bindings on s.
Released(s, p) ==
    LET state == InternalProposalMutexes[s]
        held(kind) == [subject |-> s, kind |-> kind] \in ProposalMutexBindings[p]
    IN  [regular_active_count |->
            IF held("Regular") /\ state.regular_active_count > 0
            THEN state.regular_active_count - 1
            ELSE state.regular_active_count,
         admin_set_mutation_proposal |->
            IF /\ held("AdminSetMutationExclusive")
               /\ state.admin_set_mutation_proposal = p
            THEN NoOwner
            ELSE state.admin_set_mutation_proposal]

\* release_internal_proposal_mutexes: take all bindings of p.  A second
\* release of the same proposal finds no binding and changes nothing.
ReleaseMutexes(p) ==
    /\ InternalProposalMutexes' = [s \in Subject |-> Released(s, p)]
    /\ ProposalMutexBindings' = [ProposalMutexBindings EXCEPT ![p] = {}]

\* try_add_active_proposal
TryAddActiveProposal(s, p) ==
    /\ Cardinality(ActiveProposalsBySubject[s]) < MaxActiveProposals
    /\ ActiveProposalsBySubject' =
         [ActiveProposalsBySubject EXCEPT ![s] = @ \cup {p}]

\* remove_active_proposal
RemoveActiveProposal(s, p) ==
    ActiveProposalsBySubject' = [ActiveProposalsBySubject EXCEPT ![s] = @ \ {p}]

Holders(s, kind) ==
    {p \in ProposalId : [subject |-> s, kind |-> kind] \in ProposalMutexBindings[p]}

\* The lock table of mutex.rs agrees with the bindings proposals hold: the
\* shared count is the number of regular holders, the owner is the exclusive
\* holder, and an exclusive holder is the only holder of its subject.
MutexAccounting ==
    \A s \in Subject :
        LET state == InternalProposalMutexes[s]
            owner == state.admin_set_mutation_proposal
        IN  /\ state.regular_active_count = Cardinality(Holders(s, "Regular"))
            /\ Holders(s, "AdminSetMutationExclusive") =
                 (IF owner = NoOwner THEN {} ELSE {owner})
            /\ owner = NoOwner \/ Holders(s, "Regular") = {}
===============================================================================
