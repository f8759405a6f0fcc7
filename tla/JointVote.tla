------------------------------- MODULE JointVote -------------------------------
(***************************************************************************)
(* One joint proposal (votingengine/joint-vote): the fixed institutions     *)
(* vote first, each by its own admins, and unless all of them agree the     *)
(* citizens decide in a referendum.  Meanwhile admins and citizens change   *)
(* their wallets, identities are revoked and institutions replace their     *)
(* admins.  The citizens are those of Electorate, which CitizenIdentity     *)
(* implements.                                                              *)
(*                                                                         *)
(* Storage keyed by proposal id is that of the one proposal.  A call whose  *)
(* last step fails (a full expiry bucket, a failing callback) is rolled     *)
(* back as a whole and is no step.                                          *)
(***************************************************************************)
EXTENDS Electorate, Sequences, Functions

CONSTANTS
    Institution,
    VoterSubject,    \* the roles of the vote plan: <<institution, role>>
    Threshold,       \* institution -> tickets it needs (fixed_governance_pass_threshold)
    Weight,          \* institution -> its weight (institution_info)
    PassThreshold,   \* JOINT_VOTE_PASS_THRESHOLD
    Duration,        \* VOTING_DURATION_BLOCKS
    InitRoster,      \* institution -> its admins at the start
    InitWallet,      \* number -> its wallet at the start
    NoCid,           \* of an admin seated at genesis without a number
    NoAccount,
    MaxEvents        \* bound: new wallets, revocations and replacements of admins

Country == "country"

ASSUME JointAssumption ==
    /\ Country \in Scope
    /\ IsFiniteSet(Cid) /\ IsMap(InitWallet, Cid, Account)
    /\ IsFiniteSet(Institution) /\ IsFiniteSet(VoterSubject)
    /\ {r[1] : r \in VoterSubject} = Institution    \* ensure_vote_plan
    /\ DOMAIN InitRoster = Institution
    /\ \A i \in Institution : IsFiniteSet(DOMAIN InitRoster[i])
    /\ Threshold \in [Institution -> Nat \ {0}]
    /\ Weight \in [Institution -> Nat \ {0}]
    /\ PassThreshold = SumFunctionOnSet(Weight, Institution)
    /\ Duration \in Nat

VARIABLES
    AdminAccounts,             \* institution -> sequence of admins
    locked,                    \* institutions whose mutex the proposal holds
    changing,                  \* institutions with a proposal to replace their admins
    proposal,                  \* stage, status and voting blocks left, -1 once over
    VoterSnapshot,             \* role -> canonical accounts of its voters
    InstitutionTicketCount,    \* institution -> its tickets
    JointVotesByTicket,        \* <<institution, role, account>> -> vote, with its signer
    JointInstitutionTallies,   \* institution -> tickets for and against
    JointVotesByInstitution,   \* institution -> its decision
    JointTallies,              \* weight for and against
    population,                \* the roll of the referendum
    ReferendumVotesByCid,      \* number -> its vote
    ReferendumTallies,
    events                     \* how many of them there were

planVars == <<VoterSnapshot, InstitutionTicketCount, population>>
jointVars == <<JointVotesByTicket, JointInstitutionTallies, JointVotesByInstitution,
               JointTallies>>
referendumVars == <<ReferendumVotesByCid, ReferendumTallies>>
rosterVars == <<AdminAccounts, changing>>
vars == <<electorateVars, rosterVars, locked, proposal, planVars, jointVars, referendumVars,
          events>>

NoTally == [yes |-> 0, no |-> 0]
NoRoll == [scope |-> Country, members |-> {}, total |-> 0]

Init ==
    /\ wallet = InitWallet
    /\ standing = DOMAIN InitWallet
    /\ \E V \in SUBSET standing : voters = [s \in Scope |-> V]
    /\ rolls = {}
    /\ AdminAccounts = InitRoster
    /\ locked = {} /\ changing = {}
    /\ proposal = [stage |-> "none", status |-> "voting", left |-> 0]
    /\ VoterSnapshot = EmptyMap
    /\ InstitutionTicketCount = [i \in Institution |-> 0]
    /\ JointVotesByTicket = EmptyMap
    /\ JointInstitutionTallies = [i \in Institution |-> NoTally]
    /\ JointVotesByInstitution = EmptyMap
    /\ JointTallies = NoTally
    /\ population = NoRoll
    /\ ReferendumVotesByCid = EmptyMap
    /\ ReferendumTallies = NoTally
    /\ events = 0

-------------------------------------------------------------------------------
\* Who votes for an institution.

Accounts(roster) == {roster[k].account : k \in DOMAIN roster}

\* resolve_admin_account: an admin with a number is whoever has its wallet now
\* (matches_citizen_account), one without is his account.
Matches(admin, a) ==
    IF admin.cid = NoCid
    THEN admin.account = a
    ELSE /\ admin.cid \in standing
         /\ admin.cid \in DOMAIN wallet
         /\ wallet[admin.cid] = a

MatchesOf(i, a) == SelectSeq(AdminAccounts[i], LAMBDA admin : Matches(admin, a))

Resolve(i, a) == IF MatchesOf(i, a) = << >> THEN NoAccount ELSE MatchesOf(i, a)[1].account

SignerOf(i, a) == IF MatchesOf(i, a) = << >> THEN NoCid ELSE MatchesOf(i, a)[1].cid

\* snapshot_role_voters for every role of the plan: some of the admins, which is
\* decided outside this module (active_accounts_for_role), but not none.
Snapshots ==
    {snapshot \in [VoterSubject -> SUBSET UNION {Accounts(AdminAccounts[i]) : i \in Institution}] :
        \A role \in VoterSubject :
            /\ snapshot[role] # {}
            /\ snapshot[role] \subseteq Accounts(AdminAccounts[role[1]])}

TicketsOf(snapshot, i) ==
    SumFunctionOnSet([role \in VoterSubject |-> Cardinality(snapshot[role])],
                     {role \in VoterSubject : role[1] = i})

\* do_create_joint_proposal by a of institution i: the mutex and the active slot
\* are those of its own institution (subject_keys).
CreateJointProposal(i, a) ==
    /\ proposal.stage = "none"
    /\ Resolve(i, a) # NoAccount
    /\ i \notin changing
    /\ voters[Country] # {}
    /\ \E snapshot \in Snapshots :
          /\ VoterSnapshot' = snapshot
          /\ InstitutionTicketCount' = [j \in Institution |-> TicketsOf(snapshot, j)]
    /\ locked' = {i}
    /\ TakeRoll(Country)
    /\ population' = Roll(Country)
    /\ proposal' = [stage |-> "joint", status |-> "voting", left |-> Duration]
    /\ UNCHANGED <<rosterVars, jointVars, referendumVars, events>>

-------------------------------------------------------------------------------
\* The vote of the institutions.

\* ensure_open_proposal
Open(stage) ==
    /\ proposal.stage = stage
    /\ proposal.status = "voting"
    /\ proposal.left >= 0

Count(tally, approve, n) ==
    IF approve THEN [tally EXCEPT !.yes = @ + n] ELSE [tally EXCEPT !.no = @ + n]

\* set_status_and_emit; a rejection gives the locks back, a passed proposal keeps
\* those it still has until it is executed.
SetStatus(status) ==
    /\ proposal' = [proposal EXCEPT !.status = status]
    /\ locked' = IF status = "rejected" THEN {} ELSE locked

\* advance_joint_to_referendum
AdvanceToReferendum ==
    /\ proposal' = [proposal EXCEPT !.stage = "referendum", !.left = Duration]
    /\ locked' = {}

IsJointUnanimous(tally) == tally.yes >= PassThreshold

\* Mutant: a rejection waits until every institution has decided.
AfterInstitutionPatient(approved, tally) ==
    IF IsJointUnanimous(tally)
    THEN SetStatus("passed")
    ELSE IF tally.yes + tally.no >= PassThreshold
         THEN AdvanceToReferendum
         ELSE UNCHANGED <<proposal, locked>>

\* The end of finalize_joint_institution_vote.
AfterInstitution(approved, tally) ==
    IF approved /\ IsJointUnanimous(tally)
    THEN SetStatus("passed")
    ELSE IF ~approved \/ tally.yes + tally.no >= PassThreshold
         THEN AdvanceToReferendum
         ELSE UNCHANGED <<proposal, locked>>

\* finalize_joint_institution_vote
FinalizeInstitution(i, approved) ==
    /\ JointVotesByInstitution' = Insert(JointVotesByInstitution, i, approved)
    /\ JointTallies' = Count(JointTallies, approved, Weight[i])
    /\ AfterInstitution(approved, JointTallies')

\* Mutant: an institution is rejected only when nobody is left to vote.
HopelessLate(tally, tickets, threshold) ==
    tally.yes + tally.no = tickets /\ tally.yes < threshold

\* The tickets not cast yet cannot bring the institution to its threshold.
Hopeless(tally, tickets, threshold) ==
    tally.yes + (tickets - (tally.yes + tally.no)) < threshold

\* do_joint_vote, signed by a for the given role
CastAdmin(a, role, approve) ==
    LET i == role[1]
        ticket == <<role, Resolve(i, a)>>
        tally == Count(JointInstitutionTallies[i], approve, 1)
    IN  /\ Open("joint")
        /\ i \notin DOMAIN JointVotesByInstitution
        /\ ticket[2] \in VoterSnapshot[role]
        /\ ticket \notin DOMAIN JointVotesByTicket
        /\ JointVotesByTicket' =
             Insert(JointVotesByTicket, ticket, [approve |-> approve, signer |-> SignerOf(i, a)])
        /\ JointInstitutionTallies' = [JointInstitutionTallies EXCEPT ![i] = tally]
        /\ IF tally.yes >= Threshold[i]
           THEN FinalizeInstitution(i, TRUE)
           ELSE IF Hopeless(tally, InstitutionTicketCount[i], Threshold[i])
                THEN FinalizeInstitution(i, FALSE)
                ELSE UNCHANGED <<JointVotesByInstitution, JointTallies, proposal, locked>>
        /\ UNCHANGED <<electorateVars, rosterVars, planVars, referendumVars, events>>

\* Mutant: a vote of the institutions that is over waits for the missing ones.
JointTimeoutWaiting ==
    /\ proposal.stage = "joint" /\ proposal.status = "voting" /\ proposal.left = -1
    /\ IsJointUnanimous(JointTallies)
    /\ SetStatus("passed")
    /\ UNCHANGED <<electorateVars, rosterVars, planVars, jointVars, referendumVars, events>>

\* do_finalize_joint_timeout
JointTimeout ==
    /\ proposal.stage = "joint" /\ proposal.status = "voting" /\ proposal.left = -1
    /\ IF IsJointUnanimous(JointTallies) THEN SetStatus("passed") ELSE AdvanceToReferendum
    /\ UNCHANGED <<electorateVars, rosterVars, planVars, jointVars, referendumVars, events>>

-------------------------------------------------------------------------------
\* The referendum.

\* voting_subject_at_population_snapshot: the number whose wallet signs, if it
\* is on the roll.
VotingSubject(a) == {c \in population.members : c \in DOMAIN wallet /\ wallet[c] = a}

Passed(yes) == yes * 100 > population.total * 50

\* Mutant: half of the votes against leave the referendum open.
RejectedStrictly(no) == no * 100 > population.total * 50

Rejected(no) == no * 100 >= population.total * 50

\* Mutant: a citizen may vote again.
MayVoteAgain(c) == TRUE

\* The AlreadyVoted check of do_jointreferendum_vote: by number, not by wallet.
MayVote(c) == c \notin DOMAIN ReferendumVotesByCid

\* do_jointreferendum_vote
CastReferendum(a, approve) ==
    \E c \in VotingSubject(a) :
        LET tally == Count(ReferendumTallies, approve, 1)
        IN  /\ Open("referendum")
            /\ population.total > 0
            /\ MayVote(c)
            /\ ReferendumTallies.yes + ReferendumTallies.no < population.total
            /\ ReferendumVotesByCid' = Insert(ReferendumVotesByCid, c, approve)
            /\ ReferendumTallies' = tally
            /\ IF Passed(tally.yes) THEN SetStatus("passed")
               ELSE IF Rejected(tally.no) THEN SetStatus("rejected")
               ELSE UNCHANGED <<proposal, locked>>
            /\ UNCHANGED <<electorateVars, rosterVars, planVars, jointVars, events>>

\* do_finalize_jointreferendum_timeout
ReferendumTimeout ==
    /\ proposal.stage = "referendum" /\ proposal.status = "voting" /\ proposal.left = -1
    /\ SetStatus(IF Passed(ReferendumTallies.yes) THEN "passed" ELSE "rejected")
    /\ UNCHANGED <<electorateVars, rosterVars, planVars, jointVars, referendumVars, events>>

-------------------------------------------------------------------------------
\* What goes on around the proposal.

\* A block ends; the vote is over once no voting block is left.
NextBlock ==
    /\ proposal.stage # "none" /\ proposal.status = "voting" /\ proposal.left >= 0
    /\ proposal' = [proposal EXCEPT !.left = @ - 1]
    /\ UNCHANGED <<electorateVars, rosterVars, locked, planVars, jointVars, referendumVars, events>>

\* Bound: what happens after the decision makes no difference here.
MayHappen == events < MaxEvents /\ proposal.status = "voting"

\* A citizen or a registrar moves a number to another wallet.
Rebind(c, a) ==
    /\ MayHappen
    /\ BindWallet(c, a)
    /\ events' = events + 1
    /\ UNCHANGED <<rosterVars, locked, proposal, planVars, jointVars, referendumVars>>

\* An identity is revoked.
Revoke(c) ==
    /\ MayHappen /\ c \in standing
    /\ standing' = standing \ {c}
    /\ voters' = [s \in Scope |-> voters[s] \ {c}]
    /\ ChangeVoters
    /\ events' = events + 1
    /\ UNCHANGED <<rosterVars, locked, proposal, planVars, jointVars, referendumVars>>

\* Mutant: a proposal to replace the admins ignores the joint proposal's lock.
MayChangeUnlocked(i) == i \notin changing

MayChange(i) == i \notin changing /\ i \notin locked

\* An institution proposes to replace its admins (exclusive mutex).
ProposeAdminChange(i) ==
    /\ MayHappen
    /\ MayChange(i)
    /\ changing' = changing \cup {i}
    /\ events' = events + 1
    /\ UNCHANGED <<electorateVars, AdminAccounts, locked, proposal, planVars, jointVars,
                   referendumVars>>

\* validate_admin_set while the chain operates: as many admins as before, all
\* with numbers whose wallets they use, no number and so no account twice.
Rosters(i) ==
    {[k \in DOMAIN AdminAccounts[i] |-> [account |-> wallet[cids[k]], cid |-> cids[k]]] :
        cids \in {f \in [DOMAIN AdminAccounts[i] -> standing] : IsInjective(f)}}

\* The proposal passed: execute_governance_proposal, do_set_institution_admins.
ReplaceAdmins(i) ==
    /\ i \in changing
    /\ \E roster \in Rosters(i) : AdminAccounts' = [AdminAccounts EXCEPT ![i] = roster]
    /\ changing' = changing \ {i}
    /\ UNCHANGED <<electorateVars, locked, proposal, planVars, jointVars, referendumVars, events>>

Next ==
    \/ \E i \in Institution, a \in Account : CreateJointProposal(i, a)
    \/ \E a \in Account, role \in VoterSubject, approve \in BOOLEAN : CastAdmin(a, role, approve)
    \/ JointTimeout
    \/ \E a \in Account, approve \in BOOLEAN : CastReferendum(a, approve)
    \/ ReferendumTimeout
    \/ NextBlock
    \/ \E c \in Cid, a \in Account : Rebind(c, a)
    \/ \E c \in Cid : Revoke(c)
    \/ \E i \in Institution : ProposeAdminChange(i) \/ ReplaceAdmins(i)

Spec == Init /\ [][Next]_vars

\* Blocks follow each other and the expiry queue settles what is over.
FairSpec == Spec /\ WF_vars(NextBlock) /\ WF_vars(JointTimeout) /\ WF_vars(ReferendumTimeout)

-------------------------------------------------------------------------------
Tickets(i, approve) ==
    {t \in DOMAIN JointVotesByTicket :
        t[1][1] = i /\ JointVotesByTicket[t].approve = approve}

\* An institution has decided exactly when its tickets settle the matter, as
\* they stood at the vote that did: it approves with enough tickets, and rejects
\* once those not cast could not bring it there, whoever lost or changed his
\* wallet or seat in the meantime.
InstitutionsDecide ==
    \A i \in Institution :
        LET yes == Cardinality(Tickets(i, TRUE))
            no == Cardinality(Tickets(i, FALSE))
        IN  proposal.stage # "none" =>
              /\ JointInstitutionTallies[i] = [yes |-> yes, no |-> no]
              /\ (i \in DOMAIN JointVotesByInstitution /\ JointVotesByInstitution[i])
                   <=> yes >= Threshold[i]
              /\ (i \in DOMAIN JointVotesByInstitution /\ ~JointVotesByInstitution[i])
                   <=> (yes + no > 0 /\ InstitutionTicketCount[i] - no < Threshold[i])

\* The institutions pass a proposal only all together, and the first rejection
\* brings it before the citizens.
UnanimousOrReferendum ==
    LET approvals == {i \in DOMAIN JointVotesByInstitution : JointVotesByInstitution[i]}
    IN  proposal.stage = "joint" =>
          /\ DOMAIN JointVotesByInstitution = approvals
          /\ proposal.status = "passed" <=> approvals = Institution
          /\ proposal.status # "rejected"

\* A referendum is decided as soon as the votes not cast could not change its
\* outcome, and not before; without a majority at the deadline it is rejected.
VerdictStands ==
    proposal.stage = "referendum" =>
        LET yes == ReferendumTallies.yes
            no == ReferendumTallies.no
            rest == population.total - yes - no
            certainlyPassed == 2 * yes > population.total
            certainlyRejected == 2 * (yes + rest) <= population.total
        IN  /\ rest >= 0
            /\ proposal.status = "passed" <=> certainlyPassed
            /\ certainlyRejected => proposal.status = "rejected"
            /\ proposal.status = "rejected" => certainlyRejected \/ proposal.left = -1

\* The citizens who voted for (or against).
Voted(approve) ==
    {c \in DOMAIN ReferendumVotesByCid : ReferendumVotesByCid[c] = approve}

\* The running tallies, which alone decide the referendum, count every citizen of the
\* roll who voted once and nobody else, whatever wallets numbers move to and whoever
\* takes over a wallet that has voted (do_jointreferendum_vote).
TalliesCountCitizens ==
    /\ DOMAIN ReferendumVotesByCid \subseteq population.members
    /\ ReferendumTallies = [yes |-> Cardinality(Voted(TRUE)), no |-> Cardinality(Voted(FALSE))]

\* The admins of the proposing institution stay while the institutions vote.
ActorKeepsAdmins ==
    [][\A i \in locked : AdminAccounts'[i] = AdminAccounts[i]]_vars

\* Every joint proposal is decided.
EventuallyDecided == proposal.stage # "none" ~> proposal.status # "voting"

\* An admin has one ticket per role, also after a change of wallet
\* (comment of do_joint_vote).
OneTicketPerAdmin ==
    \A t, u \in DOMAIN JointVotesByTicket :
        /\ t[1] = u[1]
        /\ JointVotesByTicket[t].signer = JointVotesByTicket[u].signer
        /\ JointVotesByTicket[t].signer # NoCid
        => t = u
===============================================================================
