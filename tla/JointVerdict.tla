------------------------------ MODULE JointVerdict ------------------------------
(***************************************************************************)
(* Proofs about the joint vote, for any institutions, citizens, thresholds  *)
(* and durations: a referendum's verdict is the one its votes determine,    *)
(* its tallies count every citizen once, the proposing institution keeps   *)
(* its admins while the institutions vote, every institution decides as its *)
(* tickets do, and only all of them together pass a proposal.               *)
(***************************************************************************)
EXTENDS JointVote, DataLemmas

-------------------------------------------------------------------------------
(* The verdict of the referendum.                                            *)

Proposal == [stage : {"none", "joint", "referendum"},
             status : {"voting", "passed", "rejected"}, left : Int]

VerdictInv ==
    /\ voters \in [Scope -> SUBSET Cid]
    /\ proposal \in Proposal
    /\ population.total \in Nat
    /\ ReferendumTallies \in [yes : Nat, no : Nat]
    /\ proposal.stage # "none" => population.total > 0
    /\ proposal.stage # "referendum" => ReferendumTallies = NoTally
    /\ VerdictStands

\* Before any proposal is made.
LEMMA VerdictInit == Init => VerdictInv
  <1> SUFFICES ASSUME Init PROVE VerdictInv
    OBVIOUS
  <1>1. voters \in [Scope -> SUBSET Cid]
    BY JointAssumption DEF Init, IsMap
  <1>2. proposal \in Proposal /\ proposal.stage = "none"
    BY DEF Init, Proposal
  <1>3. population.total \in Nat /\ ReferendumTallies = NoTally
        /\ ReferendumTallies \in [yes : Nat, no : Nat]
    BY DEF Init, NoRoll, NoTally
  <1> QED BY <1>1, <1>2, <1>3 DEF VerdictInv, VerdictStands

\* What the votes of a referendum under way say.
LEMMA UnderWay ==
    ASSUME VerdictInv, proposal.stage = "referendum", proposal.status = "voting"
    PROVE  /\ ~Passed(ReferendumTallies.yes) /\ ~Rejected(ReferendumTallies.no)
           /\ ReferendumTallies.yes + ReferendumTallies.no =< population.total
  BY DEF VerdictInv, VerdictStands, Passed, Rejected

\* The steps that open a referendum or pass the proposal before one.
LEMMA VerdictJoint ==
    ASSUME VerdictInv, proposal.stage = "joint", proposal.status = "voting",
           SetStatus("passed") \/ AdvanceToReferendum \/ UNCHANGED proposal,
           UNCHANGED <<voters, population, ReferendumTallies>>
    PROVE  VerdictInv'
  <1> USE DEF VerdictInv
  <1>0. Duration \in Nat
    BY JointAssumption
  <1>1. CASE SetStatus("passed") \/ UNCHANGED proposal
    <2>1. proposal' \in Proposal /\ proposal'.stage = "joint"
      BY <1>1 DEF SetStatus, Proposal
    <2> QED BY <2>1 DEF VerdictStands
  <1>2. CASE AdvanceToReferendum
    <2>1. proposal' \in Proposal /\ proposal'.stage = "referendum" /\ proposal'.status = "voting"
      <3>1. proposal' = [proposal EXCEPT !.stage = "referendum", !.left = Duration]
        BY <1>2 DEF AdvanceToReferendum
      <3>2. Duration \in Int
        BY <1>0
      <3> HIDE DEF VerdictInv
      <3>3. proposal \in Proposal
        BY DEF VerdictInv
      <3> QED BY <3>1, <3>2, <3>3 DEF Proposal
    <2>2. ReferendumTallies'.yes = 0 /\ ReferendumTallies'.no = 0
      BY DEF NoTally
    <2>3. VerdictStands'
      BY <2>1, <2>2 DEF VerdictStands
    <2> QED BY <2>1, <2>3
  <1> QED BY <1>1, <1>2

\* A vote of a citizen decides the referendum or leaves it open.
LEMMA VerdictVote ==
    ASSUME VerdictInv, NEW a, NEW approve \in BOOLEAN, CastReferendum(a, approve)
    PROVE  VerdictInv'
  <1> USE DEF VerdictInv
  <1> DEFINE tally == Count(ReferendumTallies, approve, 1)
  <1>1. /\ proposal.stage = "referendum" /\ proposal.status = "voting"
        /\ ReferendumTallies.yes + ReferendumTallies.no < population.total
        /\ ReferendumTallies' = tally
        /\ \/ Passed(tally.yes) /\ SetStatus("passed")
           \/ ~Passed(tally.yes) /\ Rejected(tally.no) /\ SetStatus("rejected")
           \/ ~Passed(tally.yes) /\ ~Rejected(tally.no) /\ UNCHANGED proposal
        /\ UNCHANGED <<voters, population>>
    BY DEF CastReferendum, Open, electorateVars, planVars
  <1>2. /\ tally \in [yes : Nat, no : Nat]
        /\ tally.yes + tally.no = ReferendumTallies.yes + ReferendumTallies.no + 1
    BY DEF Count
  <1> HIDE DEF tally
  <1>3. CASE Passed(tally.yes) /\ SetStatus("passed")
    <2>1. proposal' \in Proposal /\ proposal'.stage = "referendum" /\ proposal'.status = "passed"
      BY <1>1, <1>3 DEF SetStatus, Proposal
    <2>2. VerdictStands'
      BY <1>1, <1>2, <1>3, <2>1 DEF VerdictStands, Passed
    <2> QED BY <1>1, <1>2, <2>1, <2>2
  <1>4. CASE ~Passed(tally.yes) /\ Rejected(tally.no) /\ SetStatus("rejected")
    <2>1. proposal' \in Proposal /\ proposal'.stage = "referendum" /\ proposal'.status = "rejected"
      BY <1>1, <1>4 DEF SetStatus, Proposal
    <2>2. VerdictStands'
      BY <1>1, <1>2, <1>4, <2>1 DEF VerdictStands, Passed, Rejected
    <2> QED BY <1>1, <1>2, <2>1, <2>2
  <1>5. CASE ~Passed(tally.yes) /\ ~Rejected(tally.no) /\ UNCHANGED proposal
    <2>1. VerdictStands'
      BY <1>1, <1>2, <1>5 DEF VerdictStands, Passed, Rejected
    <2> QED BY <1>1, <1>2, <1>5, <2>1
  <1> QED BY <1>1, <1>3, <1>4, <1>5

\* The deadline rejects what has no majority.
LEMMA VerdictTimeout == ASSUME VerdictInv, ReferendumTimeout PROVE VerdictInv'
  <1> USE DEF VerdictInv
  <1>1. /\ proposal.stage = "referendum" /\ proposal.status = "voting" /\ proposal.left = -1
        /\ UNCHANGED <<voters, population, ReferendumTallies>>
    BY DEF ReferendumTimeout, electorateVars, planVars, referendumVars
  <1>2. SetStatus("rejected")
    BY <1>1, UnderWay DEF ReferendumTimeout
  <1>3. proposal' \in Proposal /\ proposal'.stage = "referendum"
        /\ proposal'.status = "rejected" /\ proposal'.left = -1
    BY <1>1, <1>2 DEF SetStatus, Proposal
  <1>4. VerdictStands'
    BY <1>1, <1>3, UnderWay DEF VerdictStands, Passed
  <1> QED BY <1>1, <1>3, <1>4

\* Votes and records the verdict does not depend on.
LEMMA VerdictSame ==
    ASSUME VerdictInv, voters' \in [Scope -> SUBSET Cid],
           UNCHANGED <<proposal, population, ReferendumTallies>>
    PROVE  VerdictInv'
  BY DEF VerdictInv, VerdictStands

\* Every step keeps the invariant.
LEMMA VerdictStep == ASSUME VerdictInv, [Next]_vars PROVE VerdictInv'
  <1> USE DEF electorateVars, planVars, referendumVars
  <1>1. ASSUME NEW i \in Institution, NEW a \in Account, CreateJointProposal(i, a)
        PROVE  VerdictInv'
    <2>1. voters[Country] \subseteq Cid /\ voters[Country] # {}
      BY <1>1, JointAssumption DEF CreateJointProposal, VerdictInv
    <2>2. Cardinality(voters[Country]) \in Nat /\ Cardinality(voters[Country]) > 0
      <3>1. IsFiniteSet(voters[Country])
        BY <2>1, JointAssumption, FS_Subset
      <3> QED BY <2>1, <3>1, FS_CardinalityType, FS_EmptySet
    <2>3. population'.total = Cardinality(voters[Country]) /\ UNCHANGED <<voters, ReferendumTallies>>
      BY <1>1 DEF CreateJointProposal, Roll, TakeRoll
    <2>4. proposal' \in Proposal /\ proposal'.stage = "joint" /\ proposal.stage = "none"
      BY <1>1, JointAssumption DEF CreateJointProposal, Proposal
    <2> QED BY <2>2, <2>3, <2>4 DEF VerdictInv, VerdictStands
  <1>2. ASSUME NEW a \in Account, NEW role \in VoterSubject, NEW approve \in BOOLEAN,
               CastAdmin(a, role, approve)
        PROVE  VerdictInv'
    <2>1. /\ proposal.stage = "joint" /\ proposal.status = "voting"
          /\ UNCHANGED <<voters, population, ReferendumTallies>>
      BY <1>2 DEF CastAdmin, Open
    <2>2. SetStatus("passed") \/ AdvanceToReferendum \/ UNCHANGED proposal
      BY <1>2 DEF CastAdmin, FinalizeInstitution, AfterInstitution
    <2> QED BY <2>1, <2>2, VerdictJoint
  <1>3. ASSUME JointTimeout PROVE VerdictInv'
    BY <1>3, VerdictJoint DEF JointTimeout
  <1>4. ASSUME NextBlock PROVE VerdictInv'
    <2>1. /\ proposal.stage # "none" /\ proposal.status = "voting" /\ proposal \in Proposal
          /\ proposal' = [proposal EXCEPT !.left = @ - 1]
          /\ UNCHANGED <<voters, population, ReferendumTallies>>
      BY <1>4 DEF NextBlock, VerdictInv
    <2>2. proposal' \in Proposal /\ proposal'.stage = proposal.stage /\ proposal'.status = "voting"
      BY <2>1 DEF Proposal
    <2> QED BY <2>1, <2>2 DEF VerdictInv, VerdictStands
  <1>5. ASSUME NEW c \in Cid, Revoke(c) PROVE VerdictInv'
    <2>1. voters' \in [Scope -> SUBSET Cid]
      BY <1>5 DEF Revoke, VerdictInv
    <2> QED BY <1>5, <2>1, VerdictSame DEF Revoke
  <1>6. ASSUME NEW c \in Cid, NEW a \in Account, Rebind(c, a) PROVE VerdictInv'
    BY <1>6, VerdictSame DEF Rebind, BindWallet, VerdictInv
  <1>7. ASSUME NEW i \in Institution, ProposeAdminChange(i) \/ ReplaceAdmins(i)
        PROVE  VerdictInv'
    BY <1>7, VerdictSame DEF ProposeAdminChange, ReplaceAdmins, VerdictInv
  <1>8. CASE UNCHANGED vars
    BY <1>8, VerdictSame DEF vars, VerdictInv
  <1> QED BY <1>1, <1>2, <1>3, <1>4, <1>5, <1>6, <1>7, <1>8, VerdictVote, VerdictTimeout
          DEF Next

\* The invariant holds in every state.
LEMMA VerdictAlways == Spec => []VerdictInv
  <1>1. VerdictInv /\ [Next]_vars => VerdictInv'
    BY VerdictStep
  <1> QED BY VerdictInit, <1>1, PTL DEF Spec

\* A referendum passes exactly with more than half of the roll in favour, is rejected as
\* soon as that is out of reach, and otherwise only by its deadline
\* (do_jointreferendum_vote, do_finalize_jointreferendum_timeout).
THEOREM VerdictCorrect == Spec => []VerdictStands
  BY VerdictAlways, PTL DEF VerdictInv

-------------------------------------------------------------------------------
(* What the tallies of the referendum count.                                 *)

VotesInv ==
    /\ population.members \subseteq Cid
    /\ proposal.stage = "none" => ReferendumVotesByCid = EmptyMap
    /\ TalliesCountCitizens

\* A vote of a citizen who has not voted adds one to his side and to no other
\* (the insertion and the tally of do_jointreferendum_vote).
LEMMA VoteCounted ==
    ASSUME VotesInv, NEW c \in population.members, NEW approve \in BOOLEAN, MayVote(c),
           ReferendumVotesByCid' = Insert(ReferendumVotesByCid, c, approve),
           ReferendumTallies' = Count(ReferendumTallies, approve, 1),
           UNCHANGED population
    PROVE  TalliesCountCitizens'
  <1>1. ASSUME NEW side \in BOOLEAN
        PROVE  /\ IsFiniteSet(Voted(side)) /\ Cardinality(Voted(side)) \in Nat
               /\ Cardinality(Voted(side)') =
                     IF side = approve THEN Cardinality(Voted(side)) + 1
                     ELSE Cardinality(Voted(side))
    <2>1. Voted(side) \subseteq Cid
      BY DEF Voted, VotesInv, TalliesCountCitizens
    <2>2. IsFiniteSet(Voted(side))
      BY <2>1, JointAssumption, FS_Subset
    <2>3. c \notin Voted(side)
      BY DEF Voted, MayVote
    <2>4. Voted(side)' = IF side = approve THEN Voted(side) \cup {c} ELSE Voted(side)
      BY DEF Voted, MayVote, Insert
    <2> QED BY <2>2, <2>3, <2>4, FS_AddElement, FS_CardinalityType
  <1>2. ReferendumTallies = [yes |-> Cardinality(Voted(TRUE)), no |-> Cardinality(Voted(FALSE))]
    BY DEF VotesInv, TalliesCountCitizens
  <1>3. ReferendumTallies' =
           [yes |-> Cardinality(Voted(TRUE)'), no |-> Cardinality(Voted(FALSE)')]
    <2>1. CASE approve = TRUE
      BY <1>1, <1>2, <2>1 DEF Count
    <2>2. CASE approve = FALSE
      BY <1>1, <1>2, <2>2 DEF Count
    <2> QED BY <2>1, <2>2
  <1>4. DOMAIN ReferendumVotesByCid' \subseteq population'.members
    BY DEF VotesInv, TalliesCountCitizens, Insert
  <1> QED BY <1>3, <1>4 DEF TalliesCountCitizens, Voted

\* Every step keeps the tallies those of the votes.
LEMMA VotesStep == ASSUME VotesInv, VerdictInv, [Next]_vars PROVE VotesInv'
  <1> USE DEF electorateVars, planVars, referendumVars, VotesInv
  <1>0. proposal \in Proposal
    BY DEF VerdictInv
  <1>1. ASSUME NEW i \in Institution, NEW a \in Account, CreateJointProposal(i, a)
        PROVE  VotesInv'
    <2>1. population'.members \subseteq Cid
      BY <1>1, JointAssumption DEF CreateJointProposal, Roll, VerdictInv
    <2>2. /\ UNCHANGED <<ReferendumVotesByCid, ReferendumTallies>>
          /\ ReferendumVotesByCid = EmptyMap /\ proposal'.stage # "none"
      BY <1>1 DEF CreateJointProposal
    <2>3. TalliesCountCitizens'
      BY <2>2 DEF TalliesCountCitizens, Voted, EmptyMap
    <2> QED BY <2>1, <2>2, <2>3
  <1>2. ASSUME NEW a \in Account, NEW approve \in BOOLEAN, CastReferendum(a, approve)
        PROVE  VotesInv'
    <2>1. PICK c \in VotingSubject(a) :
             /\ proposal.stage = "referendum" /\ MayVote(c)
             /\ ReferendumVotesByCid' = Insert(ReferendumVotesByCid, c, approve)
             /\ ReferendumTallies' = Count(ReferendumTallies, approve, 1)
             /\ proposal' = proposal \/ \E st \in {"passed", "rejected"} : SetStatus(st)
             /\ UNCHANGED population
      BY <1>2 DEF CastReferendum, Open
    <2>2. c \in population.members
      BY DEF VotingSubject
    <2>3. TalliesCountCitizens'
      BY <2>1, <2>2, VoteCounted
    <2>4. proposal'.stage = proposal.stage
      BY <1>0, <2>1 DEF SetStatus, Proposal
    <2> QED BY <2>1, <2>3, <2>4
  <1>3. ASSUME UNCHANGED <<ReferendumVotesByCid, ReferendumTallies, population>>,
               proposal'.stage = "none" => proposal.stage = "none"
        PROVE  VotesInv'
    BY <1>3 DEF TalliesCountCitizens, Voted
  <1>4. CASE \E a \in Account, role \in VoterSubject, approve \in BOOLEAN :
                CastAdmin(a, role, approve)
    <2>1. SetStatus("passed") \/ AdvanceToReferendum \/ UNCHANGED proposal
      BY <1>4 DEF CastAdmin, FinalizeInstitution, AfterInstitution
    <2>2. proposal.stage = "joint" /\ UNCHANGED <<ReferendumVotesByCid, ReferendumTallies, population>>
      BY <1>4 DEF CastAdmin, Open
    <2>3. proposal'.stage \in {"joint", "referendum", proposal.stage}
      BY <1>0, <2>1, <2>2 DEF SetStatus, AdvanceToReferendum, Proposal
    <2> QED BY <1>3, <2>2, <2>3
  <1>5. CASE JointTimeout
    <2>1. proposal'.stage # "none"
      BY <1>0, <1>5 DEF JointTimeout, SetStatus, AdvanceToReferendum, Proposal
    <2> QED BY <1>3, <1>5, <2>1 DEF JointTimeout
  <1>6. CASE ReferendumTimeout \/ NextBlock
    <2>1. proposal.stage # "none"
      BY <1>6 DEF ReferendumTimeout, NextBlock
    <2>2. UNCHANGED <<ReferendumVotesByCid, ReferendumTallies, population>>
      BY <1>6 DEF ReferendumTimeout, NextBlock
    <2>3. proposal'.stage = proposal.stage
      BY <1>0, <1>6 DEF ReferendumTimeout, NextBlock, SetStatus, Proposal
    <2> QED BY <1>3, <2>2, <2>3
  <1>7. CASE \/ \E c \in Cid, a \in Account : Rebind(c, a)
             \/ \E c \in Cid : Revoke(c)
             \/ \E i \in Institution : ProposeAdminChange(i) \/ ReplaceAdmins(i)
             \/ UNCHANGED vars
    BY <1>3, <1>7 DEF Rebind, Revoke, ProposeAdminChange, ReplaceAdmins, vars
  <1> QED BY <1>1, <1>2, <1>4, <1>5, <1>6, <1>7 DEF Next

\* Whatever wallets a number moves to during the referendum, the tallies that decide it
\* count it once, and nobody who is not on the roll (do_jointreferendum_vote).
THEOREM CitizensCountOnce == Spec => []TalliesCountCitizens
  <1>1. Init => VotesInv
    <2> SUFFICES ASSUME Init PROVE VotesInv
      OBVIOUS
    <2>1. Voted(TRUE) = {} /\ Voted(FALSE) = {} /\ DOMAIN ReferendumVotesByCid = {}
      BY DEF Init, Voted, EmptyMap
    <2> QED BY <2>1, FS_EmptySet DEF Init, VotesInv, TalliesCountCitizens, NoRoll, NoTally
  <1>2. VotesInv /\ VerdictInv /\ [Next]_vars => VotesInv'
    BY VotesStep
  <1>3. VotesInv => TalliesCountCitizens
    BY DEF VotesInv
  <1> QED BY <1>1, <1>2, <1>3, VerdictAlways, PTL DEF Spec

-------------------------------------------------------------------------------
(* The lock of the proposing institution.                                    *)

\* No institution both holds a joint proposal's lock and has a change of admins under way.
LockInv == locked \cap changing = {}

\* No step lets a lock of the proposal and a change of admins meet at one institution.
LEMMA LockStep ==
    ASSUME LockInv, [Next]_vars
    PROVE  LockInv' /\ \A i \in locked : AdminAccounts'[i] = AdminAccounts[i]
  <1> USE DEF rosterVars, LockInv
  <1>1. ASSUME NEW i \in Institution, NEW a \in Account, CreateJointProposal(i, a)
        PROVE  LockInv' /\ UNCHANGED AdminAccounts
    BY <1>1 DEF CreateJointProposal
  <1>2. ASSUME locked' \subseteq locked, UNCHANGED rosterVars
        PROVE  LockInv' /\ UNCHANGED AdminAccounts
    BY <1>2
  <1>3. CASE \E a \in Account, role \in VoterSubject, approve \in BOOLEAN :
                CastAdmin(a, role, approve)
    <2>1. locked' \subseteq locked
      BY <1>3 DEF CastAdmin, FinalizeInstitution, AfterInstitution, SetStatus, AdvanceToReferendum
    <2> QED BY <1>2, <1>3, <2>1 DEF CastAdmin
  <1>4. CASE JointTimeout \/ ReferendumTimeout \/ NextBlock
    <2>1. locked' \subseteq locked
      BY <1>4 DEF JointTimeout, ReferendumTimeout, NextBlock, SetStatus, AdvanceToReferendum
    <2> QED BY <1>2, <1>4, <2>1 DEF JointTimeout, ReferendumTimeout, NextBlock
  <1>5. CASE \E a \in Account, approve \in BOOLEAN : CastReferendum(a, approve)
    <2>1. locked' \subseteq locked
      BY <1>5 DEF CastReferendum, SetStatus
    <2> QED BY <1>2, <1>5, <2>1 DEF CastReferendum
  <1>6. CASE \/ \E c \in Cid, a \in Account : Rebind(c, a)
             \/ \E c \in Cid : Revoke(c)
             \/ UNCHANGED vars
    BY <1>2, <1>6 DEF Rebind, Revoke, vars
  <1>7. ASSUME NEW i \in Institution, ProposeAdminChange(i)
        PROVE  LockInv' /\ UNCHANGED AdminAccounts
    BY <1>7 DEF ProposeAdminChange, MayChange
  <1>8. ASSUME NEW i \in Institution, ReplaceAdmins(i)
        PROVE  LockInv' /\ \A j \in locked : AdminAccounts'[j] = AdminAccounts[j]
    <2>1. PICK roster : AdminAccounts' = [AdminAccounts EXCEPT ![i] = roster]
      BY <1>8 DEF ReplaceAdmins
    <2>2. i \notin locked /\ changing' \subseteq changing /\ UNCHANGED locked
      BY <1>8 DEF ReplaceAdmins
    <2> QED BY <2>1, <2>2
  <1> QED BY <1>1, <1>3, <1>4, <1>5, <1>6, <1>7, <1>8 DEF Next

\* While the institutions vote, the proposing one keeps the admins it proposed with: its
\* lock and the lock of a change of admins exclude each other (joint_subject_cid_numbers).
THEOREM ProposerKeepsAdmins == Spec => ActorKeepsAdmins
  <1>1. Init => LockInv
    BY DEF Init, LockInv
  <1>2. LockInv /\ [Next]_vars => LockInv'
    BY LockStep
  <1>3. LockInv /\ [Next]_vars => [\A i \in locked : AdminAccounts'[i] = AdminAccounts[i]]_vars
    BY LockStep
  <1> QED BY <1>1, <1>2, <1>3, PTL DEF Spec, ActorKeepsAdmins


-------------------------------------------------------------------------------
(* The decisions of the institutions.  What the code counts is compared with  *)
(* the tickets themselves: they are among those frozen with the proposal, so  *)
(* never more than the institution's ticket count.                            *)

RolesOf(i) == {role \in VoterSubject : role[1] = i}

\* Rosters are finite; the plan, the counts and the votes belong together.
TicketsInv ==
    /\ DOMAIN AdminAccounts = Institution
    /\ \A i \in Institution : IsFiniteSet(DOMAIN AdminAccounts[i])
    /\ DOMAIN JointInstitutionTallies = Institution
    /\ IsMap(JointVotesByInstitution, Institution, BOOLEAN)
    /\ proposal.stage = "none" =>
          /\ JointVotesByTicket = EmptyMap
          /\ JointInstitutionTallies = [i \in Institution |-> NoTally]
          /\ JointVotesByInstitution = EmptyMap
          /\ JointTallies = NoTally
          /\ proposal.status = "voting"
    /\ proposal.stage # "none" =>
          /\ \A role \in VoterSubject : IsFiniteSet(VoterSnapshot[role])
          /\ InstitutionTicketCount = [i \in Institution |-> TicketsOf(VoterSnapshot, i)]
          /\ DOMAIN JointVotesByTicket \subseteq Pairs(VoterSubject, VoterSnapshot)

\* An institution's accounts are finitely many.
LEMMA AccountsFinite ==
    ASSUME NEW roster, IsFiniteSet(DOMAIN roster)
    PROVE  IsFiniteSet(Accounts(roster))
  <1> DEFINE f == [k \in DOMAIN roster |-> roster[k].account]
  <1>1. f \in Surjection(DOMAIN roster, Accounts(roster))
    BY DEF Surjection, Accounts
  <1> QED BY <1>1, FS_Surjection

\* The tickets of an institution are no more than its ticket count, so subtracting those
\* cast from those there are never saturates (remaining_voters of do_joint_vote).
TicketsFit ==
    proposal.stage # "none" =>
        \A i \in Institution :
           /\ IsFiniteSet(Tickets(i, TRUE)) /\ IsFiniteSet(Tickets(i, FALSE))
           /\ Cardinality(Tickets(i, TRUE)) \in Nat /\ Cardinality(Tickets(i, FALSE)) \in Nat
           /\ InstitutionTicketCount[i] \in Nat
           /\ Cardinality(Tickets(i, TRUE)) + Cardinality(Tickets(i, FALSE))
                 =< InstitutionTicketCount[i]

\* It follows from where the tickets come from.
LEMMA TicketsBounded == TicketsInv => TicketsFit
  <1> SUFFICES ASSUME TicketsInv, proposal.stage # "none", NEW i \in Institution
               PROVE  /\ IsFiniteSet(Tickets(i, TRUE)) /\ IsFiniteSet(Tickets(i, FALSE))
                      /\ Cardinality(Tickets(i, TRUE)) \in Nat
                      /\ Cardinality(Tickets(i, FALSE)) \in Nat
                      /\ InstitutionTicketCount[i] \in Nat
                      /\ Cardinality(Tickets(i, TRUE)) + Cardinality(Tickets(i, FALSE))
                            =< InstitutionTicketCount[i]
    BY DEF TicketsFit
  <1> DEFINE F == [role \in VoterSubject |-> Cardinality(VoterSnapshot[role])]
             P == Pairs(RolesOf(i), VoterSnapshot)
  <1>1. IsFiniteSet(RolesOf(i)) /\ RolesOf(i) \subseteq VoterSubject
    <2>1. RolesOf(i) \subseteq VoterSubject
      BY DEF RolesOf
    <2> QED BY <2>1, JointAssumption, FS_Subset
  <1>2. /\ \A r \in RolesOf(i) : IsFiniteSet(VoterSnapshot[r])
        /\ \A r \in RolesOf(i) : F[r] = Cardinality(VoterSnapshot[r])
    BY <1>1 DEF TicketsInv
  <1>3. IsFiniteSet(P) /\ Cardinality(P) = SumFunctionOnSet(F, RolesOf(i))
    <2> HIDE DEF F
    <2> QED BY <1>1, <1>2, PairsCounted
  <1>4. InstitutionTicketCount[i] = Cardinality(P)
    BY <1>3 DEF TicketsInv, TicketsOf, RolesOf
  <1>5. Tickets(i, TRUE) \subseteq P /\ Tickets(i, FALSE) \subseteq P
    <2>1. ASSUME NEW t \in DOMAIN JointVotesByTicket, t[1][1] = i PROVE t \in P
      <3>1. PICK r \in VoterSubject : t \in {r} \X VoterSnapshot[r]
        BY DEF TicketsInv, Pairs
      <3>2. r \in RolesOf(i)
        BY <2>1, <3>1 DEF RolesOf
      <3> QED BY <3>1, <3>2 DEF Pairs
    <2> QED BY <2>1 DEF Tickets
  <1>6. Tickets(i, TRUE) \cap Tickets(i, FALSE) = {}
    BY DEF Tickets
  <1>7. Cardinality(P) \in Nat
    BY <1>3, FS_CardinalityType
  <1> HIDE DEF P
  <1> QED BY <1>3, <1>4, <1>5, <1>6, <1>7, DisjointParts

\* A vote adds one ticket, to the side it is for.
LEMMA TicketsAdded ==
    ASSUME TicketsInv, proposal.stage # "none", NEW role \in VoterSubject, NEW acc,
           NEW approve \in BOOLEAN, NEW v, v.approve = approve,
           <<role, acc>> \notin DOMAIN JointVotesByTicket,
           JointVotesByTicket' = Insert(JointVotesByTicket, <<role, acc>>, v),
           NEW j \in Institution, NEW side \in BOOLEAN
    PROVE  /\ j = role[1] /\ side = approve =>
                 Cardinality(Tickets(j, side)') = Cardinality(Tickets(j, side)) + 1
           /\ ~(j = role[1] /\ side = approve) =>
                 Cardinality(Tickets(j, side)') = Cardinality(Tickets(j, side))
  <1>1. IsFiniteSet(Tickets(j, side)) /\ Cardinality(Tickets(j, side)) \in Nat
    BY TicketsBounded DEF TicketsFit
  <1>2. <<role, acc>> \notin Tickets(j, side)
    BY DEF Tickets
  <1>3. CASE j = role[1] /\ side = approve
    <2>1. Tickets(j, side)' = Tickets(j, side) \cup {<<role, acc>>}
      BY <1>3 DEF Tickets, Insert
    <2>2. Cardinality(Tickets(j, side)') = Cardinality(Tickets(j, side)) + 1
      BY <1>1, <1>2, <2>1, FS_AddElement
    <2> QED BY <1>3, <2>2
  <1>4. CASE ~(j = role[1] /\ side = approve)
    <2>1. Tickets(j, side)' = Tickets(j, side)
      BY <1>4 DEF Tickets, Insert
    <2> QED BY <1>1, <1>4, <2>1
  <1> QED BY <1>3, <1>4

\* Where the plan is kept and the votes are those before.
LEMMA TicketsSame ==
    ASSUME TicketsInv, UNCHANGED <<planVars, jointVars>>,
           proposal'.stage = "none" <=> proposal.stage = "none",
           proposal'.stage = "none" => proposal'.status = proposal.status,
           DOMAIN AdminAccounts' = Institution,
           \A i \in Institution : IsFiniteSet(DOMAIN AdminAccounts'[i])
    PROVE  TicketsInv'
  BY DEF TicketsInv, planVars, jointVars, TicketsOf

\* Every step keeps plan, counts and votes together.
LEMMA TicketsStep == ASSUME TicketsInv, VerdictInv, [Next]_vars PROVE TicketsInv'
  <1> USE DEF rosterVars
  <1>0. proposal \in Proposal /\ DOMAIN AdminAccounts = Institution
        /\ \A i \in Institution : IsFiniteSet(DOMAIN AdminAccounts[i])
    BY DEF VerdictInv, TicketsInv
  <1>1. ASSUME NEW i \in Institution, NEW a \in Account, CreateJointProposal(i, a)
        PROVE  TicketsInv'
    <2>1. PICK snapshot \in Snapshots :
             /\ VoterSnapshot' = snapshot
             /\ InstitutionTicketCount' = [j \in Institution |-> TicketsOf(snapshot, j)]
      BY <1>1 DEF CreateJointProposal
    <2>2. ASSUME NEW role \in VoterSubject PROVE IsFiniteSet(snapshot[role])
      <3>1. role[1] \in Institution
        BY JointAssumption
      <3>2. IsFiniteSet(Accounts(AdminAccounts[role[1]]))
        BY <1>0, <3>1, AccountsFinite
      <3>3. snapshot[role] \subseteq Accounts(AdminAccounts[role[1]])
        BY DEF Snapshots
      <3> QED BY <3>2, <3>3, FS_Subset
    <2>3. DOMAIN JointVotesByTicket' = {}
      BY <1>1 DEF CreateJointProposal, jointVars, TicketsInv, EmptyMap
    <2>4. proposal'.stage = "joint" /\ UNCHANGED AdminAccounts
      BY <1>1 DEF CreateJointProposal
    <2> QED BY <1>0, <1>1, <2>1, <2>2, <2>3, <2>4
            DEF TicketsInv, TicketsOf, CreateJointProposal, jointVars
  <1>2. ASSUME NEW a \in Account, NEW role \in VoterSubject, NEW approve \in BOOLEAN,
               CastAdmin(a, role, approve)
        PROVE  TicketsInv'
    <2> DEFINE acc == Resolve(role[1], a)
    <2>1. /\ proposal.stage = "joint" /\ acc \in VoterSnapshot[role]
          /\ JointVotesByTicket' = Insert(JointVotesByTicket, <<role, acc>>,
                                     [approve |-> approve, signer |-> SignerOf(role[1], a)])
          /\ UNCHANGED <<AdminAccounts, planVars>>
      BY <1>2 DEF CastAdmin, Open
    <2>2. SetStatus("passed") \/ AdvanceToReferendum \/ UNCHANGED proposal
      BY <1>2 DEF CastAdmin, FinalizeInstitution, AfterInstitution
    <2>3. proposal'.stage # "none"
      BY <1>0, <2>1, <2>2 DEF SetStatus, AdvanceToReferendum, Proposal
    <2> HIDE DEF acc
    <2>4. <<role, acc>> \in Pairs(VoterSubject, VoterSnapshot)
      BY <2>1 DEF Pairs
    <2>5. DOMAIN JointVotesByTicket' \subseteq Pairs(VoterSubject, VoterSnapshot)
      BY <2>1, <2>4 DEF Insert, TicketsInv
    <2>6. DOMAIN JointInstitutionTallies' = Institution
      BY <1>2 DEF CastAdmin, TicketsInv
    <2>7. IsMap(JointVotesByInstitution, Institution, BOOLEAN)'
      <3>1. role[1] \in Institution /\ IsMap(JointVotesByInstitution, Institution, BOOLEAN)
        BY JointAssumption DEF TicketsInv
      <3>2. \/ \E d \in BOOLEAN : JointVotesByInstitution' = Insert(JointVotesByInstitution, role[1], d)
            \/ UNCHANGED JointVotesByInstitution
        BY <1>2 DEF CastAdmin, FinalizeInstitution
      <3> QED BY <3>1, <3>2, InsertIsMap
    <2> QED BY <1>0, <2>1, <2>3, <2>5, <2>6, <2>7 DEF TicketsInv, planVars, TicketsOf
  <1>3. ASSUME NEW a \in Account, NEW approve \in BOOLEAN, CastReferendum(a, approve)
        PROVE  TicketsInv'
    <2>1. proposal' = proposal \/ \E st \in {"passed", "rejected"} : SetStatus(st)
      BY <1>3 DEF CastReferendum
    <2>2. proposal.stage = "referendum" /\ UNCHANGED <<planVars, jointVars, AdminAccounts>>
      BY <1>3 DEF CastReferendum, Open
    <2>3. proposal'.stage = "referendum"
      BY <1>0, <2>1, <2>2 DEF SetStatus, Proposal
    <2> QED BY <1>0, <2>2, <2>3, TicketsSame
  <1>4. CASE JointTimeout \/ ReferendumTimeout \/ NextBlock
    <2>1. proposal.stage # "none" /\ UNCHANGED <<planVars, jointVars, AdminAccounts>>
      BY <1>4 DEF JointTimeout, ReferendumTimeout, NextBlock
    <2>2. proposal'.stage # "none"
      BY <1>0, <1>4, <2>1
         DEF JointTimeout, ReferendumTimeout, NextBlock, SetStatus, AdvanceToReferendum, Proposal
    <2> QED BY <1>0, <2>1, <2>2, TicketsSame
  <1>5. CASE \/ \E c \in Cid, a \in Account : Rebind(c, a)
             \/ \E c \in Cid : Revoke(c)
             \/ \E i \in Institution : ProposeAdminChange(i)
             \/ UNCHANGED vars
    <2>1. UNCHANGED <<proposal, planVars, jointVars, AdminAccounts>>
      BY <1>5 DEF Rebind, Revoke, ProposeAdminChange, vars
    <2> QED BY <1>0, <2>1, TicketsSame
  <1>6. ASSUME NEW i \in Institution, ReplaceAdmins(i) PROVE TicketsInv'
    <2>1. PICK roster \in Rosters(i) : AdminAccounts' = [AdminAccounts EXCEPT ![i] = roster]
      BY <1>6 DEF ReplaceAdmins
    <2>2. DOMAIN roster = DOMAIN AdminAccounts[i]
      BY DEF Rosters
    <2>3. DOMAIN AdminAccounts' = Institution
          /\ \A j \in Institution : IsFiniteSet(DOMAIN AdminAccounts'[j])
      BY <1>0, <2>1, <2>2
    <2>4. UNCHANGED <<proposal, planVars, jointVars>>
      BY <1>6 DEF ReplaceAdmins
    <2> QED BY <2>3, <2>4, TicketsSame
  <1> QED BY <1>1, <1>2, <1>3, <1>4, <1>5, <1>6 DEF Next

\* The invariant holds in every state.
LEMMA TicketsAlways == Spec => [](TicketsInv /\ VerdictInv)
  <1>1. Init => TicketsInv
    BY JointAssumption, EmptyIsMap DEF Init, TicketsInv
  <1>2. TicketsInv /\ VerdictInv /\ [Next]_vars => TicketsInv'
    BY TicketsStep
  <1> QED BY <1>1, <1>2, VerdictAlways, PTL DEF Spec


DecideInv == TicketsInv /\ VerdictInv /\ InstitutionsDecide

\* What the decisions depend on is as before.
LEMMA DecideSame ==
    ASSUME InstitutionsDecide, UNCHANGED jointVars, UNCHANGED InstitutionTicketCount,
           proposal.stage # "none"
    PROVE  InstitutionsDecide'
  BY DEF InstitutionsDecide, jointVars, Tickets

\* A vote decides its institution exactly when its tickets do.
LEMMA DecideVote ==
    ASSUME DecideInv, TicketsInv', proposal'.stage # "none",
           NEW a \in Account, NEW role \in VoterSubject, NEW approve \in BOOLEAN,
           CastAdmin(a, role, approve)
    PROVE  InstitutionsDecide'
  <1> DEFINE i == role[1]
             yes(j) == Cardinality(Tickets(j, TRUE))
             no(j) == Cardinality(Tickets(j, FALSE))
             tally == Count(JointInstitutionTallies[i], approve, 1)
             tc == InstitutionTicketCount[i]
  <1>0. i \in Institution /\ Threshold[i] \in Nat
    BY JointAssumption
  <1>1. /\ proposal.stage = "joint" /\ i \notin DOMAIN JointVotesByInstitution
        /\ <<role, Resolve(i, a)>> \notin DOMAIN JointVotesByTicket
        /\ JointVotesByTicket' = Insert(JointVotesByTicket, <<role, Resolve(i, a)>>,
                                    [approve |-> approve, signer |-> SignerOf(i, a)])
        /\ JointInstitutionTallies' = [JointInstitutionTallies EXCEPT ![i] = tally]
        /\ UNCHANGED InstitutionTicketCount
    BY DEF CastAdmin, Open, planVars
  <1>2. /\ \A j \in Institution : yes(j) \in Nat /\ no(j) \in Nat /\ InstitutionTicketCount[j] \in Nat
        /\ \A j \in Institution : JointInstitutionTallies[j] = [yes |-> yes(j), no |-> no(j)]
    BY <1>1, TicketsBounded DEF DecideInv, InstitutionsDecide, TicketsFit
  <1>3. /\ approve => yes(i)' = yes(i) + 1 /\ no(i)' = no(i)
        /\ ~approve => yes(i)' = yes(i) /\ no(i)' = no(i) + 1
        /\ \A j \in Institution \ {i} : yes(j)' = yes(j) /\ no(j)' = no(j)
    <2> DEFINE v == [approve |-> approve, signer |-> SignerOf(i, a)]
               acc == Resolve(i, a)
    <2>1. v.approve = approve /\ proposal.stage # "none" /\ TicketsInv
          /\ JointVotesByTicket' = Insert(JointVotesByTicket, <<role, acc>>, v)
          /\ <<role, acc>> \notin DOMAIN JointVotesByTicket
      BY <1>1 DEF DecideInv
    <2> HIDE DEF v, acc
    <2>2. ASSUME NEW j \in Institution, NEW side \in BOOLEAN
          PROVE  /\ j = role[1] /\ side = approve =>
                       Cardinality(Tickets(j, side)') = Cardinality(Tickets(j, side)) + 1
                 /\ ~(j = role[1] /\ side = approve) =>
                       Cardinality(Tickets(j, side)') = Cardinality(Tickets(j, side))
      BY <2>1, TicketsAdded
    <2> QED BY <1>0, <2>2
  <1>4. yes(i)' + no(i)' =< tc /\ yes(i)' \in Nat /\ no(i)' \in Nat /\ tc \in Nat
    <2>1. TicketsFit'
      BY TicketsBounded, PTL
    <2> QED BY <1>0, <1>1, <2>1 DEF TicketsFit
  <1>5. tally = [yes |-> yes(i)', no |-> no(i)']
    <2>1. JointInstitutionTallies[i] = [yes |-> yes(i), no |-> no(i)]
      BY <1>0, <1>2
    <2> HIDE DEF yes, no
    <2>2. CASE approve
      BY <1>3, <2>1, <2>2 DEF Count
    <2>3. CASE ~approve
      BY <1>3, <2>1, <2>3 DEF Count
    <2> QED BY <2>2, <2>3
  <1>6. \A j \in Institution : JointInstitutionTallies'[j] = [yes |-> yes(j)', no |-> no(j)']
    BY <1>0, <1>1, <1>2, <1>3, <1>5 DEF DecideInv, TicketsInv
  <1>7. \/ tally.yes >= Threshold[i]
           /\ JointVotesByInstitution' = Insert(JointVotesByInstitution, i, TRUE)
        \/ tally.yes < Threshold[i] /\ Hopeless(tally, tc, Threshold[i])
           /\ JointVotesByInstitution' = Insert(JointVotesByInstitution, i, FALSE)
        \/ tally.yes < Threshold[i] /\ ~Hopeless(tally, tc, Threshold[i])
           /\ UNCHANGED JointVotesByInstitution
    <2>1. tally.yes \in Nat
      <3> HIDE DEF tally, yes, no
      <3> QED BY <1>4, <1>5
    <2> HIDE DEF tally, tc
    <2>2. tally.yes >= Threshold[i] \/ tally.yes < Threshold[i]
      BY <1>0, <2>1
    <2> QED BY <2>2 DEF CastAdmin, FinalizeInstitution, tally, tc
  <1> DEFINE dec(j) == j \in DOMAIN JointVotesByInstitution
             y == yes(i)'
             z == no(i)'
  <1>8. Hopeless(tally, tc, Threshold[i]) <=> tc - z < Threshold[i]
    <2>1. tally.yes = y /\ tally.no = z /\ y \in Nat /\ z \in Nat /\ tc \in Nat
      <3> HIDE DEF tally, yes, no
      <3> QED BY <1>4, <1>5
    <2> HIDE DEF y, z, tc, tally
    <2> QED BY <1>0, <2>1 DEF Hopeless
  <1>9. y + z > 0 /\ tally.yes = y
    <2>1. yes(i) \in Nat /\ no(i) \in Nat
      BY <1>0, <1>2
    <2> HIDE DEF yes, no
    <2> QED BY <1>3, <1>5, <2>1
  <1>10. /\ (dec(i) /\ JointVotesByInstitution[i])' <=> y >= Threshold[i]
         /\ (dec(i) /\ ~JointVotesByInstitution[i])' <=> (y + z > 0 /\ tc - z < Threshold[i])
    <2>1. y + z =< tc /\ y \in Nat /\ z \in Nat /\ tc \in Nat
      BY <1>4
    <2> DEFINE hopeless == Hopeless(tally, tc, Threshold[i])
               enough == y >= Threshold[i]
    <2>2. hopeless <=> tc - z < Threshold[i]
      BY <1>8
    <2>3. ~(enough /\ hopeless) /\ (tally.yes >= Threshold[i] <=> enough)
          /\ (tally.yes < Threshold[i] <=> ~enough)
      <3> HIDE DEF y, z, tc, hopeless, tally
      <3> QED BY <1>0, <1>9, <2>1, <2>2
    <2>4. \/ enough /\ dec(i)' /\ JointVotesByInstitution'[i]
          \/ ~enough /\ hopeless /\ dec(i)' /\ ~JointVotesByInstitution'[i]
          \/ ~enough /\ ~hopeless /\ ~dec(i)'
      <3> HIDE DEF y, z, tc, tally
      <3> QED BY <1>1, <1>7, <2>3 DEF Insert, hopeless
    <2> HIDE DEF y, z, tc, hopeless, enough
    <2>5. /\ (dec(i) /\ JointVotesByInstitution[i])' <=> enough
          /\ (dec(i) /\ ~JointVotesByInstitution[i])' <=> hopeless
      BY <2>3, <2>4
    <2> QED BY <1>9, <2>2, <2>5 DEF enough
  <1>11. ASSUME NEW j \in Institution, j # i
         PROVE  /\ dec(j)' <=> dec(j)
                /\ dec(j) => JointVotesByInstitution'[j] = JointVotesByInstitution[j]
    BY <1>7, <1>11 DEF Insert
  <1>12. ASSUME NEW j \in Institution
         PROVE  /\ (dec(j) /\ JointVotesByInstitution[j])' <=> yes(j)' >= Threshold[j]
                /\ (dec(j) /\ ~JointVotesByInstitution[j])'
                     <=> (yes(j)' + no(j)' > 0
                          /\ InstitutionTicketCount'[j] - no(j)' < Threshold[j])
    <2>1. CASE j = i
      BY <1>1, <1>10, <2>1
    <2>2. CASE j # i
      <3>1. /\ (dec(j) /\ JointVotesByInstitution[j]) <=> yes(j) >= Threshold[j]
            /\ (dec(j) /\ ~JointVotesByInstitution[j])
                 <=> (yes(j) + no(j) > 0 /\ InstitutionTicketCount[j] - no(j) < Threshold[j])
        BY <1>1 DEF DecideInv, InstitutionsDecide
      <3>2. yes(j)' = yes(j) /\ no(j)' = no(j) /\ UNCHANGED InstitutionTicketCount
        BY <1>1, <1>3, <2>2
      <3> HIDE DEF yes, no
      <3> QED BY <1>11, <2>2, <3>1, <3>2
    <2> QED BY <2>1, <2>2
  <1> QED BY <1>6, <1>12 DEF InstitutionsDecide


\* Every step keeps the decisions right.
LEMMA DecideStep ==
    ASSUME DecideInv, TicketsInv', [Next]_vars
    PROVE  InstitutionsDecide'
  <1> USE DEF planVars
  <1>0. proposal \in Proposal
    BY DEF DecideInv, VerdictInv
  <1>1. ASSUME NEW i \in Institution, NEW a \in Account, CreateJointProposal(i, a)
        PROVE  InstitutionsDecide'
    <2>1. /\ JointVotesByTicket' = EmptyMap /\ JointVotesByInstitution' = EmptyMap
          /\ JointInstitutionTallies' = [j \in Institution |-> NoTally]
      BY <1>1 DEF CreateJointProposal, jointVars, DecideInv, TicketsInv
    <2>2. proposal'.stage = "joint"
      BY <1>1 DEF CreateJointProposal
    <2>3. TicketsFit'
      BY TicketsBounded, PTL
    <2>4. ASSUME NEW j \in Institution
          PROVE  Cardinality(Tickets(j, TRUE)') = 0 /\ Cardinality(Tickets(j, FALSE)') = 0
      <3>1. Tickets(j, TRUE)' = {} /\ Tickets(j, FALSE)' = {}
        BY <2>1 DEF Tickets, EmptyMap
      <3> QED BY <3>1, FS_EmptySet
    <2>5. DOMAIN JointVotesByInstitution' = {}
      BY <2>1 DEF EmptyMap
    <2>6. ASSUME NEW j \in Institution
          PROVE  JointInstitutionTallies'[j] = [yes |-> 0, no |-> 0] /\ ~(0 >= Threshold[j])
      BY <2>1, JointAssumption DEF NoTally
    <2> DEFINE yes(j) == Cardinality(Tickets(j, TRUE))
               no(j) == Cardinality(Tickets(j, FALSE))
    <2>7. ASSUME NEW j \in Institution
          PROVE  /\ JointInstitutionTallies'[j] = [yes |-> yes(j)', no |-> no(j)']
                 /\ j \notin DOMAIN JointVotesByInstitution'
                 /\ ~(yes(j)' >= Threshold[j]) /\ ~(yes(j)' + no(j)' > 0)
      <3>1. yes(j)' = 0 /\ no(j)' = 0
        BY <2>4
      <3> HIDE DEF yes, no
      <3> QED BY <2>5, <2>6, <3>1
    <2> QED BY <2>7 DEF InstitutionsDecide
  <1>2. ASSUME NEW a \in Account, NEW role \in VoterSubject, NEW approve \in BOOLEAN,
               CastAdmin(a, role, approve)
        PROVE  InstitutionsDecide'
    <2>1. SetStatus("passed") \/ AdvanceToReferendum \/ UNCHANGED proposal
      BY <1>2 DEF CastAdmin, FinalizeInstitution, AfterInstitution
    <2>2. proposal.stage = "joint"
      BY <1>2 DEF CastAdmin, Open
    <2>3. proposal'.stage # "none"
      BY <1>0, <2>1, <2>2 DEF SetStatus, AdvanceToReferendum, Proposal
    <2> QED BY <1>2, <2>3, DecideVote
  <1>3. CASE \/ JointTimeout \/ ReferendumTimeout \/ NextBlock
             \/ \E a \in Account, approve \in BOOLEAN : CastReferendum(a, approve)
    <2>1. proposal.stage # "none" /\ UNCHANGED <<jointVars, planVars>>
      BY <1>3 DEF JointTimeout, ReferendumTimeout, NextBlock, CastReferendum, Open
    <2> QED BY <2>1, DecideSame DEF DecideInv
  <1>4. CASE \/ \E c \in Cid, a \in Account : Rebind(c, a)
             \/ \E c \in Cid : Revoke(c)
             \/ \E i \in Institution : ProposeAdminChange(i) \/ ReplaceAdmins(i)
             \/ UNCHANGED vars
    <2>1. UNCHANGED <<proposal, jointVars, planVars>>
      BY <1>4 DEF Rebind, Revoke, ProposeAdminChange, ReplaceAdmins, vars
    <2>2. CASE proposal.stage # "none"
      BY <2>1, <2>2, DecideSame DEF DecideInv
    <2>3. CASE proposal.stage = "none"
      BY <2>1, <2>3 DEF InstitutionsDecide
    <2> QED BY <2>2, <2>3
  <1> QED BY <1>1, <1>2, <1>3, <1>4 DEF Next

\* An institution has decided exactly when its tickets settle the matter, for any number of
\* roles, admins and tickets: those counted are the ones cast, and those not cast could not
\* change the decision (do_joint_vote).
THEOREM DecisionsFollowTickets == Spec => []InstitutionsDecide
  <1>1. Init => InstitutionsDecide
    BY DEF Init, InstitutionsDecide
  <1>2. DecideInv /\ TicketsInv' /\ [Next]_vars => InstitutionsDecide'
    BY DecideStep
  <1> QED BY <1>1, <1>2, TicketsAlways, PTL DEF Spec, DecideInv

-------------------------------------------------------------------------------
(* Unanimity.  The weight in favour is that of the institutions in favour, so *)
(* it reaches the threshold only with all of them.                            *)

WeightOf(S) == SumFunctionOnSet(Weight, S)

\* Before the referendum no institution has decided against, and the proposal has passed
\* when all have decided.
UnanimousInv ==
    proposal.stage = "joint" =>
        /\ \A i \in DOMAIN JointVotesByInstitution : JointVotesByInstitution[i]
        /\ JointTallies = [yes |-> WeightOf(DOMAIN JointVotesByInstitution), no |-> 0]
        /\ proposal.status # "rejected"
        /\ proposal.status = "passed" <=> DOMAIN JointVotesByInstitution = Institution

\* Only all institutions together have the weight that passes.
LEMMA AllOrBelow ==
    ASSUME NEW S \in SUBSET Institution
    PROVE  WeightOf(S) \in Nat /\ (WeightOf(S) >= PassThreshold <=> S = Institution)
  <1>1. IsFiniteSet(Institution) /\ IsFiniteSet(S) /\ PassThreshold = WeightOf(Institution)
    BY JointAssumption, FS_Subset DEF WeightOf
  <1>2. \A i \in Institution : Weight[i] \in Nat \ {0}
    BY JointAssumption
  <1>3. WeightOf(S) \in Nat /\ PassThreshold \in Nat
    BY <1>1, <1>2, SumType DEF WeightOf
  <1>4. ASSUME NEW e \in Institution, e \notin S PROVE WeightOf(S) < PassThreshold
    <2>1. WeightOf(S) + Weight[e] =< PassThreshold
      BY <1>1, <1>2, <1>4, SumPart DEF WeightOf
    <2>2. Weight[e] \in Nat \ {0}
      BY <1>2
    <2> QED BY <1>3, <2>1, <2>2
  <1>5. CASE S = Institution
    BY <1>1, <1>3, <1>5
  <1>6. CASE S # Institution
    BY <1>3, <1>4, <1>6
  <1> QED BY <1>5, <1>6, <1>3

\* Every step keeps it.
LEMMA UnanimousStep ==
    ASSUME UnanimousInv, TicketsInv, VerdictInv, [Next]_vars
    PROVE  UnanimousInv'
  <1>0. proposal \in Proposal
    BY DEF VerdictInv
  <1>1. ASSUME NEW i \in Institution, NEW a \in Account, CreateJointProposal(i, a)
        PROVE  UnanimousInv'
    <2>1. JointVotesByInstitution' = EmptyMap /\ JointTallies' = NoTally
      BY <1>1 DEF CreateJointProposal, jointVars, TicketsInv
    <2>2. proposal'.stage = "joint" /\ proposal'.status = "voting"
      BY <1>1 DEF CreateJointProposal
    <2>3. WeightOf({}) = 0
      BY FS_EmptySet, SumStep DEF WeightOf
    <2>4. DOMAIN JointVotesByInstitution' = {}
      BY <2>1 DEF EmptyMap
    <2> QED BY <2>1, <2>2, <2>3, <2>4 DEF UnanimousInv, NoTally
  <1>2. ASSUME NEW a \in Account, NEW role \in VoterSubject, NEW approve \in BOOLEAN,
               CastAdmin(a, role, approve)
        PROVE  UnanimousInv'
    <2> DEFINE i == role[1]
               D == DOMAIN JointVotesByInstitution
    <2>0. i \in Institution /\ D \in SUBSET Institution /\ Weight[i] \in Nat \ {0}
      BY JointAssumption DEF TicketsInv, IsMap
    <2>1. /\ proposal.stage = "joint" /\ proposal.status = "voting" /\ i \notin D
          /\ \A j \in D : JointVotesByInstitution[j]
          /\ JointTallies = [yes |-> WeightOf(D), no |-> 0]
          /\ D # Institution
      BY <1>2 DEF CastAdmin, Open, UnanimousInv
    <2>2. \/ FinalizeInstitution(i, TRUE)
          \/ FinalizeInstitution(i, FALSE)
          \/ UNCHANGED <<JointVotesByInstitution, JointTallies, proposal>>
      BY <1>2 DEF CastAdmin
    <2>3. CASE UNCHANGED <<JointVotesByInstitution, JointTallies, proposal>>
      BY <2>3 DEF UnanimousInv
    <2>4. CASE FinalizeInstitution(i, FALSE)
      <3>1. AdvanceToReferendum
        BY <2>4 DEF FinalizeInstitution, AfterInstitution
      <3>2. proposal'.stage = "referendum"
        BY <1>0, <3>1 DEF AdvanceToReferendum, Proposal
      <3> QED BY <3>2 DEF UnanimousInv
    <2>5. CASE FinalizeInstitution(i, TRUE)
      <3> DEFINE E == D \cup {i}
      <3>1. /\ JointVotesByInstitution' = Insert(JointVotesByInstitution, i, TRUE)
            /\ JointTallies' = Count(JointTallies, TRUE, Weight[i])
            /\ AfterInstitution(TRUE, JointTallies')
        BY <2>5 DEF FinalizeInstitution
      <3>2. E \in SUBSET Institution /\ DOMAIN JointVotesByInstitution' = E
            /\ \A j \in E : JointVotesByInstitution'[j]
        BY <2>0, <2>1, <3>1 DEF Insert
      <3>3. WeightOf(E) = Weight[i] + WeightOf(D) /\ WeightOf(D) \in Nat
        <4>1. IsFiniteSet(E) /\ \A x \in E : Weight[x] \in Int
          BY <3>2, JointAssumption, FS_Subset
        <4>2. E \ {i} = D
          BY <2>1
        <4>3. WeightOf(E) = Weight[i] + WeightOf(E \ {i})
          BY <4>1, SumElement DEF WeightOf
        <4> QED BY <2>0, <4>2, <4>3, AllOrBelow
      <3> HIDE DEF E
      <3>4. JointTallies' = [yes |-> WeightOf(E), no |-> 0]
        BY <2>0, <2>1, <3>1, <3>3 DEF Count
      <3>5. WeightOf(E) \in Nat /\ (WeightOf(E) >= PassThreshold <=> E = Institution)
        BY <3>2, AllOrBelow
      <3> DEFINE new == JointTallies'
      <3>8. AfterInstitution(TRUE, new)
        BY <3>1
      <3>9. new.yes = WeightOf(E) /\ new.yes + new.no = WeightOf(E)
        BY <3>4, <3>5
      <3> HIDE DEF new
      <3>6. CASE E = Institution
        <4>1. SetStatus("passed")
          BY <3>5, <3>6, <3>8, <3>9 DEF AfterInstitution, IsJointUnanimous
        <4>2. proposal'.stage = "joint" /\ proposal'.status = "passed"
          BY <1>0, <2>1, <4>1 DEF SetStatus, Proposal
        <4> QED BY <3>2, <3>4, <3>6, <4>2 DEF UnanimousInv
      <3>7. CASE E # Institution
        <4>1. UNCHANGED proposal
          BY <3>5, <3>7, <3>8, <3>9 DEF AfterInstitution, IsJointUnanimous
        <4> QED BY <2>1, <3>2, <3>4, <3>7, <4>1 DEF UnanimousInv
      <3> QED BY <3>6, <3>7
    <2> QED BY <2>2, <2>3, <2>4, <2>5
  <1>3. CASE JointTimeout
    <2> DEFINE D == DOMAIN JointVotesByInstitution
    <2>1. /\ proposal.stage = "joint" /\ proposal.status = "voting"
          /\ JointTallies = [yes |-> WeightOf(D), no |-> 0] /\ D # Institution
      BY <1>3 DEF JointTimeout, UnanimousInv
    <2>2. D \in SUBSET Institution
      BY DEF TicketsInv, IsMap
    <2> HIDE DEF D
    <2>3. ~IsJointUnanimous(JointTallies)
      BY <2>1, <2>2, AllOrBelow DEF IsJointUnanimous
    <2>4. proposal'.stage = "referendum"
      BY <1>0, <1>3, <2>3 DEF JointTimeout, AdvanceToReferendum, Proposal
    <2> QED BY <2>4 DEF UnanimousInv
  <1>4. CASE ReferendumTimeout \/ \E a \in Account, approve \in BOOLEAN : CastReferendum(a, approve)
    <2>1. proposal.stage = "referendum"
      BY <1>4 DEF ReferendumTimeout, CastReferendum, Open
    <2>2. UNCHANGED proposal \/ \E st \in {"passed", "rejected"} : SetStatus(st)
      BY <1>4 DEF ReferendumTimeout, CastReferendum
    <2>3. proposal'.stage = "referendum"
      BY <1>0, <2>1, <2>2 DEF SetStatus, Proposal
    <2> QED BY <2>3 DEF UnanimousInv
  <1>5. CASE NextBlock
    <2>1. proposal'.stage = proposal.stage /\ proposal'.status = proposal.status
          /\ UNCHANGED <<JointVotesByInstitution, JointTallies>>
      BY <1>0, <1>5 DEF NextBlock, Proposal, jointVars
    <2> QED BY <2>1 DEF UnanimousInv
  <1>6. CASE \/ \E c \in Cid, a \in Account : Rebind(c, a)
             \/ \E c \in Cid : Revoke(c)
             \/ \E i \in Institution : ProposeAdminChange(i) \/ ReplaceAdmins(i)
             \/ UNCHANGED vars
    <2>1. UNCHANGED <<proposal, JointVotesByInstitution, JointTallies>>
      BY <1>6 DEF Rebind, Revoke, ProposeAdminChange, ReplaceAdmins, vars, jointVars
    <2> QED BY <2>1 DEF UnanimousInv
  <1> QED BY <1>1, <1>2, <1>3, <1>4, <1>5, <1>6 DEF Next

\* The institutions pass a proposal only all together, whatever their weights, and the
\* first rejection or the deadline brings it before the citizens
\* (finalize_joint_institution_vote, do_finalize_joint_timeout).
THEOREM OnlyUnanimous == Spec => []UnanimousOrReferendum
  <1>1. Init => UnanimousInv
    BY DEF Init, UnanimousInv
  <1>2. UnanimousInv /\ TicketsInv /\ VerdictInv /\ [Next]_vars => UnanimousInv'
    BY UnanimousStep
  <1>3. UnanimousInv => UnanimousOrReferendum
    BY DEF UnanimousInv, UnanimousOrReferendum
  <1> QED BY <1>1, <1>2, <1>3, TicketsAlways, PTL DEF Spec
===============================================================================
