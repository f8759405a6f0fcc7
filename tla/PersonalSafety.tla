----------------------------- MODULE PersonalSafety -----------------------------
(***************************************************************************)
(* Proofs about the personal multisig account, for any number of accounts,  *)
(* administrators and proposals: the four pallets never disagree, and the   *)
(* admins of an account are replaced only by their own votes.  A step works *)
(* on one proposal and its account; the lock tells what else may be under   *)
(* way on that account.                                                     *)
(***************************************************************************)
EXTENDS PersonalProperties, StoreLemmas

LiveAs(q, role) == Live(q) /\ ballot[q].role = role

\* The lock a proposal of this role takes (register_data_and_auto_approve).
LockOf(role) ==
    IF role = "PersonalAdminChange" THEN "AdminSetMutationExclusive" ELSE "Regular"

\* The tickets of q and its status, as VotesDecide states it.
Tickets(q) ==
    LET b == ballot[q]
        yes == Cardinality(b.yes)
    IN  /\ b.yes \cap b.no = {}
        /\ b.yes \cup b.no \subseteq b.snapshot
        /\ b.tally = [yes |-> yes, no |-> Cardinality(b.no)]
        /\ HasStatus(q, "VOTING") => yes < b.threshold /\ Reachable(b) >= b.threshold
        /\ HasStatus(q, "REJECTED") /\ now <= Proposals[q].end => Reachable(b) < b.threshold
        /\ Proposals[q].status \in {"PASSED", "EXECUTED", "EXECUTION_FAILED"}
               => yes >= b.threshold

\* Registering and closing need every admin of the snapshot.
Unanimous(q) ==
    ballot[q].role \in {"PersonalCreate", "PersonalClose"}
        => ballot[q].threshold = Cardinality(ballot[q].snapshot)

\* A proposal that may still act holds the lock of its role, any other none.
LockHeld(q) ==
    ProposalMutexBindings[q] =
        IF Live(q) THEN {[subject |-> Proposals[q].subject, kind |-> LockOf(ballot[q].role)]}
        ELSE {}

\* What q has put aside is there exactly as long as q may act.
SetAside(q) ==
    /\ q \in PendingPersonalCreate <=> LiveAs(q, "PersonalCreate")
    /\ q \in DOMAIN PendingPersonalThresholds <=> LiveAs(q, "PersonalCreate")
    /\ q \in DOMAIN PendingPersonalAdminChangeThresholds <=> LiveAs(q, "PersonalAdminChange")

\* The account q acts on is still the one its snapshot was taken of.
Creates(q) ==
    LET s == Proposals[q].subject
    IN  LiveAs(q, "PersonalCreate") =>
          /\ s \in DOMAIN PersonalAccounts /\ PersonalAccounts[s] = "Pending"
          /\ s \in DOMAIN AdminAccounts /\ AdminAccounts[s].status = "Pending"
          /\ AdminAccounts[s].admins = ballot[q].snapshot
          /\ DynamicThreshold(Cardinality(ballot[q].snapshot), PendingPersonalThresholds[q])

Closes(q) ==
    LET s == Proposals[q].subject
    IN  LiveAs(q, "PersonalClose") =>
          /\ s \in DOMAIN PendingCloseProposal /\ PendingCloseProposal[s] = q
          /\ IsActive(s) /\ HasActiveAdmins(s)
          /\ AdminAccounts[s].admins = ballot[q].snapshot

Changes(q) ==
    LET s == Proposals[q].subject
    IN  LiveAs(q, "PersonalAdminChange") =>
          /\ IsActive(s) /\ HasActiveAdmins(s)
          /\ AdminAccounts[s].admins = ballot[q].snapshot
          /\ s \in DOMAIN ActivePersonalThresholds
          /\ ActivePersonalThresholds[s] = ballot[q].threshold
          /\ DynamicThreshold(Cardinality(ballot[q].admins),
                              PendingPersonalAdminChangeThresholds[q])

Backed(q) == Creates(q) /\ Closes(q) /\ Changes(q)

\* All that is said of one proposal.
ProposalFits(q) ==
    /\ Exists(q) => q < NextProposalId /\ Tickets(q) /\ Unanimous(q)
    /\ LockHeld(q)
    /\ SetAside(q)
    /\ Backed(q)

\* All that is said of one account.
AccountFits(s) ==
    /\ s \in DOMAIN PersonalAccounts <=> s \in DOMAIN AdminAccounts
    /\ s \in DOMAIN PersonalAccounts => AdminAccounts[s].status = PersonalAccounts[s]
    /\ s \in DOMAIN ActivePersonalThresholds <=> IsActive(s)
    /\ s \in DOMAIN ActivePersonalThresholds =>
          DynamicThreshold(Cardinality(AdminAccounts[s].admins), ActivePersonalThresholds[s])
    /\ s \in DOMAIN PersonalAccounts /\ PersonalAccounts[s] = "Pending" =>
          \E q \in ProposalId : LiveAs(q, "PersonalCreate") /\ Proposals[q].subject = s
    /\ s \in DOMAIN PendingCloseProposal =>
          /\ LiveAs(PendingCloseProposal[s], "PersonalClose")
          /\ Proposals[PendingCloseProposal[s]].subject = s

\* Two registrations of one address are never under way.
OneCreation ==
    \A q, r \in ProposalId :
        /\ LiveAs(q, "PersonalCreate") /\ LiveAs(r, "PersonalCreate")
        /\ Proposals[q].subject = Proposals[r].subject
        => q = r

\* The inductive invariant, besides TypeOK and MutexInv.
PersonalInv ==
    /\ DOMAIN ballot = DOMAIN Proposals
    /\ \A q \in ProposalId : ProposalFits(q)
    /\ \A s \in Subject : AccountFits(s)
    /\ OneCreation
    /\ reserved = Cardinality(PendingPersonalCreate)

-------------------------------------------------------------------------------
(* Locality: what a step on proposal p and account s leaves as it was.       *)

\* The records of q stay as they are.
KeptProposal(q) ==
    /\ Exists(q)' <=> Exists(q)
    /\ Exists(q) => Proposals'[q] = Proposals[q] /\ ballot'[q] = ballot[q]
    /\ ProposalMutexBindings'[q] = ProposalMutexBindings[q]
    /\ q \in PendingPersonalCreate' <=> q \in PendingPersonalCreate
    /\ q \in DOMAIN PendingPersonalThresholds' <=> q \in DOMAIN PendingPersonalThresholds
    /\ q \in DOMAIN PendingPersonalThresholds =>
          PendingPersonalThresholds'[q] = PendingPersonalThresholds[q]
    /\ q \in DOMAIN PendingPersonalAdminChangeThresholds'
          <=> q \in DOMAIN PendingPersonalAdminChangeThresholds
    /\ q \in DOMAIN PendingPersonalAdminChangeThresholds =>
          PendingPersonalAdminChangeThresholds'[q] = PendingPersonalAdminChangeThresholds[q]

\* The records of account t stay as they are.
KeptAccount(t) ==
    /\ t \in DOMAIN PersonalAccounts' <=> t \in DOMAIN PersonalAccounts
    /\ t \in DOMAIN PersonalAccounts => PersonalAccounts'[t] = PersonalAccounts[t]
    /\ t \in DOMAIN AdminAccounts' <=> t \in DOMAIN AdminAccounts
    /\ t \in DOMAIN AdminAccounts => AdminAccounts'[t] = AdminAccounts[t]
    /\ t \in DOMAIN ActivePersonalThresholds' <=> t \in DOMAIN ActivePersonalThresholds
    /\ t \in DOMAIN ActivePersonalThresholds =>
          ActivePersonalThresholds'[t] = ActivePersonalThresholds[t]
    /\ t \in DOMAIN PendingCloseProposal' <=> t \in DOMAIN PendingCloseProposal
    /\ t \in DOMAIN PendingCloseProposal =>
          PendingCloseProposal'[t] = PendingCloseProposal[t]

\* A kept proposal is as live as before, in the same role.
LEMMA KeptLive ==
    ASSUME NEW q, KeptProposal(q)
    PROVE  /\ Live(q)' <=> Live(q)
           /\ \A role : LiveAs(q, role)' <=> LiveAs(q, role)
           /\ Live(q) => Proposals'[q] = Proposals[q] /\ ballot'[q] = ballot[q]
           /\ \A st : HasStatus(q, st)' <=> HasStatus(q, st)
  <1>1. \A st : HasStatus(q, st)' <=> HasStatus(q, st)
    BY DEF KeptProposal, HasStatus
  <1>2. (Live(q)' <=> Live(q)) /\ (Live(q) => Exists(q))
    BY <1>1 DEF Live, HasStatus
  <1> QED BY <1>1, <1>2 DEF LiveAs, KeptProposal

\* What is said of a kept proposal alone holds on, as blocks pass.
LEMMA KeptFits ==
    ASSUME NEW q \in ProposalId, KeptProposal(q), ProposalFits(q), TypeOK,
           now' \in Nat, now <= now',
           NextProposalId' \in Nat, NextProposalId <= NextProposalId'
    PROVE  /\ Exists(q)' => q < NextProposalId' /\ Tickets(q)' /\ Unanimous(q)'
           /\ LockHeld(q)'
           /\ SetAside(q)'
  <1>1. ASSUME Exists(q)' PROVE q < NextProposalId' /\ Tickets(q)' /\ Unanimous(q)'
    <2>1. /\ Exists(q) /\ Proposals'[q] = Proposals[q] /\ ballot'[q] = ballot[q]
          /\ q < NextProposalId /\ Tickets(q) /\ Unanimous(q)
      BY <1>1 DEF KeptProposal, ProposalFits
    <2>2. q < NextProposalId'
      BY <2>1, IdsAreNat DEF TypeOK
    <2>3. now \in Nat /\ Proposals[q].end \in Nat
      <3>1. Proposals[q] \in ProposalRecord
        BY <2>1, LookupInMap DEF TypeOK, Exists
      <3> QED BY <3>1 DEF TypeOK, ProposalRecord
    <2>4. Tickets(q)'
      BY <2>1, <2>3, KeptLive DEF Tickets, Reachable
    <2> QED BY <2>1, <2>2, <2>4 DEF Unanimous
  <1>2. LockHeld(q)'
    BY KeptLive DEF ProposalFits, LockHeld, KeptProposal
  <1>3. SetAside(q)'
    BY KeptLive DEF ProposalFits, SetAside, KeptProposal
  <1> QED BY <1>1, <1>2, <1>3

\* The proposal acts as before, whatever its tickets.
KeptInRole(q) ==
    /\ Live(q)' <=> Live(q)
    /\ Live(q) => /\ Proposals'[q].subject = Proposals[q].subject
                  /\ ballot'[q].role = ballot[q].role
                  /\ ballot'[q].threshold = ballot[q].threshold
                  /\ ballot'[q].snapshot = ballot[q].snapshot
                  /\ ballot'[q].admins = ballot[q].admins
    /\ ProposalMutexBindings'[q] = ProposalMutexBindings[q]
    /\ q \in PendingPersonalCreate' <=> q \in PendingPersonalCreate
    /\ q \in DOMAIN PendingPersonalThresholds' <=> q \in DOMAIN PendingPersonalThresholds
    /\ q \in DOMAIN PendingPersonalThresholds =>
          PendingPersonalThresholds'[q] = PendingPersonalThresholds[q]
    /\ q \in DOMAIN PendingPersonalAdminChangeThresholds'
          <=> q \in DOMAIN PendingPersonalAdminChangeThresholds
    /\ q \in DOMAIN PendingPersonalAdminChangeThresholds =>
          PendingPersonalAdminChangeThresholds'[q] = PendingPersonalAdminChangeThresholds[q]

\* Such a proposal keeps its lock, what it put aside and what it needs of its
\* account, while that is kept as well.
LEMMA InRoleFits ==
    ASSUME NEW q \in ProposalId, KeptInRole(q), ProposalFits(q),
           Live(q) => KeptAccount(Proposals[q].subject)
    PROVE  LockHeld(q)' /\ SetAside(q)' /\ Backed(q)'
  <1>0. \A role : LiveAs(q, role)' <=> LiveAs(q, role)
    BY DEF KeptInRole, LiveAs
  <1>1. Creates(q)'
    BY <1>0 DEF ProposalFits, Backed, Creates, SetAside, KeptInRole, KeptAccount, LiveAs
  <1>2. Closes(q)'
    BY <1>0 DEF ProposalFits, Backed, Closes, KeptInRole, KeptAccount, IsActive,
           HasActiveAdmins, LiveAs
  <1>3. Changes(q)'
    BY <1>0 DEF ProposalFits, Backed, Changes, SetAside, KeptInRole, KeptAccount, IsActive,
           HasActiveAdmins, LiveAs
  <1>4. LockHeld(q)' /\ SetAside(q)'
    BY <1>0 DEF ProposalFits, LockHeld, SetAside, KeptInRole
  <1> QED BY <1>1, <1>2, <1>3, <1>4 DEF Backed

\* In particular a proposal whose records are kept.
LEMMA KeptBacked ==
    ASSUME NEW q \in ProposalId, KeptProposal(q), ProposalFits(q),
           Live(q) => KeptAccount(Proposals[q].subject)
    PROVE  Backed(q)'
  <1>1. KeptInRole(q)
    BY KeptLive DEF KeptInRole, KeptProposal
  <1> QED BY <1>1, InRoleFits

\* An account that is kept, with the proposals that act on it.
LEMMA KeptAccountFits ==
    ASSUME TypeOK, NEW t \in Subject, KeptAccount(t), AccountFits(t),
           \A q \in ProposalId, role \in {"PersonalCreate", "PersonalClose"} :
              LiveAs(q, role) /\ Proposals[q].subject = t =>
                 LiveAs(q, role)' /\ Proposals'[q].subject = t
    PROVE  AccountFits(t)'
  <1>1. IsActive(t)' <=> IsActive(t)
    BY DEF KeptAccount, IsActive
  <1>2. /\ t \in DOMAIN PersonalAccounts' <=> t \in DOMAIN AdminAccounts'
        /\ t \in DOMAIN PersonalAccounts' => AdminAccounts'[t].status = PersonalAccounts'[t]
        /\ t \in DOMAIN ActivePersonalThresholds' <=> IsActive(t)'
    BY <1>1 DEF KeptAccount, AccountFits
  <1>3. ASSUME t \in DOMAIN ActivePersonalThresholds'
        PROVE  DynamicThreshold(Cardinality(AdminAccounts'[t].admins),
                                ActivePersonalThresholds'[t])
    <2>1. t \in DOMAIN ActivePersonalThresholds /\ t \in DOMAIN AdminAccounts
      BY <1>3 DEF KeptAccount, AccountFits, IsActive
    <2> QED BY <2>1 DEF KeptAccount, AccountFits
  <1>4. ASSUME t \in DOMAIN PersonalAccounts', PersonalAccounts'[t] = "Pending"
        PROVE  \E q \in ProposalId : LiveAs(q, "PersonalCreate")' /\ Proposals'[q].subject = t
    <2>1. PICK q \in ProposalId : LiveAs(q, "PersonalCreate") /\ Proposals[q].subject = t
      BY <1>4 DEF KeptAccount, AccountFits
    <2> QED BY <2>1
  <1>5. ASSUME t \in DOMAIN PendingCloseProposal'
        PROVE  /\ LiveAs(PendingCloseProposal[t], "PersonalClose")'
               /\ Proposals'[PendingCloseProposal[t]].subject = t
               /\ PendingCloseProposal'[t] = PendingCloseProposal[t]
    <2>1. /\ t \in DOMAIN PendingCloseProposal
          /\ PendingCloseProposal'[t] = PendingCloseProposal[t]
      BY <1>5 DEF KeptAccount
    <2>2. PICK q \in ProposalId : q = PendingCloseProposal[t]
      BY <2>1, LookupInMap DEF TypeOK
    <2>3. LiveAs(q, "PersonalClose") /\ Proposals[q].subject = t
      BY <2>1, <2>2 DEF AccountFits
    <2>4. LiveAs(q, "PersonalClose")' /\ Proposals'[q].subject = t
      BY <2>3
    <2>5. PendingCloseProposal'[t] = q
      BY <2>1, <2>2
    <2> QED BY <2>1, <2>2, <2>4, <2>5
  <1> QED BY <1>2, <1>3, <1>4, <1>5 DEF AccountFits

\* Besides p only transfers are under way on account s.
OnlyTransfersBeside(p, s) ==
    \A q \in ProposalId \ {p} : Live(q) /\ Proposals[q].subject = s => ballot[q].role = "General"

\* A step on p and s that keeps all else keeps the invariant, when it leaves p
\* and s in order and either keeps the account or meets only transfers on it.
LEMMA LocalStep ==
    ASSUME TypeOK, PersonalInv, NEW p \in ProposalId, NEW s \in Subject,
           Exists(p) => Proposals[p].subject = s,
           Exists(p)' => Proposals'[p].subject = s,
           now' = now, NextProposalId' \in Nat, NextProposalId <= NextProposalId',
           \A q \in ProposalId \ {p} : KeptProposal(q),
           \A t \in Subject \ {s} : KeptAccount(t),
           ProposalFits(p)', AccountFits(s)',
           KeptAccount(s) \/ OnlyTransfersBeside(p, s),
           LiveAs(p, "PersonalCreate")' =>
              LiveAs(p, "PersonalCreate") \/ OnlyTransfersBeside(p, s),
           DOMAIN ballot' = DOMAIN Proposals',
           reserved' = Cardinality(PendingPersonalCreate')
    PROVE  PersonalInv'
  <1>0. /\ \A q \in ProposalId : ProposalFits(q)
        /\ \A t \in Subject : AccountFits(t)
        /\ now \in Nat /\ NextProposalId \in Nat
    BY DEF PersonalInv, TypeOK
  <1>1. ASSUME NEW q \in ProposalId \ {p} PROVE ProposalFits(q)'
    <2>1. KeptProposal(q) /\ ProposalFits(q)
      BY <1>0
    <2>2. ASSUME Live(q) PROVE Proposals[q].subject \in Subject
      <3>1. Proposals[q] \in ProposalRecord
        BY <2>2, LookupInMap DEF TypeOK, Live, HasStatus, Exists
      <3> QED BY <3>1 DEF ProposalRecord
    <2>3. CASE Live(q) => KeptAccount(Proposals[q].subject)
      <3>1. Backed(q)'
        BY <2>1, <2>3, KeptBacked
      <3> QED BY <1>0, <2>1, <3>1, KeptFits DEF ProposalFits
    <2>4. CASE Live(q) /\ ~KeptAccount(Proposals[q].subject)
      <3>1. Proposals[q].subject = s
        BY <2>2, <2>4
      <3>2. ballot[q].role = "General"
        BY <2>4, <3>1 DEF OnlyTransfersBeside
      <3>3. Backed(q)'
        BY <2>1, <2>4, <3>2, KeptLive DEF Backed, Creates, Closes, Changes, LiveAs
      <3> QED BY <1>0, <2>1, <3>3, KeptFits DEF ProposalFits
    <2> QED BY <2>3, <2>4
  <1>2. ASSUME NEW t \in Subject \ {s} PROVE AccountFits(t)'
    <2>1. \A q \in ProposalId : Live(q) /\ Proposals[q].subject = t => KeptProposal(q)
      BY DEF Live, HasStatus
    <2>2. ASSUME NEW q \in ProposalId, NEW role, LiveAs(q, role), Proposals[q].subject = t
          PROVE  LiveAs(q, role)' /\ Proposals'[q].subject = t
      BY <2>1, <2>2, KeptLive DEF LiveAs
    <2> QED BY <1>0, <2>2, KeptAccountFits
  <1>3. OneCreation'
    <2> SUFFICES ASSUME NEW q \in ProposalId, NEW r \in ProposalId, q # r,
                        LiveAs(q, "PersonalCreate")', LiveAs(r, "PersonalCreate")',
                        Proposals'[q].subject = Proposals'[r].subject
                 PROVE  FALSE
      BY DEF OneCreation
    <2>1. \A u \in {q, r} \ {p} : /\ KeptProposal(u) /\ LiveAs(u, "PersonalCreate")
                                  /\ Proposals'[u] = Proposals[u]
      BY KeptLive DEF LiveAs
    <2>2. CASE p \notin {q, r}
      BY <2>1, <2>2 DEF PersonalInv, OneCreation
    <2>3. ASSUME NEW u \in {q, r}, u # p, p \in {q, r} PROVE FALSE
      <3>1. LiveAs(p, "PersonalCreate")' /\ Proposals'[p].subject = s
        BY <2>3 DEF LiveAs, Live, HasStatus
      <3>2. LiveAs(u, "PersonalCreate") /\ Proposals[u].subject = s
        BY <2>1, <2>3, <3>1
      <3>3. ~OnlyTransfersBeside(p, s)
        BY <2>3, <3>2 DEF OnlyTransfersBeside, LiveAs
      <3>4. LiveAs(p, "PersonalCreate") /\ Proposals[p].subject = s
        BY <3>1, <3>3 DEF LiveAs, Live, HasStatus
      <3> QED BY <2>3, <3>2, <3>4 DEF PersonalInv, OneCreation
    <2> QED BY <2>2, <2>3
  <1> QED BY <1>1, <1>2, <1>3 DEF PersonalInv

-------------------------------------------------------------------------------
(* What may be under way beside a proposal.                                  *)

\* A live proposal is in one of the four roles, on an account that is there for it.
LEMMA RoleOfLive ==
    ASSUME TypeOK, PersonalInv, NEW q \in ProposalId, Live(q)
    PROVE  /\ ballot[q] \in Ballot /\ ballot[q].role \in Role
           /\ Proposals[q] \in ProposalRecord /\ Proposals[q].subject \in Subject
           /\ ballot[q].role = "PersonalCreate" =>
                 /\ ~IsActive(Proposals[q].subject)
                 /\ Proposals[q].subject \in DOMAIN PersonalAccounts
           /\ ballot[q].role \in {"PersonalClose", "PersonalAdminChange"} =>
                 IsActive(Proposals[q].subject)
           /\ ballot[q].role = "PersonalClose" =>
                 /\ Proposals[q].subject \in DOMAIN PendingCloseProposal
                 /\ PendingCloseProposal[Proposals[q].subject] = q
  <1>1. q \in DOMAIN Proposals /\ q \in DOMAIN ballot
    BY DEF Live, HasStatus, Exists, PersonalInv
  <1>2. ballot[q] \in Ballot /\ Proposals[q] \in ProposalRecord
    BY <1>1, LookupInMap DEF TypeOK
  <1>3. ballot[q].role \in Role /\ Proposals[q].subject \in Subject
    BY <1>2 DEF Ballot, ProposalRecord
  <1>4. Backed(q)
    BY DEF PersonalInv, ProposalFits
  <1> QED BY <1>2, <1>3, <1>4 DEF Backed, Creates, Closes, Changes, LiveAs, IsActive

\* The lock keeps an admin change and the other proposals of an account apart.
LEMMA LockExcludes ==
    ASSUME TypeOK, PersonalInv, MutexInv, NEW q \in ProposalId, Live(q), NEW s \in Subject,
           Proposals[q].subject = s
    PROVE  LET owner == InternalProposalMutexes[s].admin_set_mutation_proposal
           IN  IF ballot[q].role = "PersonalAdminChange" THEN owner = q ELSE owner = NoOwner
  <1> DEFINE owner == InternalProposalMutexes[s].admin_set_mutation_proposal
  <1>1. [subject |-> s, kind |-> LockOf(ballot[q].role)] \in ProposalMutexBindings[q]
    BY DEF PersonalInv, ProposalFits, LockHeld
  <1>2. q \in Holders(s, LockOf(ballot[q].role))
    BY <1>1 DEF Holders
  <1>3. /\ Holders(s, "AdminSetMutationExclusive") = (IF owner = NoOwner THEN {} ELSE {owner})
        /\ owner = NoOwner \/ Holders(s, "Regular") = {}
    BY DEF MutexInv, MutexAccounting
  <1> HIDE DEF owner
  <1>4. IF ballot[q].role = "PersonalAdminChange" THEN owner = q ELSE owner = NoOwner
    BY <1>2, <1>3 DEF LockOf
  <1> QED BY <1>4 DEF owner

\* Two live proposals of one account: neither is an admin change.
LEMMA ChangeIsAlone ==
    ASSUME TypeOK, PersonalInv, MutexInv, NEW p \in ProposalId, NEW q \in ProposalId,
           Live(p), Live(q), Proposals[p].subject = Proposals[q].subject, p # q
    PROVE  ballot[q].role # "PersonalAdminChange"
  <1>1. PICK s \in Subject : s = Proposals[q].subject
    BY RoleOfLive
  <1>2. p # NoOwner /\ q # NoOwner
    BY StoreAssumption DEF NoOwner, ProposalId
  <1> QED BY <1>1, <1>2, LockExcludes

\* Beside a registration there are only transfers, left over by an earlier
\* account of the same address.
LEMMA BesideCreate ==
    ASSUME TypeOK, PersonalInv, NEW p \in ProposalId, LiveAs(p, "PersonalCreate")
    PROVE  OnlyTransfersBeside(p, Proposals[p].subject)
  <1> SUFFICES ASSUME NEW q \in ProposalId \ {p}, Live(q),
                      Proposals[q].subject = Proposals[p].subject
               PROVE  ballot[q].role = "General"
    BY DEF OnlyTransfersBeside
  <1>1. ~IsActive(Proposals[p].subject)
    BY RoleOfLive DEF LiveAs
  <1>2. ballot[q].role # "PersonalCreate"
    BY DEF PersonalInv, OneCreation, LiveAs
  <1> QED BY <1>1, <1>2, RoleOfLive DEF Role

\* Beside a closing proposal too.
LEMMA BesideClose ==
    ASSUME TypeOK, PersonalInv, MutexInv, NEW p \in ProposalId, LiveAs(p, "PersonalClose")
    PROVE  OnlyTransfersBeside(p, Proposals[p].subject)
  <1> SUFFICES ASSUME NEW q \in ProposalId \ {p}, Live(q),
                      Proposals[q].subject = Proposals[p].subject
               PROVE  ballot[q].role = "General"
    BY DEF OnlyTransfersBeside
  <1>1. /\ IsActive(Proposals[p].subject)
        /\ PendingCloseProposal[Proposals[p].subject] = p
    BY RoleOfLive DEF LiveAs
  <1>2. ballot[q].role # "PersonalAdminChange"
    BY ChangeIsAlone DEF LiveAs
  <1> QED BY <1>1, <1>2, RoleOfLive DEF Role

\* Beside an admin change there is nothing.
LEMMA BesideChange ==
    ASSUME TypeOK, PersonalInv, MutexInv, NEW p \in ProposalId,
           LiveAs(p, "PersonalAdminChange")
    PROVE  OnlyTransfersBeside(p, Proposals[p].subject)
  BY ChangeIsAlone DEF OnlyTransfersBeside, LiveAs

-------------------------------------------------------------------------------
(* Creating proposals.                                                       *)

\* Sets of administrators are finite.
LEMMA FiniteAdmins ==
    ASSUME NEW A \in SUBSET Admin
    PROVE  IsFiniteSet(A) /\ Cardinality(A) \in Nat
  <1>1. IsFiniteSet(A)
    BY PersonalAssumption, FS_Subset
  <1> QED BY <1>1, FS_CardinalityType

\* ensure_dynamic_threshold excludes a threshold that the proposer reaches alone.
LEMMA ThresholdAboveOne ==
    ASSUME NEW n \in Nat, NEW threshold \in Nat, DynamicThreshold(n, threshold)
    PROVE  2 <= threshold /\ threshold <= n
  BY DEF DynamicThreshold

\* A new proposal is open with its proposer's yes vote and holds its lock.
LEMMA CreateBallotEffect ==
    ASSUME TypeOK, PersonalInv, MutexInv, NEW p \in ProposalId, NEW s \in Subject,
           NEW who \in Admin, NEW role \in Role, NEW snapshot \in SUBSET Admin,
           NEW threshold \in Nat, NEW admins \in SUBSET Admin,
           who \in snapshot, 2 <= threshold, threshold <= Cardinality(snapshot),
           CreateBallot(p, s, who, role, LockOf(role), snapshot, threshold, admins)
    PROVE  /\ ~Exists(p) /\ p < NextProposalId'
           /\ NextProposalId' \in Nat /\ NextProposalId <= NextProposalId'
           /\ MutexTypeOK' /\ MutexInv'
           /\ IsMap(Proposals, ProposalId, ProposalRecord)'
           /\ IsMap(ballot, ProposalId, Ballot)'
           /\ DOMAIN ballot' = DOMAIN Proposals'
           /\ Exists(p)' /\ HasStatus(p, "VOTING")' /\ Live(p)'
           /\ Proposals'[p].subject = s
           /\ ballot'[p].role = role /\ ballot'[p].threshold = threshold
           /\ ballot'[p].snapshot = snapshot /\ ballot'[p].admins = admins
           /\ Tickets(p)' /\ LockHeld(p)'
           /\ \A q \in ProposalId \ {p} :
                 /\ Exists(q)' <=> Exists(q)
                 /\ Exists(q) => Proposals'[q] = Proposals[q] /\ ballot'[q] = ballot[q]
                 /\ ProposalMutexBindings'[q] = ProposalMutexBindings[q]
  <1> DEFINE prop == [kind |-> "internal", stage |-> "internal", subject |-> s,
                      status |-> "VOTING", end |-> now + VotingDuration]
             b == [role |-> role, threshold |-> threshold, snapshot |-> snapshot,
                   yes |-> {who}, no |-> {}, tally |-> [yes |-> 1, no |-> 0],
                   admins |-> admins]
  <1>1. /\ p = NextProposalId /\ NextProposalId \in Nat
        /\ NextProposalId' = NextProposalId + 1
        /\ TryAddActiveProposal(s, p) /\ AcquireMutex(p, s, LockOf(role))
        /\ Proposals' = Insert(Proposals, p, prop) /\ ballot' = Insert(ballot, p, b)
    BY DEF CreateBallot, AllocateProposalId, TypeOK
  <1>2. LockOf(role) \in MutexKind
    BY DEF LockOf, MutexKind
  <1>3. MutexTypeOK /\ MutexTypeOK'
    <2>1. ActiveProposalsBySubject' \in [Subject -> SUBSET ProposalId]
      BY <1>1 DEF TypeOK, MutexTypeOK, TryAddActiveProposal
    <2> QED BY <1>1, <1>2, <2>1, AcquireTypes DEF TypeOK, MutexTypeOK
  <1>4. MutexInv'
    BY <1>1, <1>2, <1>3, AcquireKeepsMutexInv DEF CreateBallot
  <1>5. ~Exists(p)
    BY <1>1 DEF PersonalInv, ProposalFits
  <1>6. prop \in ProposalRecord
    BY StoreAssumption DEF TypeOK, ProposalRecord, Kind, Stage, Status
  <1>7. b \in Ballot
    BY DEF Ballot
  <1>8. /\ IsMap(Proposals, ProposalId, ProposalRecord)'
        /\ IsMap(ballot, ProposalId, Ballot)'
    BY <1>1, <1>6, <1>7, InsertIsMap DEF TypeOK
  <1> HIDE DEF prop, b
  <1>9. /\ Proposals'[p] = prop /\ ballot'[p] = b
        /\ DOMAIN Proposals' = DOMAIN Proposals \cup {p}
        /\ DOMAIN ballot' = DOMAIN ballot \cup {p}
        /\ \A q \in ProposalId \ {p} :
              /\ q \in DOMAIN Proposals => Proposals'[q] = Proposals[q]
              /\ q \in DOMAIN ballot => ballot'[q] = ballot[q]
    BY <1>1 DEF Insert
  <1>10. DOMAIN ballot' = DOMAIN Proposals' /\ DOMAIN ballot = DOMAIN Proposals
    BY <1>9 DEF PersonalInv
  <1>11. /\ Exists(p)' /\ Proposals'[p].status = "VOTING" /\ Proposals'[p].subject = s
         /\ ballot'[p].role = role /\ ballot'[p].threshold = threshold
         /\ ballot'[p].snapshot = snapshot /\ ballot'[p].admins = admins
         /\ ballot'[p].yes = {who} /\ ballot'[p].no = {}
         /\ ballot'[p].tally = [yes |-> 1, no |-> 0]
    BY <1>9 DEF prop, b, Exists
  <1>12. HasStatus(p, "VOTING")' /\ Live(p)'
    BY <1>11 DEF HasStatus, Live
  <1>13. Tickets(p)'
    <2>1. Cardinality({who}) = 1 /\ Cardinality({}) = 0
      BY FS_Singleton, FS_EmptySet
    <2>2. snapshot \ {} = snapshot
      OBVIOUS
    <2>3. 1 < threshold
      OBVIOUS
    <2> QED BY <1>11, <2>1, <2>2, <2>3, FiniteAdmins DEF Tickets, HasStatus, Reachable
  <1>14. ProposalMutexBindings[p] = {} /\ ProposalMutexBindings' =
            [ProposalMutexBindings EXCEPT ![p] = {[subject |-> s, kind |-> LockOf(role)]}]
    <2>1. ProposalMutexBindings[p] = {}
      BY <1>5 DEF PersonalInv, ProposalFits, LockHeld, Live, HasStatus
    <2> QED BY <1>1, <2>1 DEF AcquireMutex
  <1>15. /\ LockHeld(p)'
         /\ \A q \in ProposalId \ {p} : ProposalMutexBindings'[q] = ProposalMutexBindings[q]
    BY <1>3, <1>11, <1>12, <1>14 DEF LockHeld, MutexTypeOK
  <1>16. \A q \in ProposalId \ {p} :
            /\ Exists(q)' <=> Exists(q)
            /\ Exists(q) => Proposals'[q] = Proposals[q] /\ ballot'[q] = ballot[q]
    BY <1>9, <1>10 DEF Exists
  <1>17. p < NextProposalId' /\ NextProposalId' \in Nat /\ NextProposalId <= NextProposalId'
    BY <1>1
  <1> QED BY <1>3, <1>4, <1>5, <1>8, <1>10, <1>11, <1>12, <1>13, <1>15, <1>16, <1>17

\* All that is shown of a step.
Kept == TypeOK' /\ MutexInv' /\ PersonalInv'

\* A closing mark is that of a live closing proposal of an active account.
LEMMA MarkNeedsActive ==
    ASSUME TypeOK, PersonalInv, NEW s \in Subject, s \in DOMAIN PendingCloseProposal
    PROVE  /\ PendingCloseProposal[s] \in ProposalId
           /\ LiveAs(PendingCloseProposal[s], "PersonalClose")
           /\ Proposals[PendingCloseProposal[s]].subject = s
           /\ IsActive(s)
  <1>1. PendingCloseProposal[s] \in ProposalId
    BY LookupInMap DEF TypeOK
  <1>2. /\ LiveAs(PendingCloseProposal[s], "PersonalClose")
        /\ Proposals[PendingCloseProposal[s]].subject = s
    BY DEF PersonalInv, AccountFits
  <1> QED BY <1>1, <1>2, RoleOfLive DEF LiveAs

\* A proposal that does not exist has put nothing aside.
LEMMA NothingAside ==
    ASSUME PersonalInv, NEW p \in ProposalId, ~Live(p)
    PROVE  /\ p \notin PendingPersonalCreate
           /\ p \notin DOMAIN PendingPersonalThresholds
           /\ p \notin DOMAIN PendingPersonalAdminChangeThresholds
  BY DEF PersonalInv, ProposalFits, SetAside, LiveAs

\* What AdminConfigs offers.
LEMMA ConfigTypes ==
    ASSUME NEW config \in AdminConfigs
    PROVE  /\ config[1] \in SUBSET Admin /\ config[2] \in Nat
           /\ DynamicThreshold(Cardinality(config[1]), config[2])
           /\ Cardinality(config[1]) \in Nat /\ 2 <= Cardinality(config[1])
  <1>1. Cardinality(Admin) \in Nat
    BY FiniteAdmins
  <1>2. /\ config[1] \in SUBSET Admin /\ config[2] \in Nat
        /\ DynamicThreshold(Cardinality(config[1]), config[2])
    BY <1>1 DEF AdminConfigs
  <1> QED BY <1>2, FiniteAdmins DEF DynamicThreshold

\* do_propose_create
LEMMA ProposeCreateKeeps ==
    ASSUME TypeOK, MutexInv, PersonalInv, NEW p \in ProposalId, NEW s \in Subject,
           NEW config \in AdminConfigs, ProposeCreate(p, s, config)
    PROVE  Kept
  <1> DEFINE admins == config[1]
  <1>1. /\ admins \in SUBSET Admin /\ config[2] \in Nat
        /\ DynamicThreshold(Cardinality(admins), config[2])
        /\ Cardinality(admins) \in Nat /\ 2 <= Cardinality(admins)
    BY ConfigTypes
  <1> HIDE DEF admins
  <1>2. /\ Creator \in admins
        /\ s \notin DOMAIN PersonalAccounts /\ s \notin DOMAIN AdminAccounts
        /\ CreateBallot(p, s, Creator, "PersonalCreate", LockOf("PersonalCreate"),
                        admins, Cardinality(admins), {})
        /\ reserved' = reserved + 1
        /\ PersonalAccounts' = Insert(PersonalAccounts, s, "Pending")
        /\ AdminAccounts' = Insert(AdminAccounts, s, [status |-> "Pending", admins |-> admins])
        /\ PendingPersonalThresholds' = Insert(PendingPersonalThresholds, p, config[2])
        /\ PendingPersonalCreate' = PendingPersonalCreate \cup {p}
        /\ UNCHANGED <<now, ActivePersonalThresholds, PendingCloseProposal,
                       PendingPersonalAdminChangeThresholds>>
    BY DEF ProposeCreate, admins, LockOf
  <1>3. /\ ~Exists(p) /\ p < NextProposalId'
        /\ NextProposalId' \in Nat /\ NextProposalId <= NextProposalId'
        /\ MutexTypeOK' /\ MutexInv'
        /\ IsMap(Proposals, ProposalId, ProposalRecord)'
        /\ IsMap(ballot, ProposalId, Ballot)'
        /\ DOMAIN ballot' = DOMAIN Proposals'
        /\ Exists(p)' /\ Live(p)' /\ Proposals'[p].subject = s
        /\ ballot'[p].role = "PersonalCreate"
        /\ ballot'[p].threshold = Cardinality(admins) /\ ballot'[p].snapshot = admins
        /\ Tickets(p)' /\ LockHeld(p)'
        /\ \A q \in ProposalId \ {p} :
              /\ Exists(q)' <=> Exists(q)
              /\ Exists(q) => Proposals'[q] = Proposals[q] /\ ballot'[q] = ballot[q]
              /\ ProposalMutexBindings'[q] = ProposalMutexBindings[q]
    <2>1. Creator \in Admin /\ "PersonalCreate" \in Role /\ {} \in SUBSET Admin
      BY PersonalAssumption DEF Role
    <2>2. Cardinality(admins) <= Cardinality(admins)
      BY <1>1
    <2> QED BY <1>1, <1>2, <2>1, <2>2, CreateBallotEffect
  <1>4. ~Live(p)
    BY <1>3 DEF Live, HasStatus
  <1>5. /\ p \notin PendingPersonalCreate
        /\ p \notin DOMAIN PendingPersonalThresholds
        /\ p \notin DOMAIN PendingPersonalAdminChangeThresholds
    BY <1>4, NothingAside
  <1>6. TypeOK'
    <2>1. [status |-> "Pending", admins |-> admins] \in [status : AccountStatus,
                                                         admins : SUBSET Admin]
      BY <1>1 DEF AccountStatus
    <2>2. /\ IsMap(PersonalAccounts, Subject, AccountStatus)'
          /\ IsMap(AdminAccounts, Subject, [status : AccountStatus, admins : SUBSET Admin])'
          /\ IsMap(PendingPersonalThresholds, ProposalId, Nat)'
      BY <1>1, <1>2, <2>1, InsertIsMap DEF TypeOK, AccountStatus
    <2> QED BY <1>2, <1>3, <2>2 DEF TypeOK
  <1>7. reserved' = Cardinality(PendingPersonalCreate')
    <2>1. IsFiniteSet(PendingPersonalCreate)
      BY FiniteIds DEF TypeOK
    <2>2. Cardinality(PendingPersonalCreate \cup {p}) = Cardinality(PendingPersonalCreate) + 1
      BY <1>5, <2>1, FS_AddElement
    <2> QED BY <1>2, <2>2 DEF PersonalInv
  <1>8. ASSUME NEW q \in ProposalId \ {p} PROVE KeptProposal(q)
    BY <1>2, <1>3 DEF KeptProposal, Insert
  <1>9. ASSUME NEW t \in Subject \ {s} PROVE KeptAccount(t)
    BY <1>2 DEF KeptAccount, Insert
  <1>10. /\ s \in DOMAIN PersonalAccounts' /\ PersonalAccounts'[s] = "Pending"
         /\ s \in DOMAIN AdminAccounts' /\ AdminAccounts'[s].status = "Pending"
         /\ AdminAccounts'[s].admins = admins
         /\ p \in DOMAIN PendingPersonalThresholds' /\ PendingPersonalThresholds'[p] = config[2]
    BY <1>2 DEF Insert
  <1>11. ProposalFits(p)'
    <2>1. Unanimous(p)'
      BY <1>3 DEF Unanimous
    <2>2. SetAside(p)'
      BY <1>2, <1>3, <1>5, <1>10 DEF SetAside, LiveAs
    <2>3. Backed(p)'
      BY <1>1, <1>3, <1>10 DEF Backed, Creates, Closes, Changes, LiveAs
    <2> QED BY <1>3, <2>1, <2>2, <2>3 DEF ProposalFits
  <1>12. AccountFits(s)'
    <2>1. ~IsActive(s)' /\ ~IsActive(s)
      BY <1>2, <1>10 DEF IsActive
    <2>2. s \notin DOMAIN ActivePersonalThresholds
      BY <2>1 DEF PersonalInv, AccountFits
    <2>3. s \notin DOMAIN PendingCloseProposal
      BY <2>1, MarkNeedsActive
    <2> QED BY <1>2, <1>3, <1>10, <2>1, <2>2, <2>3 DEF AccountFits, LiveAs
  <1>13. OnlyTransfersBeside(p, s)
    BY <1>2, RoleOfLive DEF OnlyTransfersBeside, Role, IsActive
  <1>14. PersonalInv'
    BY <1>2, <1>3, <1>7, <1>8, <1>9, <1>11, <1>12, <1>13, LocalStep
  <1> QED BY <1>3, <1>6, <1>14 DEF Kept

\* An account whose admins are active is active and has a threshold.
LEMMA ActiveAccount ==
    ASSUME TypeOK, PersonalInv, NEW s \in Subject, HasActiveAdmins(s) \/ IsActive(s)
    PROVE  /\ IsActive(s) /\ HasActiveAdmins(s) /\ s \in DOMAIN ActivePersonalThresholds
           /\ AdminAccounts[s].admins \in SUBSET Admin
           /\ Cardinality(AdminAccounts[s].admins) \in Nat
           /\ 2 <= Cardinality(AdminAccounts[s].admins)
           /\ ActivePersonalThresholds[s] \in Nat /\ 2 <= ActivePersonalThresholds[s]
           /\ ActivePersonalThresholds[s] <= Cardinality(AdminAccounts[s].admins)
  <1>1. /\ IsActive(s) /\ HasActiveAdmins(s) /\ s \in DOMAIN ActivePersonalThresholds
        /\ DynamicThreshold(Cardinality(AdminAccounts[s].admins), ActivePersonalThresholds[s])
    BY DEF PersonalInv, AccountFits, HasActiveAdmins, IsActive
  <1>2. /\ AdminAccounts[s] \in [status : AccountStatus, admins : SUBSET Admin]
        /\ ActivePersonalThresholds[s] \in Nat
    BY <1>1 DEF TypeOK, HasActiveAdmins, IsMap
  <1>3. Cardinality(AdminAccounts[s].admins) \in Nat
    BY <1>2, FiniteAdmins
  <1> QED BY <1>1, <1>2, <1>3, ThresholdAboveOne DEF DynamicThreshold

\* do_propose_close
LEMMA ProposeCloseKeeps ==
    ASSUME TypeOK, MutexInv, PersonalInv, NEW p \in ProposalId, NEW s \in Subject,
           NEW who \in Admin, ProposeClose(p, s, who)
    PROVE  Kept
  <1> DEFINE admins == AdminAccounts[s].admins
  <1>1. /\ IsActive(s) /\ HasActiveAdmins(s) /\ who \in admins
        /\ s \notin DOMAIN PendingCloseProposal
        /\ CreateBallot(p, s, who, "PersonalClose", LockOf("PersonalClose"),
                        admins, Cardinality(admins), {})
        /\ PendingCloseProposal' = Insert(PendingCloseProposal, s, p)
        /\ UNCHANGED <<now, PersonalAccounts, AdminAccounts, ActivePersonalThresholds,
                       PendingPersonalThresholds, PendingPersonalAdminChangeThresholds,
                       PendingPersonalCreate, reserved>>
    BY DEF ProposeClose, IsPersonalAdmin, LockOf
  <1>2. /\ admins \in SUBSET Admin /\ Cardinality(admins) \in Nat
        /\ 2 <= Cardinality(admins) /\ s \in DOMAIN ActivePersonalThresholds
    BY <1>1, ActiveAccount
  <1>3. /\ ~Exists(p) /\ p < NextProposalId'
        /\ NextProposalId' \in Nat /\ NextProposalId <= NextProposalId'
        /\ MutexTypeOK' /\ MutexInv'
        /\ IsMap(Proposals, ProposalId, ProposalRecord)'
        /\ IsMap(ballot, ProposalId, Ballot)'
        /\ DOMAIN ballot' = DOMAIN Proposals'
        /\ Exists(p)' /\ Live(p)' /\ Proposals'[p].subject = s
        /\ ballot'[p].role = "PersonalClose"
        /\ ballot'[p].threshold = Cardinality(admins) /\ ballot'[p].snapshot = admins
        /\ Tickets(p)' /\ LockHeld(p)'
        /\ \A q \in ProposalId \ {p} :
              /\ Exists(q)' <=> Exists(q)
              /\ Exists(q) => Proposals'[q] = Proposals[q] /\ ballot'[q] = ballot[q]
              /\ ProposalMutexBindings'[q] = ProposalMutexBindings[q]
    <2>1. "PersonalClose" \in Role /\ {} \in SUBSET Admin
      BY DEF Role
    <2>2. Cardinality(admins) <= Cardinality(admins)
      BY <1>2
    <2> HIDE DEF admins
    <2> QED BY <1>1, <1>2, <2>1, <2>2, CreateBallotEffect
  <1>4. /\ p \notin PendingPersonalCreate
        /\ p \notin DOMAIN PendingPersonalThresholds
        /\ p \notin DOMAIN PendingPersonalAdminChangeThresholds
    BY <1>3, NothingAside DEF Live, HasStatus
  <1>5. TypeOK'
    <2>1. IsMap(PendingCloseProposal, Subject, ProposalId)'
      BY <1>1, InsertIsMap DEF TypeOK
    <2> QED BY <1>1, <1>3, <2>1 DEF TypeOK
  <1>6. ASSUME NEW q \in ProposalId \ {p} PROVE KeptProposal(q)
    BY <1>1, <1>3 DEF KeptProposal
  <1>7. ASSUME NEW t \in Subject \ {s} PROVE KeptAccount(t)
    BY <1>1 DEF KeptAccount, Insert
  <1>8. /\ s \in DOMAIN PendingCloseProposal' /\ PendingCloseProposal'[s] = p
        /\ IsActive(s)' /\ HasActiveAdmins(s)' /\ AdminAccounts'[s].admins = admins
    BY <1>1 DEF Insert, IsActive, HasActiveAdmins
  <1>9. ProposalFits(p)'
    <2>1. Unanimous(p)'
      BY <1>3 DEF Unanimous
    <2>2. SetAside(p)'
      BY <1>1, <1>3, <1>4 DEF SetAside, LiveAs
    <2>3. Backed(p)'
      BY <1>3, <1>8 DEF Backed, Creates, Closes, Changes, LiveAs
    <2> QED BY <1>3, <2>1, <2>2, <2>3 DEF ProposalFits
  <1>10. AccountFits(s)'
    <2>1. /\ s \in DOMAIN PersonalAccounts /\ PersonalAccounts[s] = "Active"
          /\ AccountFits(s)
      BY <1>1 DEF IsActive, PersonalInv
    <2> QED BY <1>1, <1>3, <1>8, <2>1 DEF AccountFits, LiveAs
  <1>11. OnlyTransfersBeside(p, s)
    <2> SUFFICES ASSUME NEW q \in ProposalId \ {p}, Live(q), Proposals[q].subject = s
                 PROVE  ballot[q].role = "General"
      BY DEF OnlyTransfersBeside
    <2>1. InternalProposalMutexes[s].admin_set_mutation_proposal = NoOwner
      BY <1>1 DEF CreateBallot, AcquireMutex, CanAcquire
    <2>2. q # NoOwner
      BY StoreAssumption DEF NoOwner, ProposalId
    <2>3. ballot[q].role # "PersonalAdminChange"
      BY <2>1, <2>2, LockExcludes
    <2> QED BY <1>1, <2>3, RoleOfLive DEF Role
  <1>12. reserved' = Cardinality(PendingPersonalCreate')
    BY <1>1 DEF PersonalInv
  <1>13. PersonalInv'
    BY <1>1, <1>3, <1>6, <1>7, <1>9, <1>10, <1>11, <1>12, LocalStep
  <1> QED BY <1>3, <1>5, <1>13 DEF Kept

\* propose_transfer and propose_admin_set_change, decided by the account's threshold.
LEMMA ProposeByThresholdKeeps ==
    ASSUME TypeOK, MutexInv, PersonalInv, NEW p \in ProposalId, NEW s \in Subject,
           NEW who \in Admin,
           \/ ProposeTransfer(p, s, who)
           \/ \E config \in AdminConfigs : ProposeAdminSetChange(p, s, who, config)
    PROVE  Kept
  <1> DEFINE admins == AdminAccounts[s].admins
             threshold == ActivePersonalThresholds[s]
  <1>1. PICK role \in {"General", "PersonalAdminChange"}, new \in SUBSET Admin, n \in Nat :
          /\ CreateByThreshold(p, s, who, role, LockOf(role), new)
          /\ IF role = "General" THEN UNCHANGED PendingPersonalAdminChangeThresholds
             ELSE /\ DynamicThreshold(Cardinality(new), n)
                  /\ PendingPersonalAdminChangeThresholds' =
                       Insert(PendingPersonalAdminChangeThresholds, p, n)
    <2>1. CASE ProposeTransfer(p, s, who)
      <3>1. CreateByThreshold(p, s, who, "General", LockOf("General"), {})
        BY <2>1 DEF ProposeTransfer, LockOf
      <3>2. UNCHANGED PendingPersonalAdminChangeThresholds /\ {} \in SUBSET Admin /\ 0 \in Nat
        BY <2>1 DEF ProposeTransfer, accountVars
      <3> QED BY <3>1, <3>2
    <2>2. ASSUME NEW config \in AdminConfigs, ProposeAdminSetChange(p, s, who, config)
          PROVE  /\ CreateByThreshold(p, s, who, "PersonalAdminChange",
                                      LockOf("PersonalAdminChange"), config[1])
                 /\ PendingPersonalAdminChangeThresholds' =
                       Insert(PendingPersonalAdminChangeThresholds, p, config[2])
                 /\ config[1] \in SUBSET Admin /\ config[2] \in Nat
                 /\ DynamicThreshold(Cardinality(config[1]), config[2])
      BY <2>2, ConfigTypes DEF ProposeAdminSetChange, LockOf
    <2> QED BY <2>1, <2>2
  <1>2. UNCHANGED <<now, PersonalAccounts, AdminAccounts, ActivePersonalThresholds,
                    PendingPersonalThresholds, PendingCloseProposal,
                    PendingPersonalCreate, reserved>>
    BY DEF ProposeTransfer, ProposeAdminSetChange, accountVars
  <1>3. /\ HasActiveAdmins(s) /\ who \in admins
        /\ CreateBallot(p, s, who, role, LockOf(role), admins, threshold, new)
    BY <1>1 DEF CreateByThreshold, IsPersonalAdmin
  <1>4. /\ IsActive(s) /\ s \in DOMAIN ActivePersonalThresholds
        /\ admins \in SUBSET Admin /\ threshold \in Nat
        /\ 2 <= threshold /\ threshold <= Cardinality(admins)
    BY <1>3, ActiveAccount
  <1>5. /\ ~Exists(p) /\ p < NextProposalId'
        /\ NextProposalId' \in Nat /\ NextProposalId <= NextProposalId'
        /\ MutexTypeOK' /\ MutexInv'
        /\ IsMap(Proposals, ProposalId, ProposalRecord)'
        /\ IsMap(ballot, ProposalId, Ballot)'
        /\ DOMAIN ballot' = DOMAIN Proposals'
        /\ Exists(p)' /\ Live(p)' /\ Proposals'[p].subject = s
        /\ ballot'[p].role = role
        /\ ballot'[p].threshold = threshold /\ ballot'[p].snapshot = admins
        /\ ballot'[p].admins = new
        /\ Tickets(p)' /\ LockHeld(p)'
        /\ \A q \in ProposalId \ {p} :
              /\ Exists(q)' <=> Exists(q)
              /\ Exists(q) => Proposals'[q] = Proposals[q] /\ ballot'[q] = ballot[q]
              /\ ProposalMutexBindings'[q] = ProposalMutexBindings[q]
    <2>1. role \in Role
      BY DEF Role
    <2> HIDE DEF admins, threshold
    <2> QED BY <1>1, <1>3, <1>4, <2>1, CreateBallotEffect
  <1>6. /\ p \notin PendingPersonalCreate
        /\ p \notin DOMAIN PendingPersonalThresholds
        /\ p \notin DOMAIN PendingPersonalAdminChangeThresholds
    BY <1>5, NothingAside DEF Live, HasStatus
  <1>7. TypeOK'
    <2>1. IsMap(PendingPersonalAdminChangeThresholds, ProposalId, Nat)'
      BY <1>1, InsertIsMap DEF TypeOK
    <2> QED BY <1>2, <1>5, <2>1 DEF TypeOK
  <1>8. /\ \A q \in ProposalId \ {p} :
              /\ q \in DOMAIN PendingPersonalAdminChangeThresholds'
                    <=> q \in DOMAIN PendingPersonalAdminChangeThresholds
              /\ q \in DOMAIN PendingPersonalAdminChangeThresholds =>
                    PendingPersonalAdminChangeThresholds'[q]
                       = PendingPersonalAdminChangeThresholds[q]
        /\ p \in DOMAIN PendingPersonalAdminChangeThresholds'
              <=> role = "PersonalAdminChange"
        /\ role = "PersonalAdminChange" =>
              DynamicThreshold(Cardinality(new), PendingPersonalAdminChangeThresholds'[p])
    BY <1>1, <1>6 DEF Insert
  <1>9. ASSUME NEW q \in ProposalId \ {p} PROVE KeptProposal(q)
    BY <1>2, <1>5, <1>8 DEF KeptProposal
  <1>10. ASSUME NEW t \in Subject PROVE KeptAccount(t)
    BY <1>2 DEF KeptAccount
  <1>11. ProposalFits(p)'
    <2>1. Unanimous(p)'
      BY <1>5 DEF Unanimous
    <2>2. SetAside(p)'
      BY <1>2, <1>5, <1>6, <1>8 DEF SetAside, LiveAs
    <2>3. IsActive(s)' /\ HasActiveAdmins(s)'
      BY <1>2, <1>3, <1>4 DEF IsActive, HasActiveAdmins
    <2>4. Backed(p)'
      BY <1>2, <1>4, <1>5, <1>8, <2>3 DEF Backed, Creates, Closes, Changes, LiveAs
    <2> QED BY <1>5, <2>1, <2>2, <2>4 DEF ProposalFits
  <1>12. AccountFits(s)'
    <2>1. \A q \in ProposalId : Live(q) => q # p
      BY <1>5 DEF Live, HasStatus
    <2>2. ASSUME NEW q \in ProposalId, NEW r, LiveAs(q, r), Proposals[q].subject = s
          PROVE  LiveAs(q, r)' /\ Proposals'[q].subject = s
      BY <1>9, <2>1, <2>2, KeptLive DEF LiveAs
    <2> QED BY <1>10, <2>2, KeptAccountFits DEF PersonalInv
  <1>13. reserved' = Cardinality(PendingPersonalCreate')
    BY <1>2 DEF PersonalInv
  <1>14. ~LiveAs(p, "PersonalCreate")'
    BY <1>5 DEF LiveAs
  <1>15. PersonalInv'
    BY <1>2, <1>5, <1>9, <1>10, <1>11, <1>12, <1>13, <1>14, LocalStep
  <1> QED BY <1>5, <1>7, <1>15 DEF Kept

-------------------------------------------------------------------------------
(* Ending proposals.                                                         *)

\* The account tables are well typed.
AccountTypes ==
    /\ IsMap(PersonalAccounts, Subject, AccountStatus)
    /\ IsMap(AdminAccounts, Subject, [status : AccountStatus, admins : SUBSET Admin])
    /\ IsMap(ActivePersonalThresholds, Subject, Nat)
    /\ IsMap(PendingPersonalThresholds, ProposalId, Nat)
    /\ IsMap(PendingPersonalAdminChangeThresholds, ProposalId, Nat)
    /\ IsMap(PendingCloseProposal, Subject, ProposalId)
    /\ PendingPersonalCreate \subseteq ProposalId

\* The step ends p: what it put aside is gone, its lock is released.
Ends(p) ==
    /\ ReleaseMutexes(p)
    /\ PendingPersonalCreate' = PendingPersonalCreate \ {p}
    /\ PendingPersonalThresholds' = Remove(PendingPersonalThresholds, p)
    /\ PendingPersonalAdminChangeThresholds' = Remove(PendingPersonalAdminChangeThresholds, p)
    /\ UNCHANGED <<now, NextProposalId>>

\* The ballots of the others are kept, p's is well typed.
BallotsKept(p) ==
    /\ DOMAIN ballot' = DOMAIN ballot
    /\ \A q \in ProposalId \ {p} : q \in DOMAIN ballot => ballot'[q] = ballot[q]
    /\ IsMap(ballot, ProposalId, Ballot)'

\* A step that ends p and leaves its account in order.
LEMMA EndStep ==
    ASSUME TypeOK, MutexInv, PersonalInv, NEW p \in ProposalId, NEW s \in Subject,
           NEW st \in Status, IsTerminalStatus(st), SetProposalStatus(p, st),
           Proposals[p].subject = s, Ends(p), BallotsKept(p),
           ActiveProposalsBySubject' \in [Subject -> SUBSET ProposalId],
           AccountTypes',
           Tickets(p)', Unanimous(p)',
           \A t \in Subject \ {s} : KeptAccount(t),
           AccountFits(s)',
           KeptAccount(s) \/ OnlyTransfersBeside(p, s),
           reserved' = Cardinality(PendingPersonalCreate')
    PROVE  Kept
  <1>1. /\ IsMap(Proposals, ProposalId, ProposalRecord)
        /\ now \in Nat /\ NextProposalId \in Nat /\ MutexTypeOK
    BY DEF TypeOK
  <1>2. /\ Exists(p) /\ Exists(p)' /\ Proposals'[p].status = st
        /\ Proposals'[p].subject = s
        /\ \A q \in ProposalId \ {p} : /\ Exists(q)' <=> Exists(q)
                                       /\ Exists(q) => Proposals'[q] = Proposals[q]
    BY <1>1, StatusChanged
  <1>3. DOMAIN Proposals' = DOMAIN Proposals
    BY DEF SetProposalStatus
  <1>4. IsMap(Proposals, ProposalId, ProposalRecord)'
    BY <1>1, SetStatusTypes
  <1>5. MutexTypeOK' /\ MutexInv'
    <2>1. ReleaseMutexes(p) /\ UNCHANGED NextProposalId
      BY DEF Ends
    <2> QED BY <1>1, <2>1, ReleaseTypes, ReleaseKeepsMutexInv DEF MutexTypeOK
  <1>6. TypeOK'
    <2>1. reserved' \in Nat
      BY FiniteIds DEF AccountTypes
    <2> QED BY <1>1, <1>4, <1>5, <2>1 DEF TypeOK, AccountTypes, BallotsKept, Ends
  <1>7. ASSUME NEW q \in ProposalId \ {p} PROVE KeptProposal(q)
    <2>1. ProposalMutexBindings'[q] = ProposalMutexBindings[q]
      BY <1>1 DEF Ends, ReleaseMutexes, MutexTypeOK
    <2>2. Exists(q) => ballot'[q] = ballot[q]
      BY DEF BallotsKept, PersonalInv, Exists
    <2> QED BY <1>2, <2>1, <2>2 DEF KeptProposal, Ends, Remove
  <1>8. ~Live(p)'
    BY <1>2 DEF Live, HasStatus, IsTerminalStatus
  <1>9. ProposalFits(p)'
    <2>1. ProposalMutexBindings'[p] = {}
      BY <1>1 DEF Ends, ReleaseMutexes, MutexTypeOK
    <2>2. LockHeld(p)'
      BY <1>8, <2>1 DEF LockHeld
    <2>3. SetAside(p)'
      BY <1>8 DEF SetAside, LiveAs, Ends, Remove
    <2>4. Backed(p)'
      BY <1>8 DEF Backed, Creates, Closes, Changes, LiveAs
    <2>5. p < NextProposalId'
      BY <1>2 DEF PersonalInv, ProposalFits, Ends
    <2> QED BY <2>2, <2>3, <2>4, <2>5 DEF ProposalFits
  <1>10. DOMAIN ballot' = DOMAIN Proposals'
    BY <1>3 DEF BallotsKept, PersonalInv
  <1>11. ~LiveAs(p, "PersonalCreate")'
    BY <1>8 DEF LiveAs
  <1>12. now' = now /\ NextProposalId' = NextProposalId
    BY DEF Ends
  <1>13. NextProposalId' \in Nat /\ NextProposalId <= NextProposalId'
    BY <1>1, <1>12
  <1>14. PersonalInv'
    BY <1>2, <1>7, <1>9, <1>10, <1>11, <1>12, <1>13, LocalStep
  <1> QED BY <1>5, <1>6, <1>14 DEF Kept

\* Ending p leaves an account that is kept in order, unless p was its
\* registration or its closing.
LEMMA KeptAccountAfter ==
    ASSUME TypeOK, PersonalInv, NEW p \in ProposalId, NEW s \in Subject,
           ballot[p].role \in {"General", "PersonalAdminChange"}, KeptAccount(s),
           \A q \in ProposalId \ {p} :
              /\ Exists(q)' <=> Exists(q)
              /\ Exists(q) => Proposals'[q] = Proposals[q] /\ ballot'[q] = ballot[q]
    PROVE  AccountFits(s)'
  <1>1. ASSUME NEW q \in ProposalId, NEW role \in {"PersonalCreate", "PersonalClose"},
               LiveAs(q, role), Proposals[q].subject = s
        PROVE  LiveAs(q, role)' /\ Proposals'[q].subject = s
    <2>1. q # p /\ Exists(q)
      BY <1>1 DEF LiveAs, Live, HasStatus
    <2> QED BY <1>1, <2>1 DEF LiveAs, Live, HasStatus
  <1> QED BY <1>1, KeptAccountFits DEF PersonalInv

\* One deposit less is one registration less.
LEMMA DepositReturned ==
    ASSUME TypeOK, PersonalInv, NEW p \in ProposalId, LiveAs(p, "PersonalCreate")
    PROVE  /\ p \in PendingPersonalCreate
           /\ reserved - 1 = Cardinality(PendingPersonalCreate \ {p})
  <1>1. p \in PendingPersonalCreate
    BY DEF PersonalInv, ProposalFits, SetAside
  <1>2. IsFiniteSet(PendingPersonalCreate)
    BY FiniteIds DEF TypeOK
  <1>3. Cardinality(PendingPersonalCreate \ {p}) = Cardinality(PendingPersonalCreate) - 1
    BY <1>1, <1>2, FS_RemoveElement
  <1> QED BY <1>1, <1>3 DEF PersonalInv

\* A proposal that is not a registration has no deposit.
LEMMA NoDeposit ==
    ASSUME TypeOK, PersonalInv, NEW p \in ProposalId, ~LiveAs(p, "PersonalCreate")
    PROVE  PendingPersonalCreate = PendingPersonalCreate \ {p}
  BY DEF PersonalInv, ProposalFits, SetAside

\* A proposal comes to nothing.
LEMMA AbandonKeeps ==
    ASSUME TypeOK, MutexInv, PersonalInv, NEW p \in ProposalId, Live(p),
           NEW st \in {"REJECTED", "EXECUTION_FAILED"}, SetProposalStatus(p, st),
           Abandon(p), UNCHANGED <<now, NextProposalId>>, BallotsKept(p),
           ActiveProposalsBySubject' \in [Subject -> SUBSET ProposalId],
           Tickets(p)', Unanimous(p)'
    PROVE  Kept
  <1>1. PICK s \in Subject : s = Proposals[p].subject
    BY RoleOfLive
  <1>2. st \in Status /\ IsTerminalStatus(st)
    BY DEF Status, IsTerminalStatus
  <1>3. ballot[p].role \in Role
    BY RoleOfLive
  <1>4. /\ ReleaseMutexes(p)
        /\ PendingCloseProposal' = MarksWithout(p)
        /\ PendingPersonalThresholds' = Remove(PendingPersonalThresholds, p)
        /\ PendingPersonalAdminChangeThresholds' =
             Remove(PendingPersonalAdminChangeThresholds, p)
        /\ UNCHANGED ActivePersonalThresholds
    BY DEF Abandon
  <1>5. CASE ballot[p].role = "PersonalCreate"
    <2>1. LiveAs(p, "PersonalCreate")
      BY <1>5 DEF LiveAs
    <2>2. /\ p \in PendingPersonalCreate
          /\ reserved - 1 = Cardinality(PendingPersonalCreate \ {p})
      BY <2>1, DepositReturned
    <2>3. /\ AdminAccounts' = Remove(AdminAccounts, s)
          /\ PersonalAccounts' = Remove(PersonalAccounts, s)
          /\ PendingPersonalCreate' = PendingPersonalCreate \ {p}
          /\ reserved' = reserved - 1
          /\ UNCHANGED PendingCloseProposal
      BY <1>1, <1>4, <1>5, <2>2 DEF Abandon, MarksWithout
    <2>4. Ends(p)
      BY <1>4, <2>3 DEF Ends
    <2>5. AccountTypes'
      BY <1>4, <2>3, RemoveIsMap DEF AccountTypes, TypeOK
    <2>6. \A t \in Subject \ {s} : KeptAccount(t)
      BY <1>4, <2>3 DEF KeptAccount, Remove
    <2>7. ~IsActive(s)
      BY <1>1, <1>5, RoleOfLive
    <2>8. s \notin DOMAIN ActivePersonalThresholds /\ s \notin DOMAIN PendingCloseProposal
      BY <2>7, MarkNeedsActive DEF PersonalInv, AccountFits
    <2>9. s \notin DOMAIN PersonalAccounts' /\ s \notin DOMAIN AdminAccounts'
      BY <2>3 DEF Remove
    <2>10. AccountFits(s)'
      BY <1>4, <2>3, <2>8, <2>9 DEF AccountFits, IsActive
    <2>11. OnlyTransfersBeside(p, s)
      BY <1>1, <2>1, BesideCreate
    <2>12. reserved' = Cardinality(PendingPersonalCreate')
      BY <2>2, <2>3
    <2> QED BY <1>1, <1>2, <2>4, <2>5, <2>6, <2>10, <2>11, <2>12, EndStep
  <1>6. CASE ballot[p].role # "PersonalCreate"
    <2>1. UNCHANGED <<AdminAccounts, PersonalAccounts, PendingPersonalCreate, reserved>>
      BY <1>6 DEF Abandon
    <2>2. PendingPersonalCreate = PendingPersonalCreate \ {p}
      BY <1>6, NoDeposit DEF LiveAs
    <2>3. Ends(p)
      BY <1>4, <2>1, <2>2 DEF Ends
    <2>4. reserved' = Cardinality(PendingPersonalCreate')
      BY <2>1 DEF PersonalInv
    <2>5. CASE ballot[p].role = "PersonalClose"
      <3>1. PendingCloseProposal' = Remove(PendingCloseProposal, s)
        BY <1>1, <1>4, <2>5 DEF MarksWithout
      <3>2. AccountTypes'
        BY <1>4, <2>1, <3>1, RemoveIsMap DEF AccountTypes, TypeOK
      <3>3. \A t \in Subject \ {s} : KeptAccount(t)
        BY <1>4, <2>1, <3>1 DEF KeptAccount, Remove
      <3>4. IsActive(s) /\ AccountFits(s)
        BY <1>1, <2>5, RoleOfLive DEF PersonalInv
      <3>5. s \notin DOMAIN PendingCloseProposal'
        BY <3>1 DEF Remove
      <3>6. AccountFits(s)'
        BY <1>4, <2>1, <3>4, <3>5 DEF AccountFits, IsActive
      <3>7. OnlyTransfersBeside(p, s)
        BY <1>1, <2>5, BesideClose DEF LiveAs
      <3> QED BY <1>1, <1>2, <2>3, <2>4, <3>2, <3>3, <3>6, <3>7, EndStep
    <2>6. CASE ballot[p].role \in {"General", "PersonalAdminChange"}
      <3>1. UNCHANGED PendingCloseProposal
        BY <1>4, <2>6 DEF MarksWithout
      <3>2. AccountTypes'
        BY <1>4, <2>1, <3>1, RemoveIsMap DEF AccountTypes, TypeOK
      <3>3. \A t \in Subject : KeptAccount(t)
        BY <1>4, <2>1, <3>1 DEF KeptAccount
      <3>4. \A q \in ProposalId \ {p} :
              /\ Exists(q)' <=> Exists(q)
              /\ Exists(q) => Proposals'[q] = Proposals[q] /\ ballot'[q] = ballot[q]
        BY <1>2, StatusChanged DEF TypeOK, BallotsKept, PersonalInv, Exists
      <3>5. AccountFits(s)'
        BY <2>6, <3>3, <3>4, KeptAccountAfter
      <3> QED BY <1>1, <1>2, <2>3, <2>4, <3>2, <3>3, <3>5, EndStep
    <2> QED BY <1>3, <1>6, <2>5, <2>6 DEF Role
  <1> QED BY <1>5, <1>6

-------------------------------------------------------------------------------
(* Executing passed proposals.                                               *)

\* A passed proposal that ends keeps its tickets.
LEMMA PassedTickets ==
    ASSUME TypeOK, PersonalInv, NEW p \in ProposalId, HasStatus(p, "PASSED"),
           NEW st \in {"EXECUTED", "EXECUTION_FAILED"}, SetProposalStatus(p, st),
           UNCHANGED <<ballot, now>>
    PROVE  Live(p) /\ Tickets(p)' /\ Unanimous(p)' /\ BallotsKept(p)
  <1>1. st \in Status
    BY DEF Status
  <1>2. Proposals'[p].status = st
    BY <1>1, StatusChanged DEF TypeOK
  <1>3. Tickets(p) /\ Unanimous(p) /\ Proposals[p].status = "PASSED"
    BY DEF HasStatus, PersonalInv, ProposalFits
  <1>4. Tickets(p)'
    BY <1>2, <1>3 DEF Tickets, HasStatus, Reachable
  <1>5. Unanimous(p)' /\ BallotsKept(p)
    BY <1>3 DEF Unanimous, BallotsKept, TypeOK
  <1> QED BY <1>4, <1>5 DEF Live

\* execute_create_with_finalizer
LEMMA ExecuteCreateKeeps ==
    ASSUME TypeOK, MutexInv, PersonalInv, NEW p \in ProposalId, ExecuteCreate(p)
    PROVE  Kept
  <1>1. /\ HasStatus(p, "PASSED") /\ ballot[p].role = "PersonalCreate"
        /\ SetProposalStatus(p, "EXECUTED") /\ ReleaseMutexes(p)
        /\ UNCHANGED <<now, NextProposalId, ActiveProposalsBySubject, ballot>>
        /\ PendingPersonalThresholds' = Remove(PendingPersonalThresholds, p)
        /\ PendingPersonalCreate' = PendingPersonalCreate \ {p}
        /\ reserved' = reserved - 1
        /\ UNCHANGED <<PendingPersonalAdminChangeThresholds, PendingCloseProposal>>
    BY DEF ExecuteCreate, Executing, Executed
  <1>2. Live(p) /\ Tickets(p)' /\ Unanimous(p)' /\ BallotsKept(p)
    BY <1>1, PassedTickets
  <1>3. PICK s \in Subject : s = Proposals[p].subject
    BY <1>2, RoleOfLive
  <1>4. LiveAs(p, "PersonalCreate")
    BY <1>1, <1>2 DEF LiveAs
  <1>5. /\ s \in DOMAIN PersonalAccounts /\ s \in DOMAIN AdminAccounts
        /\ AdminAccounts[s].admins = ballot[p].snapshot
        /\ DynamicThreshold(Cardinality(ballot[p].snapshot), PendingPersonalThresholds[p])
        /\ p \in DOMAIN PendingPersonalThresholds
        /\ p \notin DOMAIN PendingPersonalAdminChangeThresholds
    BY <1>1, <1>3, <1>4 DEF PersonalInv, ProposalFits, Backed, Creates, SetAside, LiveAs
  <1>6. AdminAccounts[s] \in [status : AccountStatus, admins : SUBSET Admin]
    BY <1>5 DEF TypeOK, IsMap
  <1>7. /\ AdminAccounts' =
             [AdminAccounts EXCEPT ![s] = [AdminAccounts[s] EXCEPT !.status = "Active"]]
        /\ PersonalAccounts' = [PersonalAccounts EXCEPT ![s] = "Active"]
        /\ ActivePersonalThresholds' =
             Insert(ActivePersonalThresholds, s, PendingPersonalThresholds[p])
    BY <1>3 DEF ExecuteCreate
  <1>8. [AdminAccounts[s] EXCEPT !.status = "Active"]
          \in [status : AccountStatus, admins : SUBSET Admin]
    BY <1>6 DEF AccountStatus
  <1>9. AccountTypes'
    <2>1. IsMap(AdminAccounts, Subject, [status : AccountStatus, admins : SUBSET Admin])'
      BY <1>5, <1>7, <1>8, ExceptIsMap DEF TypeOK
    <2>2. IsMap(PersonalAccounts, Subject, AccountStatus)'
      <3>1. "Active" \in AccountStatus
        BY DEF AccountStatus
      <3> QED BY <1>5, <1>7, <3>1, ExceptIsMap DEF TypeOK
    <2>3. IsMap(ActivePersonalThresholds, Subject, Nat)'
      <3>1. PendingPersonalThresholds[p] \in Nat
        BY <1>5, LookupInMap DEF TypeOK
      <3> QED BY <1>7, <3>1, InsertIsMap DEF TypeOK
    <2> QED BY <1>1, <2>1, <2>2, <2>3, RemoveIsMap DEF AccountTypes, TypeOK
  <1>10. Ends(p)
    <2>1. PendingPersonalAdminChangeThresholds =
            Remove(PendingPersonalAdminChangeThresholds, p)
      BY <1>5, RemoveAbsent DEF TypeOK
    <2> QED BY <1>1, <2>1 DEF Ends
  <1>11. \A t \in Subject \ {s} : KeptAccount(t)
    BY <1>1, <1>7 DEF KeptAccount, Insert
  <1>12. AccountFits(s)'
    <2>1. /\ s \in DOMAIN PersonalAccounts' /\ PersonalAccounts'[s] = "Active"
          /\ s \in DOMAIN AdminAccounts' /\ AdminAccounts'[s].status = "Active"
          /\ AdminAccounts'[s].admins = ballot[p].snapshot
          /\ s \in DOMAIN ActivePersonalThresholds'
          /\ ActivePersonalThresholds'[s] = PendingPersonalThresholds[p]
      BY <1>5, <1>6, <1>7 DEF Insert
    <2>2. s \notin DOMAIN PendingCloseProposal
      <3>1. ~IsActive(s)
        BY <1>1, <1>2, <1>3, RoleOfLive
      <3> QED BY <3>1, MarkNeedsActive
    <2> QED BY <1>1, <1>5, <2>1, <2>2 DEF AccountFits, IsActive
  <1>13. OnlyTransfersBeside(p, s)
    BY <1>3, <1>4, BesideCreate
  <1>14. reserved' = Cardinality(PendingPersonalCreate')
    BY <1>1, <1>4, DepositReturned
  <1>15. ActiveProposalsBySubject' \in [Subject -> SUBSET ProposalId]
    BY <1>1 DEF TypeOK, MutexTypeOK
  <1>16. "EXECUTED" \in Status /\ IsTerminalStatus("EXECUTED")
    BY DEF Status, IsTerminalStatus
  <1> QED BY <1>1, <1>2, <1>3, <1>9, <1>10, <1>11, <1>12, <1>13, <1>14, <1>15, <1>16, EndStep

\* execute_close_with_finalizer
LEMMA ExecuteCloseKeeps ==
    ASSUME TypeOK, MutexInv, PersonalInv, NEW p \in ProposalId, ExecuteClose(p)
    PROVE  Kept
  <1>1. /\ HasStatus(p, "PASSED") /\ ballot[p].role = "PersonalClose"
        /\ SetProposalStatus(p, "EXECUTED") /\ ReleaseMutexes(p)
        /\ UNCHANGED <<now, NextProposalId, ActiveProposalsBySubject, ballot>>
        /\ UNCHANGED <<PendingPersonalThresholds, PendingPersonalAdminChangeThresholds,
                       PendingPersonalCreate, reserved>>
    BY DEF ExecuteClose, Executing, Executed
  <1>2. Live(p) /\ Tickets(p)' /\ Unanimous(p)' /\ BallotsKept(p)
    BY <1>1, PassedTickets
  <1>3. PICK s \in Subject : s = Proposals[p].subject
    BY <1>2, RoleOfLive
  <1>4. LiveAs(p, "PersonalClose") /\ ~LiveAs(p, "PersonalCreate")
    BY <1>1, <1>2 DEF LiveAs
  <1>5. /\ p \notin DOMAIN PendingPersonalThresholds
        /\ p \notin DOMAIN PendingPersonalAdminChangeThresholds
    BY <1>1, <1>4 DEF PersonalInv, ProposalFits, SetAside, LiveAs
  <1>6. /\ PersonalAccounts' = Remove(PersonalAccounts, s)
        /\ AdminAccounts' = Remove(AdminAccounts, s)
        /\ PendingCloseProposal' = Remove(PendingCloseProposal, s)
        /\ ActivePersonalThresholds' = Remove(ActivePersonalThresholds, s)
    BY <1>3 DEF ExecuteClose
  <1>7. AccountTypes'
    BY <1>1, <1>6, RemoveIsMap DEF AccountTypes, TypeOK
  <1>8. Ends(p)
    BY <1>1, <1>4, <1>5, RemoveAbsent, NoDeposit DEF Ends, TypeOK
  <1>9. \A t \in Subject \ {s} : KeptAccount(t)
    BY <1>6 DEF KeptAccount, Remove
  <1>10. AccountFits(s)'
    BY <1>6 DEF AccountFits, IsActive, Remove
  <1>11. OnlyTransfersBeside(p, s)
    BY <1>3, <1>4, BesideClose
  <1>12. reserved' = Cardinality(PendingPersonalCreate')
    BY <1>1 DEF PersonalInv
  <1>13. ActiveProposalsBySubject' \in [Subject -> SUBSET ProposalId]
    BY <1>1 DEF TypeOK, MutexTypeOK
  <1>14. "EXECUTED" \in Status /\ IsTerminalStatus("EXECUTED")
    BY DEF Status, IsTerminalStatus
  <1> QED BY <1>1, <1>2, <1>3, <1>7, <1>8, <1>9, <1>10, <1>11, <1>12, <1>13, <1>14, EndStep

\* try_execute_set_change_from_action
LEMMA ExecuteChangeKeeps ==
    ASSUME TypeOK, MutexInv, PersonalInv, NEW p \in ProposalId, ExecuteAdminSetChange(p)
    PROVE  Kept
  <1>1. /\ HasStatus(p, "PASSED") /\ ballot[p].role = "PersonalAdminChange"
        /\ SetProposalStatus(p, "EXECUTED") /\ ReleaseMutexes(p)
        /\ UNCHANGED <<now, NextProposalId, ActiveProposalsBySubject, ballot>>
        /\ PendingPersonalAdminChangeThresholds' =
             Remove(PendingPersonalAdminChangeThresholds, p)
        /\ UNCHANGED <<PersonalAccounts, PendingPersonalThresholds, PendingCloseProposal,
                       PendingPersonalCreate, reserved>>
    BY DEF ExecuteAdminSetChange, Executing, Executed
  <1>2. Live(p) /\ Tickets(p)' /\ Unanimous(p)' /\ BallotsKept(p)
    BY <1>1, PassedTickets
  <1>3. PICK s \in Subject : s = Proposals[p].subject
    BY <1>2, RoleOfLive
  <1>4. LiveAs(p, "PersonalAdminChange") /\ ~LiveAs(p, "PersonalCreate")
    BY <1>1, <1>2 DEF LiveAs
  <1>5. /\ p \notin DOMAIN PendingPersonalThresholds
        /\ p \in DOMAIN PendingPersonalAdminChangeThresholds
        /\ IsActive(s) /\ HasActiveAdmins(s)
        /\ DynamicThreshold(Cardinality(ballot[p].admins),
                            PendingPersonalAdminChangeThresholds[p])
    BY <1>3, <1>4 DEF PersonalInv, ProposalFits, SetAside, Backed, Changes
  <1>6. /\ AdminAccounts[s] \in [status : AccountStatus, admins : SUBSET Admin]
        /\ s \in DOMAIN AdminAccounts /\ ballot[p].admins \in SUBSET Admin
        /\ PendingPersonalAdminChangeThresholds[p] \in Nat
    <2>1. ballot[p] \in Ballot
      BY <1>2, RoleOfLive
    <2>2. ballot[p].admins \in SUBSET Admin
      BY <2>1 DEF Ballot
    <2> QED BY <1>5, <2>2 DEF TypeOK, IsMap, HasActiveAdmins
  <1>7. /\ AdminAccounts' = [AdminAccounts EXCEPT ![s] =
                               [AdminAccounts[s] EXCEPT !.admins = ballot[p].admins]]
        /\ ActivePersonalThresholds' =
             Insert(ActivePersonalThresholds, s, PendingPersonalAdminChangeThresholds[p])
    BY <1>3, <1>5 DEF ExecuteAdminSetChange, ThresholdsAfterChange
  <1>8. AccountTypes'
    <2>1. [AdminAccounts[s] EXCEPT !.admins = ballot[p].admins]
            \in [status : AccountStatus, admins : SUBSET Admin]
      BY <1>6
    <2>2. IsMap(AdminAccounts, Subject, [status : AccountStatus, admins : SUBSET Admin])'
      BY <1>6, <1>7, <2>1, ExceptIsMap DEF TypeOK
    <2>3. IsMap(ActivePersonalThresholds, Subject, Nat)'
      BY <1>6, <1>7, InsertIsMap DEF TypeOK
    <2> QED BY <1>1, <2>2, <2>3, RemoveIsMap DEF AccountTypes, TypeOK
  <1>9. Ends(p)
    BY <1>1, <1>4, <1>5, RemoveAbsent, NoDeposit DEF Ends, TypeOK
  <1>10. \A t \in Subject \ {s} : KeptAccount(t)
    BY <1>1, <1>7 DEF KeptAccount, Insert
  <1>11. AccountFits(s)'
    <2>1. /\ s \in DOMAIN AdminAccounts' /\ AdminAccounts'[s].status = AdminAccounts[s].status
          /\ AdminAccounts'[s].admins = ballot[p].admins
          /\ s \in DOMAIN ActivePersonalThresholds'
          /\ ActivePersonalThresholds'[s] = PendingPersonalAdminChangeThresholds[p]
      BY <1>6, <1>7 DEF Insert
    <2>2. s \notin DOMAIN PendingCloseProposal
      <3>1. SUFFICES ASSUME s \in DOMAIN PendingCloseProposal PROVE FALSE
        OBVIOUS
      <3>2. PICK q \in ProposalId : LiveAs(q, "PersonalClose") /\ Proposals[q].subject = s
        BY <3>1, MarkNeedsActive
      <3> QED BY <1>1, <1>2, <1>3, <3>2, ChangeIsAlone DEF LiveAs
    <2>3. s \in DOMAIN PersonalAccounts /\ PersonalAccounts[s] = "Active"
      BY <1>5 DEF IsActive
    <2>4. AdminAccounts[s].status = "Active"
      BY <1>5 DEF HasActiveAdmins
    <2> QED BY <1>1, <1>5, <2>1, <2>2, <2>3, <2>4 DEF AccountFits, IsActive
  <1>12. OnlyTransfersBeside(p, s)
    BY <1>3, <1>4, BesideChange
  <1>13. reserved' = Cardinality(PendingPersonalCreate')
    BY <1>1 DEF PersonalInv
  <1>14. ActiveProposalsBySubject' \in [Subject -> SUBSET ProposalId]
    BY <1>1 DEF TypeOK, MutexTypeOK
  <1>15. "EXECUTED" \in Status /\ IsTerminalStatus("EXECUTED")
    BY DEF Status, IsTerminalStatus
  <1> QED BY <1>1, <1>2, <1>3, <1>8, <1>9, <1>10, <1>11, <1>12, <1>13, <1>14, <1>15, EndStep

\* try_execute_transfer_from_callback
LEMMA ExecuteTransferKeeps ==
    ASSUME TypeOK, MutexInv, PersonalInv, NEW p \in ProposalId, ExecuteTransfer(p)
    PROVE  Kept
  <1>1. /\ HasStatus(p, "PASSED") /\ ballot[p].role = "General"
        /\ SetProposalStatus(p, "EXECUTED") /\ ReleaseMutexes(p)
        /\ UNCHANGED <<now, NextProposalId, ActiveProposalsBySubject, ballot, accountVars>>
    BY DEF ExecuteTransfer, Executing, Executed
  <1>2. Live(p) /\ Tickets(p)' /\ Unanimous(p)' /\ BallotsKept(p)
    BY <1>1, PassedTickets
  <1>3. PICK s \in Subject : s = Proposals[p].subject
    BY <1>2, RoleOfLive
  <1>4. /\ p \notin DOMAIN PendingPersonalThresholds
        /\ p \notin DOMAIN PendingPersonalAdminChangeThresholds
        /\ ~LiveAs(p, "PersonalCreate")
    BY <1>1 DEF PersonalInv, ProposalFits, SetAside, LiveAs
  <1>5. Ends(p)
    BY <1>1, <1>4, RemoveAbsent, NoDeposit DEF Ends, TypeOK, accountVars
  <1>6. AccountTypes' /\ \A t \in Subject : KeptAccount(t)
    BY <1>1 DEF AccountTypes, TypeOK, KeptAccount, accountVars
  <1>7. "EXECUTED" \in Status /\ IsTerminalStatus("EXECUTED")
    BY DEF Status, IsTerminalStatus
  <1>8. \A q \in ProposalId \ {p} :
          /\ Exists(q)' <=> Exists(q)
          /\ Exists(q) => Proposals'[q] = Proposals[q] /\ ballot'[q] = ballot[q]
    BY <1>1, <1>7, StatusChanged DEF TypeOK
  <1>9. AccountFits(s)'
    BY <1>1, <1>6, <1>8, KeptAccountAfter
  <1>10. reserved' = Cardinality(PendingPersonalCreate')
    BY <1>1 DEF PersonalInv, accountVars
  <1>11. ActiveProposalsBySubject' \in [Subject -> SUBSET ProposalId]
    BY <1>1 DEF TypeOK, MutexTypeOK
  <1> QED BY <1>1, <1>2, <1>3, <1>5, <1>6, <1>7, <1>9, <1>10, <1>11, EndStep

\* An execution that fails for good.
LEMMA FailKeeps ==
    ASSUME TypeOK, MutexInv, PersonalInv, NEW p \in ProposalId, FailExecution(p)
    PROVE  Kept
  <1>1. /\ HasStatus(p, "PASSED") /\ SetProposalStatus(p, "EXECUTION_FAILED") /\ Abandon(p)
        /\ UNCHANGED <<now, NextProposalId, ActiveProposalsBySubject, ballot>>
    BY DEF FailExecution
  <1>2. Live(p) /\ Tickets(p)' /\ Unanimous(p)' /\ BallotsKept(p)
    BY <1>1, PassedTickets
  <1>3. ActiveProposalsBySubject' \in [Subject -> SUBSET ProposalId]
    BY <1>1 DEF TypeOK, MutexTypeOK
  <1> QED BY <1>1, <1>2, <1>3, AbandonKeeps

-------------------------------------------------------------------------------
(* Votes.                                                                    *)

\* One more ticket: the tally stays exact and decides as the tickets do.
LEMMA TicketCounts ==
    ASSUME NEW b \in Ballot, NEW who \in Admin, NEW approve \in BOOLEAN,
           b.yes \cap b.no = {}, b.yes \cup b.no \subseteq b.snapshot,
           b.tally = [yes |-> Cardinality(b.yes), no |-> Cardinality(b.no)],
           who \in b.snapshot, who \notin b.yes \cup b.no
    PROVE  LET after == WithTicket(b, who, approve)
           IN  /\ after \in Ballot
               /\ after.role = b.role /\ after.threshold = b.threshold
               /\ after.snapshot = b.snapshot /\ after.admins = b.admins
               /\ after.yes \cap after.no = {}
               /\ after.yes \cup after.no \subseteq after.snapshot
               /\ after.tally = [yes |-> Cardinality(after.yes), no |-> Cardinality(after.no)]
               /\ Decision(after) = "PASSED" => Cardinality(after.yes) >= after.threshold
               /\ Decision(after) = "REJECTED" => Reachable(after) < after.threshold
               /\ Decision(after) = "VOTING" => /\ Cardinality(after.yes) < after.threshold
                                                /\ Reachable(after) >= after.threshold
  <1> DEFINE after == WithTicket(b, who, approve)
  <1>1. /\ b.role \in Role /\ b.threshold \in Nat /\ b.snapshot \in SUBSET Admin
        /\ b.yes \in SUBSET Admin /\ b.no \in SUBSET Admin
        /\ b.tally \in [yes : Nat, no : Nat] /\ b.admins \in SUBSET Admin
    BY DEF Ballot
  <1>2. /\ IsFiniteSet(b.yes) /\ Cardinality(b.yes) \in Nat
        /\ IsFiniteSet(b.no) /\ Cardinality(b.no) \in Nat
        /\ IsFiniteSet(b.snapshot) /\ Cardinality(b.snapshot) \in Nat
    BY <1>1, FiniteAdmins
  <1>3. /\ Cardinality(b.yes \cup {who}) = Cardinality(b.yes) + 1
        /\ Cardinality(b.no \cup {who}) = Cardinality(b.no) + 1
    BY <1>2, FS_AddElement
  <1>4. /\ after \in Ballot
        /\ after.role = b.role /\ after.threshold = b.threshold
        /\ after.snapshot = b.snapshot /\ after.admins = b.admins
        /\ after.yes = (IF approve THEN b.yes \cup {who} ELSE b.yes)
        /\ after.no = (IF approve THEN b.no ELSE b.no \cup {who})
        /\ after.tally.yes = (IF approve THEN b.tally.yes + 1 ELSE b.tally.yes)
        /\ after.tally.no = (IF approve THEN b.tally.no ELSE b.tally.no + 1)
        /\ after.tally \in [yes : Nat, no : Nat]
    <2>1. CASE approve
      <3> DEFINE tally == [b.tally EXCEPT !.yes = b.tally.yes + 1]
      <3>1. after = [b EXCEPT !.yes = b.yes \cup {who}, !.tally = tally]
        BY <1>1, <2>1 DEF WithTicket, Ballot
      <3>2. /\ tally \in [yes : Nat, no : Nat]
            /\ tally.yes = b.tally.yes + 1 /\ tally.no = b.tally.no
        BY <1>1
      <3> HIDE DEF tally, after
      <3>3. after \in Ballot
        BY <1>1, <3>1, <3>2 DEF Ballot
      <3>4. /\ after.role = b.role /\ after.threshold = b.threshold
            /\ after.snapshot = b.snapshot /\ after.admins = b.admins
            /\ after.yes = b.yes \cup {who} /\ after.no = b.no
            /\ after.tally = tally
        BY <3>1 DEF Ballot
      <3> QED BY <2>1, <3>2, <3>3, <3>4
    <2>2. CASE ~approve
      <3> DEFINE tally == [b.tally EXCEPT !.no = b.tally.no + 1]
      <3>1. after = [b EXCEPT !.no = b.no \cup {who}, !.tally = tally]
        BY <1>1, <2>2 DEF WithTicket, Ballot
      <3>2. /\ tally \in [yes : Nat, no : Nat]
            /\ tally.no = b.tally.no + 1 /\ tally.yes = b.tally.yes
        BY <1>1
      <3> HIDE DEF tally, after
      <3>3. after \in Ballot
        BY <1>1, <3>1, <3>2 DEF Ballot
      <3>4. /\ after.role = b.role /\ after.threshold = b.threshold
            /\ after.snapshot = b.snapshot /\ after.admins = b.admins
            /\ after.no = b.no \cup {who} /\ after.yes = b.yes
            /\ after.tally = tally
        BY <3>1 DEF Ballot
      <3> QED BY <2>2, <3>2, <3>3, <3>4
    <2> QED BY <2>1, <2>2
  <1> HIDE DEF after
  <1>5. /\ after.tally.yes = Cardinality(after.yes) /\ after.tally.no = Cardinality(after.no)
        /\ after.yes \cap after.no = {} /\ after.yes \cup after.no \subseteq after.snapshot
    BY <1>3, <1>4
  <1>6. after.tally = [yes |-> Cardinality(after.yes), no |-> Cardinality(after.no)]
    BY <1>4, <1>5
  <1>7. /\ Cardinality(after.yes) \in Nat /\ Cardinality(after.no) \in Nat
        /\ Cardinality(after.snapshot) \in Nat /\ after.threshold \in Nat
    BY <1>1, <1>2, <1>3, <1>4
  <1>8. Reachable(after) = Cardinality(after.snapshot) - Cardinality(after.no)
    <2>1. after.snapshot \cap after.no = after.no
      BY <1>5
    <2>2. IsFiniteSet(after.snapshot)
      BY <1>2, <1>4
    <2>3. Cardinality(after.snapshot \ after.no)
            = Cardinality(after.snapshot) - Cardinality(after.snapshot \cap after.no)
      BY <2>2, FS_Difference
    <2> QED BY <2>1, <2>3 DEF Reachable
  <1>9. Decision(after) = IF Cardinality(after.yes) >= after.threshold THEN "PASSED"
                          ELSE IF Reachable(after) < after.threshold THEN "REJECTED"
                          ELSE "VOTING"
    BY <1>5, <1>7, <1>8 DEF Decision
  <1>10. /\ Decision(after) = "PASSED" => Cardinality(after.yes) >= after.threshold
         /\ Decision(after) = "REJECTED" => Reachable(after) < after.threshold
         /\ Decision(after) = "VOTING" => /\ Cardinality(after.yes) < after.threshold
                                          /\ Reachable(after) >= after.threshold
    BY <1>7, <1>8, <1>9
  <1> QED BY <1>4, <1>5, <1>6, <1>10 DEF after


\* A proposal that goes on acting, with one more ticket, disturbs nothing.
LEMMA GoesOn ==
    ASSUME TypeOK, MutexInv, PersonalInv, NEW p \in ProposalId, Live(p), Live(p)',
           BallotsKept(p), Tickets(p)',
           IsMap(Proposals, ProposalId, ProposalRecord)', DOMAIN Proposals' = DOMAIN Proposals,
           Proposals'[p].subject = Proposals[p].subject,
           \A q \in ProposalId \ {p} : Exists(q) => Proposals'[q] = Proposals[q],
           ballot'[p].role = ballot[p].role, ballot'[p].threshold = ballot[p].threshold,
           ballot'[p].snapshot = ballot[p].snapshot, ballot'[p].admins = ballot[p].admins,
           ActiveProposalsBySubject' \in [Subject -> SUBSET ProposalId],
           UNCHANGED <<now, NextProposalId, InternalProposalMutexes, ProposalMutexBindings,
                       accountVars>>
    PROVE  Kept
  <1>1. PICK s \in Subject : s = Proposals[p].subject
    BY RoleOfLive
  <1>2. ProposalFits(p) /\ Exists(p) /\ Exists(p)'
    BY DEF PersonalInv, Live, HasStatus
  <1>3. TypeOK'
    BY DEF TypeOK, MutexTypeOK, BallotsKept, accountVars
  <1>4. MutexInv'
    BY DEF MutexInv, MutexAccounting, FreshUnbound, Holders
  <1>5. \A t \in Subject : KeptAccount(t)
    BY DEF KeptAccount, accountVars
  <1>6. ASSUME NEW q \in ProposalId \ {p} PROVE KeptProposal(q)
    BY DEF KeptProposal, Exists, BallotsKept, PersonalInv, accountVars
  <1>7. KeptInRole(p)
    BY DEF KeptInRole, accountVars
  <1>8. LockHeld(p)' /\ SetAside(p)' /\ Backed(p)'
    BY <1>1, <1>2, <1>5, <1>7, InRoleFits
  <1>9. ProposalFits(p)'
    <2>1. Unanimous(p)' /\ p < NextProposalId'
      BY <1>2 DEF ProposalFits, Unanimous
    <2> QED BY <1>8, <2>1 DEF ProposalFits
  <1>10. AccountFits(s)'
    <2>1. ASSUME NEW q \in ProposalId, NEW role, LiveAs(q, role), Proposals[q].subject = s
          PROVE  LiveAs(q, role)' /\ Proposals'[q].subject = s
      <3>1. CASE q = p
        BY <1>1, <2>1, <3>1 DEF LiveAs
      <3>2. CASE q # p
        BY <1>6, <2>1, <3>2, KeptLive DEF LiveAs
      <3> QED BY <3>1, <3>2
    <2> QED BY <1>5, <2>1, KeptAccountFits DEF PersonalInv
  <1>11. LiveAs(p, "PersonalCreate")' => LiveAs(p, "PersonalCreate")
    BY DEF LiveAs
  <1>12. /\ reserved' = Cardinality(PendingPersonalCreate')
         /\ DOMAIN ballot' = DOMAIN Proposals'
    BY DEF PersonalInv, accountVars, BallotsKept
  <1>13. NextProposalId' \in Nat /\ NextProposalId <= NextProposalId'
    BY DEF TypeOK
  <1>14. PersonalInv'
    BY <1>1, <1>5, <1>6, <1>9, <1>10, <1>11, <1>12, <1>13, LocalStep
  <1> QED BY <1>3, <1>4, <1>14 DEF Kept

\* do_internal_vote
LEMMA VoteKeeps ==
    ASSUME TypeOK, MutexInv, PersonalInv, NEW p \in ProposalId, NEW who \in Admin,
           NEW approve \in BOOLEAN, Vote(p, who, approve)
    PROVE  Kept
  <1> DEFINE after == WithTicket(ballot[p], who, approve)
  <1>1. /\ HasStatus(p, "VOTING") /\ now <= Proposals[p].end
        /\ who \in ballot[p].snapshot /\ who \notin ballot[p].yes \cup ballot[p].no
        /\ ballot' = [ballot EXCEPT ![p] = after]
        /\ UNCHANGED <<now, NextProposalId>>
    BY DEF Vote, IsOpen
  <1>2. \/ Decision(after) = "PASSED" /\ Pass(p)
        \/ Decision(after) = "REJECTED" /\ Reject(p)
        \/ Decision(after) = "VOTING" /\ UNCHANGED <<Proposals, mutexVars, accountVars>>
    BY DEF Vote
  <1>3. /\ Live(p) /\ p \in DOMAIN ballot /\ p \in DOMAIN Proposals
        /\ ballot[p] \in Ballot /\ Tickets(p) /\ Unanimous(p)
    BY <1>1, RoleOfLive DEF Live, HasStatus, Exists, PersonalInv, ProposalFits
  <1>4. /\ after \in Ballot
        /\ after.role = ballot[p].role /\ after.threshold = ballot[p].threshold
        /\ after.snapshot = ballot[p].snapshot /\ after.admins = ballot[p].admins
        /\ after.yes \cap after.no = {}
        /\ after.yes \cup after.no \subseteq after.snapshot
        /\ after.tally = [yes |-> Cardinality(after.yes), no |-> Cardinality(after.no)]
        /\ Decision(after) = "PASSED" => Cardinality(after.yes) >= after.threshold
        /\ Decision(after) = "REJECTED" => Reachable(after) < after.threshold
        /\ Decision(after) = "VOTING" => /\ Cardinality(after.yes) < after.threshold
                                         /\ Reachable(after) >= after.threshold
    <2>1. /\ ballot[p].yes \cap ballot[p].no = {}
          /\ ballot[p].yes \cup ballot[p].no \subseteq ballot[p].snapshot
          /\ ballot[p].tally = [yes |-> Cardinality(ballot[p].yes),
                                no |-> Cardinality(ballot[p].no)]
      BY <1>3 DEF Tickets
    <2> QED BY <1>1, <1>3, <2>1, TicketCounts
  <1> HIDE DEF after
  <1>5. ballot'[p] = after /\ BallotsKept(p)
    <2>1. IsMap(ballot, ProposalId, Ballot)'
      BY <1>1, <1>3, <1>4, ExceptIsMap DEF TypeOK
    <2>2. ballot'[p] = after /\ DOMAIN ballot' = DOMAIN ballot
          /\ \A q \in ProposalId \ {p} : q \in DOMAIN ballot => ballot'[q] = ballot[q]
      BY <1>1, <1>3
    <2> QED BY <2>1, <2>2 DEF BallotsKept
  <1>6. Unanimous(p)'
    BY <1>3, <1>4, <1>5 DEF Unanimous
  <1>7. ASSUME NEW st \in {"PASSED", "REJECTED", "VOTING"}, Decision(after) = st,
               Proposals'[p].status = st
        PROVE  Tickets(p)'
    BY <1>4, <1>5, <1>7 DEF Tickets, HasStatus
  <1>8. CASE Decision(after) = "REJECTED" /\ Reject(p)
    <2>1. /\ SetProposalStatus(p, "REJECTED") /\ Abandon(p)
          /\ RemoveActiveProposal(Proposals[p].subject, p)
      BY <1>8 DEF Reject
    <2>2. Proposals'[p].status = "REJECTED"
      BY <2>1, StatusChanged, StatusNames DEF TypeOK
    <2>3. ActiveProposalsBySubject' \in [Subject -> SUBSET ProposalId]
      BY <2>1, RemoveActiveTypes DEF TypeOK
    <2> QED BY <1>1, <1>3, <1>5, <1>6, <1>7, <1>8, <2>1, <2>2, <2>3, AbandonKeeps
  <1>9. CASE Decision(after) = "PASSED" /\ Pass(p)
    <2>1. /\ SetProposalStatus(p, "PASSED")
          /\ RemoveActiveProposal(Proposals[p].subject, p)
          /\ UNCHANGED <<InternalProposalMutexes, ProposalMutexBindings, accountVars>>
      BY <1>9 DEF Pass
    <2>2. /\ Exists(p)' /\ Proposals'[p].status = "PASSED"
          /\ Proposals'[p].subject = Proposals[p].subject
          /\ \A q \in ProposalId \ {p} : Exists(q) => Proposals'[q] = Proposals[q]
      BY <2>1, StatusChanged, StatusNames DEF TypeOK
    <2>3. /\ ActiveProposalsBySubject' \in [Subject -> SUBSET ProposalId]
          /\ IsMap(Proposals, ProposalId, ProposalRecord)'
          /\ DOMAIN Proposals' = DOMAIN Proposals
      BY <2>1, RemoveActiveTypes, SetStatusTypes, StatusNames DEF TypeOK, SetProposalStatus
    <2>4. Live(p)'
      BY <2>2 DEF Live, HasStatus
    <2>5. Tickets(p)'
      BY <1>7, <1>9, <2>2
    <2> QED BY <1>1, <1>3, <1>4, <1>5, <2>1, <2>2, <2>3, <2>4, <2>5, GoesOn
  <1>10. CASE Decision(after) = "VOTING" /\ UNCHANGED <<Proposals, mutexVars, accountVars>>
    <2>1. Live(p)' /\ Tickets(p)'
      BY <1>1, <1>7, <1>10 DEF Live, HasStatus, Exists
    <2>2. /\ IsMap(Proposals, ProposalId, ProposalRecord)'
          /\ DOMAIN Proposals' = DOMAIN Proposals
          /\ Proposals'[p].subject = Proposals[p].subject
          /\ \A q \in ProposalId \ {p} : Exists(q) => Proposals'[q] = Proposals[q]
      BY <1>10 DEF TypeOK
    <2>3. /\ ActiveProposalsBySubject' \in [Subject -> SUBSET ProposalId]
          /\ UNCHANGED <<InternalProposalMutexes, ProposalMutexBindings, accountVars>>
      BY <1>10 DEF TypeOK, MutexTypeOK, mutexVars
    <2> QED BY <1>1, <1>3, <1>4, <1>5, <2>1, <2>2, <2>3, GoesOn
  <1> QED BY <1>2, <1>8, <1>9, <1>10


\* do_finalize_internal_timeout
LEMMA TimeoutKeeps ==
    ASSUME TypeOK, MutexInv, PersonalInv, NEW p \in ProposalId, FinalizeTimeout(p)
    PROVE  Kept
  <1>1. /\ HasStatus(p, "VOTING") /\ now > Proposals[p].end
        /\ SetProposalStatus(p, "REJECTED") /\ Abandon(p)
        /\ RemoveActiveProposal(Proposals[p].subject, p)
        /\ UNCHANGED <<now, NextProposalId, ballot>>
    BY DEF FinalizeTimeout, IsOverdue, Reject
  <1>2. Live(p) /\ Tickets(p) /\ Unanimous(p)
    BY <1>1 DEF Live, HasStatus, PersonalInv, ProposalFits
  <1>3. Proposals[p].end \in Nat /\ now \in Nat
    BY <1>2, RoleOfLive DEF ProposalRecord, TypeOK
  <1>4. Proposals'[p].status = "REJECTED" /\ Proposals'[p].end = Proposals[p].end
    BY <1>1, StatusChanged, StatusNames DEF TypeOK
  <1>5. Tickets(p)'
    BY <1>1, <1>2, <1>3, <1>4 DEF Tickets, HasStatus
  <1>6. Unanimous(p)' /\ BallotsKept(p)
    BY <1>1, <1>2 DEF Unanimous, BallotsKept, TypeOK
  <1>7. ActiveProposalsBySubject' \in [Subject -> SUBSET ProposalId]
    BY <1>1, RemoveActiveTypes DEF TypeOK
  <1> QED BY <1>1, <1>2, <1>5, <1>6, <1>7, AbandonKeeps

-------------------------------------------------------------------------------
(* The invariant.                                                            *)

\* A block passes, or nothing happens at all.
LEMMA IdleKeeps ==
    ASSUME TypeOK, MutexInv, PersonalInv, now' \in Nat, now <= now',
           UNCHANGED <<NextProposalId, Proposals, mutexVars, accountVars, ballot>>
    PROVE  Kept
  <1>1. TypeOK'
    BY DEF TypeOK, MutexTypeOK, mutexVars, accountVars
  <1>2. MutexInv'
    BY DEF MutexInv, MutexAccounting, FreshUnbound, Holders, mutexVars
  <1>3. \A t \in Subject : KeptAccount(t)
    BY DEF KeptAccount, accountVars
  <1>4. ASSUME NEW q \in ProposalId PROVE KeptProposal(q) /\ ProposalFits(q)
    BY DEF KeptProposal, Exists, mutexVars, accountVars, PersonalInv
  <1>5. ASSUME NEW q \in ProposalId PROVE ProposalFits(q)'
    <2>1. Live(q) => Proposals[q].subject \in Subject
      BY RoleOfLive
    <2>2. Backed(q)'
      BY <1>3, <1>4, <2>1, KeptBacked
    <2>3. NextProposalId' \in Nat /\ NextProposalId <= NextProposalId'
      BY DEF TypeOK
    <2> QED BY <1>4, <2>2, <2>3, KeptFits DEF ProposalFits
  <1>6. ASSUME NEW q, NEW role PROVE LiveAs(q, role)' <=> LiveAs(q, role)
    BY DEF LiveAs, Live, HasStatus, Exists
  <1>7. ASSUME NEW t \in Subject PROVE AccountFits(t)'
    BY <1>3, <1>6, KeptAccountFits DEF PersonalInv
  <1>8. OneCreation'
    BY <1>6 DEF PersonalInv, OneCreation
  <1> QED BY <1>1, <1>2, <1>5, <1>7, <1>8 DEF Kept, PersonalInv, accountVars

\* The genesis state has no account and no proposal.
LEMMA PersonalInit ==
    ASSUME Init
    PROVE  TypeOK /\ MutexInv /\ PersonalInv
  <1>1. MutexInv
    BY MutexInitExact DEF Init
  <1>2. MutexTypeOK
    <2>1. EmptyMutex \in MutexState
      BY DEF EmptyMutex, MutexState
    <2> QED BY <2>1 DEF Init, MutexInit, MutexTypeOK
  <1>3. TypeOK
    BY <1>2, EmptyIsMap DEF Init, TypeOK
  <1>4. DOMAIN EmptyMap = {}
    BY DEF EmptyMap
  <1>5. \A q : ~Exists(q) /\ ~Live(q)
    BY <1>4 DEF Init, Exists, Live, HasStatus
  <1>6. ASSUME NEW q \in ProposalId PROVE ProposalFits(q)
    <2>1. ProposalMutexBindings[q] = {}
      BY DEF Init, MutexInit
    <2>2. LockHeld(q)
      BY <1>5, <2>1 DEF LockHeld
    <2>3. SetAside(q)
      BY <1>4, <1>5 DEF Init, SetAside, LiveAs
    <2>4. Backed(q)
      BY <1>5 DEF Backed, Creates, Closes, Changes, LiveAs
    <2> QED BY <1>5, <2>2, <2>3, <2>4 DEF ProposalFits
  <1>7. ASSUME NEW s \in Subject PROVE AccountFits(s)
    BY <1>4 DEF Init, AccountFits, IsActive
  <1>8. OneCreation
    BY <1>5 DEF OneCreation, LiveAs
  <1>9. reserved = Cardinality(PendingPersonalCreate)
    BY FS_EmptySet DEF Init
  <1> QED BY <1>1, <1>3, <1>6, <1>7, <1>8, <1>9 DEF PersonalInv, Init

\* Every step keeps the invariant.
LEMMA PersonalStep ==
    ASSUME TypeOK, MutexInv, PersonalInv, [Next]_vars
    PROVE  Kept
  <1>1. CASE NewBlock
    BY <1>1, IdleKeeps DEF NewBlock, TypeOK
  <1>2. CASE UNCHANGED vars
    BY <1>2, IdleKeeps DEF vars, TypeOK
  <1>3. ASSUME NEW p \in ProposalId, NEW s \in Subject, NEW config \in AdminConfigs,
               ProposeCreate(p, s, config)
        PROVE  Kept
    BY <1>3, ProposeCreateKeeps
  <1>4. ASSUME NEW p \in ProposalId, NEW s \in Subject, NEW who \in Admin,
               ProposeClose(p, s, who)
        PROVE  Kept
    BY <1>4, ProposeCloseKeeps
  <1>5. ASSUME NEW p \in ProposalId, NEW s \in Subject, NEW who \in Admin,
               \/ ProposeTransfer(p, s, who)
               \/ \E config \in AdminConfigs : ProposeAdminSetChange(p, s, who, config)
        PROVE  Kept
    BY <1>5, ProposeByThresholdKeeps
  <1>6. ASSUME NEW p \in ProposalId, NEW who \in Admin, NEW approve \in BOOLEAN,
               Vote(p, who, approve)
        PROVE  Kept
    BY <1>6, VoteKeeps
  <1>7. ASSUME NEW p \in ProposalId,
               \/ FinalizeTimeout(p) \/ ExecuteCreate(p) \/ ExecuteClose(p)
               \/ ExecuteAdminSetChange(p) \/ ExecuteTransfer(p) \/ FailExecution(p)
        PROVE  Kept
    BY <1>7, TimeoutKeeps, ExecuteCreateKeeps, ExecuteCloseKeeps, ExecuteChangeKeeps,
       ExecuteTransferKeeps, FailKeeps
  <1> QED BY <1>1, <1>2, <1>3, <1>4, <1>5, <1>6, <1>7 DEF Next, AtBound

\* The four pallets agree in every reachable state, for any number of accounts,
\* administrators and proposals.
THEOREM PersonalInvariant == Spec => [](TypeOK /\ MutexInv /\ PersonalInv)
  <1>1. Init => TypeOK /\ MutexInv /\ PersonalInv
    BY PersonalInit
  <1>2. TypeOK /\ MutexInv /\ PersonalInv /\ [Next]_vars
          => TypeOK' /\ MutexInv' /\ PersonalInv'
    BY PersonalStep DEF Kept
  <1> QED BY <1>1, <1>2, PTL DEF Spec


\* PersonalAccount.TypeOK holds of every reachable state.
THEOREM PersonalTypes == Spec => []TypeOK
  BY PersonalInvariant, PTL

\* do_internal_vote decides exactly as the tickets do: VotesDecide is an
\* invariant, whatever the number of admins and their threshold.
THEOREM TicketsDecide == Spec => []VotesDecide
  <1>1. TypeOK /\ MutexInv /\ PersonalInv => VotesDecide
    BY DEF PersonalInv, ProposalFits, Tickets, VotesDecide, TypeOK, IsMap, Exists
  <1> QED BY <1>1, PersonalInvariant, PTL

\* personal-manage, personal-admins and internal-vote never disagree on an
\* account: AccountStatesAgree is an invariant.
THEOREM PalletsAgree == Spec => []AccountStatesAgree
  <1>1. TypeOK /\ MutexInv /\ PersonalInv => AccountStatesAgree
    <2> SUFFICES ASSUME TypeOK, PersonalInv PROVE AccountStatesAgree
      OBVIOUS
    <2>1. /\ DOMAIN PersonalAccounts \subseteq Subject /\ DOMAIN AdminAccounts \subseteq Subject
          /\ DOMAIN ActivePersonalThresholds \subseteq Subject
      BY DEF TypeOK, IsMap
    <2>2. \A s \in Subject : AccountFits(s)
      BY DEF PersonalInv
    <2> QED BY <2>1, <2>2 DEF AccountFits, AccountStatesAgree
  <1> QED BY <1>1, PersonalInvariant, PTL

\* Nothing a proposal puts aside outlives it or is lost before it ends:
\* PendingRecordsLive is an invariant.
THEOREM NothingLeftAside == Spec => []PendingRecordsLive
  <1>1. TypeOK /\ MutexInv /\ PersonalInv => PendingRecordsLive
    <2> SUFFICES ASSUME TypeOK, PersonalInv PROVE PendingRecordsLive
      OBVIOUS
    <2>1. /\ \A q \in ProposalId : ProposalFits(q)
          /\ \A s \in Subject : AccountFits(s)
      BY DEF PersonalInv
    <2>2. /\ PendingPersonalCreate \subseteq ProposalId
          /\ DOMAIN PendingPersonalThresholds \subseteq ProposalId
          /\ DOMAIN PendingPersonalAdminChangeThresholds \subseteq ProposalId
      BY DEF TypeOK, IsMap
    <2>3. \A q \in ProposalId : Live(q) => Proposals[q].subject \in Subject
      BY RoleOfLive
    <2>4. \A role, q : q \in UNION {LiveOf(s, role) : s \in Subject}
                          <=> q \in ProposalId /\ LiveAs(q, role)
      BY <2>3 DEF LiveOf, LiveAs
    <2>5. \A q \in ProposalId : SetAside(q)
      BY <2>1 DEF ProposalFits
    <2>6. /\ PendingPersonalCreate = DOMAIN PendingPersonalThresholds
          /\ PendingPersonalCreate = UNION {LiveOf(s, "PersonalCreate") : s \in Subject}
          /\ DOMAIN PendingPersonalAdminChangeThresholds
                = UNION {LiveOf(s, "PersonalAdminChange") : s \in Subject}
      BY <2>2, <2>4, <2>5 DEF SetAside
    <2>7. ASSUME NEW s \in Subject
          PROVE  LiveOf(s, "PersonalClose")
                   = {p \in ProposalId : s \in DOMAIN PendingCloseProposal
                                         /\ PendingCloseProposal[s] = p}
      <3>1. ASSUME NEW p \in ProposalId, p \in LiveOf(s, "PersonalClose")
            PROVE  s \in DOMAIN PendingCloseProposal /\ PendingCloseProposal[s] = p
        BY <3>1, RoleOfLive DEF LiveOf
      <3>2. ASSUME NEW p \in ProposalId, s \in DOMAIN PendingCloseProposal,
                   PendingCloseProposal[s] = p
            PROVE  p \in LiveOf(s, "PersonalClose")
        BY <3>2, MarkNeedsActive DEF LiveOf, LiveAs
      <3>3. LiveOf(s, "PersonalClose") \subseteq ProposalId
        BY DEF LiveOf
      <3> QED BY <3>1, <3>2, <3>3
    <2>8. ASSUME NEW s \in Subject
          PROVE  (s \in DOMAIN PersonalAccounts /\ PersonalAccounts[s] = "Pending")
                     <=> LiveOf(s, "PersonalCreate") # {}
      <3>1. ASSUME s \in DOMAIN PersonalAccounts, PersonalAccounts[s] = "Pending"
            PROVE  LiveOf(s, "PersonalCreate") # {}
        BY <2>1, <3>1 DEF AccountFits, LiveOf, LiveAs
      <3>2. ASSUME NEW q \in LiveOf(s, "PersonalCreate")
            PROVE  s \in DOMAIN PersonalAccounts /\ PersonalAccounts[s] = "Pending"
        BY <2>1, <3>2 DEF LiveOf, LiveAs, ProposalFits, Backed, Creates
      <3> QED BY <3>1, <3>2
    <2>9. ASSUME NEW s \in Subject PROVE Cardinality(LiveOf(s, "PersonalCreate")) <= 1
      <3>1. CASE LiveOf(s, "PersonalCreate") = {}
        BY <3>1, FS_EmptySet
      <3>2. ASSUME NEW q \in LiveOf(s, "PersonalCreate")
            PROVE  Cardinality(LiveOf(s, "PersonalCreate")) <= 1
        <4>1. LiveOf(s, "PersonalCreate") = {q}
          BY <3>2 DEF LiveOf, LiveAs, PersonalInv, OneCreation
        <4> QED BY <4>1, FS_Singleton
      <3> QED BY <3>1, <3>2
    <2> QED BY <2>6, <2>7, <2>8, <2>9 DEF PendingRecordsLive, PersonalInv
  <1> QED BY <1>1, PersonalInvariant, PTL

\* An admin-set change has its account for itself from its proposal to its
\* execution, and so never fails once passed: AdminChangeExclusive is an invariant.
THEOREM ChangeExclusive == Spec => []AdminChangeExclusive
  <1>1. TypeOK /\ MutexInv /\ PersonalInv => AdminChangeExclusive
    <2> SUFFICES ASSUME TypeOK, MutexInv, PersonalInv PROVE AdminChangeExclusive
      OBVIOUS
    <2>1. AdminChangeAlone
      BY ChangeIsAlone DEF AdminChangeAlone, LiveOf
    <2>2. ASSUME NEW p \in ProposalId, Executing(p, "PersonalAdminChange")
          PROVE  CanChangeAdmins(p)
      <3>1. Live(p) /\ LiveAs(p, "PersonalAdminChange")
            /\ ballot[p].role = "PersonalAdminChange"
        BY <2>2 DEF Executing, Live, LiveAs
      <3>2. PICK s \in Subject : s = Proposals[p].subject
        BY <3>1, RoleOfLive
      <3>3. InternalProposalMutexes[s].admin_set_mutation_proposal = p
        BY <3>1, <3>2, LockExcludes
      <3>4. HasActiveAdmins(s)
        BY <3>1, <3>2 DEF PersonalInv, ProposalFits, Backed, Changes
      <3> QED BY <3>2, <3>3, <3>4 DEF CanChangeAdmins
    <2> QED BY <2>1, <2>2 DEF AdminChangeExclusive, PassedChangeApplies
  <1> QED BY <1>1, PersonalInvariant, PTL

-------------------------------------------------------------------------------
(* Who decides about an account.                                             *)

\* The step leaves the admins of s as they are.
AdminsStay(s) ==
    s \in DOMAIN AdminAccounts' /\ AdminAccounts'[s].admins = AdminAccounts[s].admins

\* A proposal that comes to nothing removes at most an account still pending.
LEMMA AbandonSparesActive ==
    ASSUME TypeOK, PersonalInv, NEW p \in ProposalId, Live(p), Abandon(p),
           NEW s \in Subject, HasActiveAdmins(s)
    PROVE  AdminsStay(s)
  <1>1. CASE UNCHANGED AdminAccounts
    BY <1>1 DEF AdminsStay, HasActiveAdmins
  <1>2. CASE /\ AdminAccounts[Proposals[p].subject].status = "Pending"
             /\ AdminAccounts' = Remove(AdminAccounts, Proposals[p].subject)
    BY <1>2 DEF AdminsStay, HasActiveAdmins, Remove
  <1> QED BY <1>1, <1>2 DEF Abandon

\* A closing that is executed has the yes votes of all current admins.
LEMMA ClosedByAll ==
    ASSUME TypeOK, PersonalInv, NEW p \in ProposalId, ExecuteClose(p)
    PROVE  ballot[p].yes = AdminAccounts[Proposals[p].subject].admins
  <1>1. HasStatus(p, "PASSED") /\ ballot[p].role = "PersonalClose"
    BY DEF ExecuteClose, Executing
  <1>2. Live(p) /\ LiveAs(p, "PersonalClose") /\ Tickets(p) /\ Unanimous(p)
    BY <1>1 DEF Live, LiveAs, HasStatus, PersonalInv, ProposalFits
  <1>3. AdminAccounts[Proposals[p].subject].admins = ballot[p].snapshot
    BY <1>2 DEF PersonalInv, ProposalFits, Backed, Closes
  <1>4. /\ ballot[p].yes \subseteq ballot[p].snapshot
        /\ Cardinality(ballot[p].yes) >= Cardinality(ballot[p].snapshot)
    BY <1>1, <1>2 DEF Tickets, Unanimous, HasStatus
  <1>5. /\ ballot[p].snapshot \in SUBSET Admin /\ ballot[p].yes \in SUBSET Admin
    BY <1>2, RoleOfLive DEF Ballot
  <1>6. /\ IsFiniteSet(ballot[p].snapshot) /\ Cardinality(ballot[p].snapshot) \in Nat
        /\ Cardinality(ballot[p].yes) \in Nat
    BY <1>5, FiniteAdmins
  <1>7. ballot[p].yes # ballot[p].snapshot
           => Cardinality(ballot[p].yes) < Cardinality(ballot[p].snapshot)
    BY <1>4, <1>6, FS_Subset
  <1> QED BY <1>3, <1>4, <1>6, <1>7

\* A change that is executed has a threshold of the current admins' votes.
LEMMA ChangedByThreshold ==
    ASSUME TypeOK, PersonalInv, NEW p \in ProposalId, ExecuteAdminSetChange(p)
    PROVE  LET s == Proposals[p].subject
           IN  /\ ballot[p].yes \subseteq AdminAccounts[s].admins
               /\ Cardinality(ballot[p].yes) >= ActivePersonalThresholds[s]
  <1>1. HasStatus(p, "PASSED") /\ ballot[p].role = "PersonalAdminChange"
    BY DEF ExecuteAdminSetChange, Executing
  <1>2. LiveAs(p, "PersonalAdminChange") /\ Tickets(p) /\ Backed(p)
    BY <1>1 DEF Live, LiveAs, HasStatus, PersonalInv, ProposalFits
  <1> QED BY <1>1, <1>2 DEF Backed, Changes, Tickets, HasStatus

\* Only an executed closing or change of an account touches its admins.
LEMMA AdminsTouched ==
    ASSUME TypeOK, PersonalInv, [Next]_vars, NEW s \in Subject, HasActiveAdmins(s)
    PROVE  \/ AdminsStay(s)
           \/ \E p \in ProposalId : /\ Proposals[p].subject = s
                                    /\ ExecuteClose(p) \/ ExecuteAdminSetChange(p)
  <1>1. CASE UNCHANGED AdminAccounts
    BY <1>1 DEF AdminsStay, HasActiveAdmins
  <1>2. ASSUME NEW p \in ProposalId, NEW t \in Subject, NEW config \in AdminConfigs,
               ProposeCreate(p, t, config)
        PROVE  AdminsStay(s)
    <2>1. /\ t \notin DOMAIN AdminAccounts
          /\ AdminAccounts' = Insert(AdminAccounts, t,
                                     [status |-> "Pending", admins |-> config[1]])
      BY <1>2 DEF ProposeCreate
    <2> QED BY <2>1 DEF AdminsStay, HasActiveAdmins, Insert
  <1>3. ASSUME NEW p \in ProposalId, Live(p), Abandon(p) PROVE AdminsStay(s)
    BY <1>3, AbandonSparesActive
  <1>4. ASSUME NEW p \in ProposalId, NEW who \in Admin, NEW approve \in BOOLEAN,
               Vote(p, who, approve)
        PROVE  AdminsStay(s)
    BY <1>1, <1>3, <1>4 DEF Vote, Pass, Reject, accountVars, IsOpen, Live, AdminsStay, HasActiveAdmins
  <1>5. ASSUME NEW p \in ProposalId, FinalizeTimeout(p) \/ FailExecution(p)
        PROVE  AdminsStay(s)
    BY <1>3, <1>5 DEF FinalizeTimeout, IsOverdue, Reject, FailExecution, Live
  <1>6. ASSUME NEW p \in ProposalId, ExecuteCreate(p) PROVE AdminsStay(s)
    <2>1. AdminAccounts' = [AdminAccounts EXCEPT ![Proposals[p].subject] =
                              [AdminAccounts[Proposals[p].subject] EXCEPT !.status = "Active"]]
      BY <1>6 DEF ExecuteCreate
    <2>2. AdminAccounts[s] \in [status : AccountStatus, admins : SUBSET Admin]
      BY DEF TypeOK, IsMap, HasActiveAdmins
    <2> QED BY <2>1, <2>2 DEF AdminsStay, HasActiveAdmins
  <1>7. ASSUME NEW p \in ProposalId, Proposals[p].subject # s,
               ExecuteClose(p) \/ ExecuteAdminSetChange(p)
        PROVE  AdminsStay(s)
    BY <1>7 DEF ExecuteClose, ExecuteAdminSetChange, AdminsStay, HasActiveAdmins, Remove
  <1>8. ASSUME NEW p \in ProposalId, NEW t \in Subject, NEW who \in Admin,
               \/ ProposeClose(p, t, who) \/ ProposeTransfer(p, t, who)
               \/ \E config \in AdminConfigs : ProposeAdminSetChange(p, t, who, config)
        PROVE  UNCHANGED AdminAccounts
    BY <1>8 DEF ProposeClose, ProposeTransfer, ProposeAdminSetChange, accountVars
  <1>9. ASSUME NEW p \in ProposalId, ExecuteTransfer(p) PROVE UNCHANGED AdminAccounts
    BY <1>9 DEF ExecuteTransfer, accountVars
  <1>10. NewBlock \/ AtBound \/ UNCHANGED vars => UNCHANGED AdminAccounts
    BY DEF NewBlock, AtBound, vars, accountVars
  <1> QED BY <1>1, <1>2, <1>4, <1>5, <1>6, <1>7, <1>8, <1>9, <1>10 DEF Next

\* The admins of an active account are replaced, and the account is closed, only
\* by the votes of the admins it has at that moment: no step violates
\* DecideByCurrentAdmins.
THEOREM OnlyCurrentAdminsDecide == Spec => DecidedByCurrentAdmins
  <1>1. ASSUME TypeOK, MutexInv, PersonalInv, [Next]_vars
        PROVE  [DecideByCurrentAdmins]_vars
    <2>1. ASSUME NEW p \in ProposalId, NEW role \in Role, Executing(p, role), Executed(p)
          PROVE  p \in ExecutedNow(Proposals[p].subject, role)
      <3>1. Proposals[p].status = "PASSED" /\ Live(p) /\ ballot[p].role = role
        BY <2>1 DEF Executing, Live, HasStatus
      <3>2. Proposals'[p].status = "EXECUTED"
        BY <1>1, <2>1, StatusChanged, StatusNames DEF Executed, TypeOK
      <3> QED BY <3>1, <3>2 DEF ExecutedNow, LiveOf
    <2>2. ASSUME NEW s \in Subject, HasActiveAdmins(s), s \notin DOMAIN AdminAccounts'
          PROVE  \E p \in ExecutedNow(s, "PersonalClose") :
                    ballot[p].yes = AdminAccounts[s].admins
      <3>1. PICK p \in ProposalId : /\ Proposals[p].subject = s
                                    /\ ExecuteClose(p) \/ ExecuteAdminSetChange(p)
        BY <1>1, <2>2, AdminsTouched DEF AdminsStay
      <3>2. ~ExecuteAdminSetChange(p)
        BY <2>2 DEF ExecuteAdminSetChange, HasActiveAdmins
      <3>3. ExecuteClose(p) /\ Executing(p, "PersonalClose") /\ Executed(p)
        BY <3>1, <3>2 DEF ExecuteClose
      <3>4. p \in ExecutedNow(s, "PersonalClose")
        BY <2>1, <3>1, <3>3 DEF Role
      <3>5. ballot[p].yes = AdminAccounts[s].admins
        BY <1>1, <3>1, <3>3, ClosedByAll
      <3> QED BY <3>4, <3>5
    <2>3. ASSUME NEW s \in Subject, HasActiveAdmins(s), s \in DOMAIN AdminAccounts',
                 AdminAccounts'[s].admins # AdminAccounts[s].admins
          PROVE  \E p \in ExecutedNow(s, "PersonalAdminChange") :
                    /\ ballot[p].yes \subseteq AdminAccounts[s].admins
                    /\ Cardinality(ballot[p].yes) >= ActivePersonalThresholds[s]
                    /\ AdminAccounts'[s].admins = ballot[p].admins
      <3>1. PICK p \in ProposalId : /\ Proposals[p].subject = s
                                    /\ ExecuteClose(p) \/ ExecuteAdminSetChange(p)
        BY <1>1, <2>3, AdminsTouched DEF AdminsStay
      <3>2. ~ExecuteClose(p)
        BY <2>3, <3>1 DEF ExecuteClose, Remove
      <3>3. /\ ExecuteAdminSetChange(p) /\ Executing(p, "PersonalAdminChange") /\ Executed(p)
            /\ AdminAccounts' = [AdminAccounts EXCEPT ![s].admins = ballot[p].admins]
        BY <3>1, <3>2 DEF ExecuteAdminSetChange
      <3>4. p \in ExecutedNow(s, "PersonalAdminChange")
        BY <2>1, <3>1, <3>3 DEF Role
      <3>5. /\ ballot[p].yes \subseteq AdminAccounts[s].admins
            /\ Cardinality(ballot[p].yes) >= ActivePersonalThresholds[s]
        BY <1>1, <3>1, <3>3, ChangedByThreshold
      <3>6. AdminAccounts[s] \in [status : AccountStatus, admins : SUBSET Admin]
        BY <1>1, <2>3 DEF TypeOK, IsMap, HasActiveAdmins
      <3>7. AdminAccounts'[s].admins = ballot[p].admins
        BY <2>3, <3>3, <3>6 DEF HasActiveAdmins
      <3> QED BY <3>4, <3>5, <3>7
    <2> QED BY <2>2, <2>3 DEF DecideByCurrentAdmins
  <1> QED BY <1>1, PersonalInvariant, PTL DEF Spec, DecidedByCurrentAdmins
===============================================================================
