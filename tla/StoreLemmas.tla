------------------------------ MODULE StoreLemmas ------------------------------
(***************************************************************************)
(* Lemmas about the operators that every user of the proposal store relies  *)
(* on: the status change, the active lists and the lock table of mutex.rs,  *)
(* which stays exact under every acquire and release.                       *)
(***************************************************************************)
EXTENDS ProposalMutex, DataLemmas

-------------------------------------------------------------------------------
(* Proposals.                                                                *)

\* Ids are compared as numbers.
LEMMA IdsAreNat == \A p \in ProposalId : p \in Nat
  BY StoreAssumption DEF ProposalId

\* Sets of proposals are finite and have at most as many elements as fit.
LEMMA FiniteIds ==
    ASSUME NEW T \in SUBSET ProposalId
    PROVE  IsFiniteSet(T) /\ Cardinality(T) \in Nat
  <1>1. IsFiniteSet(ProposalId)
    BY FS_Interval, StoreAssumption DEF ProposalId
  <1>2. IsFiniteSet(T)
    BY <1>1, FS_Subset
  <1> QED BY <1>2, FS_CardinalityType

\* A status change leaves a well-typed proposal table.
LEMMA SetStatusTypes ==
    ASSUME IsMap(Proposals, ProposalId, ProposalRecord), NEW p, NEW st \in Status,
           SetProposalStatus(p, st)
    PROVE  IsMap(Proposals, ProposalId, ProposalRecord)'
  <1>1. p \in DOMAIN Proposals /\ Proposals[p] \in ProposalRecord
    BY LookupInMap DEF SetProposalStatus, Exists
  <1>2. [Proposals[p] EXCEPT !.status = st] \in ProposalRecord
    BY <1>1 DEF ProposalRecord
  <1>3. Proposals' = [Proposals EXCEPT ![p] = [Proposals[p] EXCEPT !.status = st]]
    BY DEF SetProposalStatus
  <1> QED BY <1>1, <1>2, <1>3, ExceptIsMap

\* A status change touches one proposal and only its status.
LEMMA StatusChanged ==
    ASSUME IsMap(Proposals, ProposalId, ProposalRecord), NEW p \in ProposalId,
           NEW st \in Status, SetProposalStatus(p, st)
    PROVE  /\ Exists(p) /\ Exists(p)' /\ Proposals'[p].status = st
           /\ Proposals'[p].kind = Proposals[p].kind
           /\ Proposals'[p].stage = Proposals[p].stage
           /\ Proposals'[p].subject = Proposals[p].subject
           /\ Proposals'[p].end = Proposals[p].end
           /\ ValidStatusTransition(Proposals[p].status, st)
           /\ \A q \in ProposalId \ {p} :
                 /\ Exists(q)' <=> Exists(q)
                 /\ Exists(q) => Proposals'[q] = Proposals[q]
  <1>1. p \in DOMAIN Proposals /\ Proposals[p] \in ProposalRecord
    BY LookupInMap DEF SetProposalStatus, Exists
  <1>2. Proposals' = [Proposals EXCEPT ![p].status = st]
    BY DEF SetProposalStatus
  <1> QED BY <1>1, <1>2 DEF SetProposalStatus, Exists, ProposalRecord

\* The status vocabulary the handlers write.
LEMMA StatusNames == {"PASSED", "REJECTED", "EXECUTED", "EXECUTION_FAILED"} \subseteq Status
  BY DEF Status

\* Removing a proposal from its subject's active list.
LEMMA RemoveActiveTypes ==
    ASSUME MutexTypeOK, NEW s, NEW p, RemoveActiveProposal(s, p)
    PROVE  ActiveProposalsBySubject' \in [Subject -> SUBSET ProposalId]
  BY DEF MutexTypeOK, RemoveActiveProposal

-------------------------------------------------------------------------------
(* The lock table.                                                           *)

\* Releasing the locks of a proposal never makes a count negative.
LEMMA ReleaseTypes ==
    ASSUME MutexTypeOK, NEW p \in ProposalId, ReleaseMutexes(p)
    PROVE  /\ InternalProposalMutexes' \in [Subject -> MutexState]
           /\ ProposalMutexBindings' \in [ProposalId -> SUBSET Binding]
  <1>1. ASSUME NEW s \in Subject PROVE Released(s, p) \in MutexState
    <2>1. InternalProposalMutexes[s] \in MutexState
      BY DEF MutexTypeOK
    <2> QED BY <2>1 DEF Released, MutexState
  <1>2. InternalProposalMutexes' = [s \in Subject |-> Released(s, p)]
    BY DEF ReleaseMutexes
  <1>3. InternalProposalMutexes' \in [Subject -> MutexState]
    BY <1>1, <1>2
  <1>4. ProposalMutexBindings' \in [ProposalId -> SUBSET Binding]
    BY DEF ReleaseMutexes, MutexTypeOK
  <1> QED BY <1>3, <1>4

\* Taking a lock keeps both tables well typed.
LEMMA AcquireTypes ==
    ASSUME MutexTypeOK, NEW p \in ProposalId, NEW s \in Subject,
           NEW kind \in MutexKind, AcquireMutex(p, s, kind)
    PROVE  /\ InternalProposalMutexes' \in [Subject -> MutexState]
           /\ ProposalMutexBindings' \in [ProposalId -> SUBSET Binding]
  <1>1. InternalProposalMutexes[s] \in MutexState
    BY DEF MutexTypeOK
  <1>2. [subject |-> s, kind |-> kind] \in Binding
    BY DEF Binding
  <1>3. Acquired(InternalProposalMutexes[s], p, kind) \in MutexState
    BY <1>1 DEF Acquired, MutexState
  <1>4. InternalProposalMutexes' \in [Subject -> MutexState]
    BY <1>3 DEF AcquireMutex, MutexTypeOK
  <1>5. ProposalMutexBindings' \in [ProposalId -> SUBSET Binding]
    BY <1>2 DEF AcquireMutex, MutexTypeOK
  <1> QED BY <1>4, <1>5

\* MutexAccounting is not inductive: a new proposal must come without bindings,
\* or taking its lock would not change the number of holders.
FreshUnbound ==
    \A p \in ProposalId : p >= NextProposalId => ProposalMutexBindings[p] = {}

MutexInv == MutexAccounting /\ FreshUnbound

\* Holders of a lock are finitely many.
LEMMA HoldersFinite ==
    ASSUME NEW s, NEW kind
    PROVE  IsFiniteSet(Holders(s, kind)) /\ Cardinality(Holders(s, kind)) \in Nat
  BY FiniteIds DEF Holders

\* Who holds what after a release.
LEMMA ReleaseHolders ==
    ASSUME MutexTypeOK, NEW p \in ProposalId, ReleaseMutexes(p), NEW s, NEW kind
    PROVE  Holders(s, kind)' = Holders(s, kind) \ {p}
  BY DEF MutexTypeOK, ReleaseMutexes, Holders

\* Releasing keeps the table and the bindings in agreement.
LEMMA ReleaseKeepsMutexInv ==
    ASSUME MutexTypeOK, MutexInv, NEW p \in ProposalId, ReleaseMutexes(p),
           UNCHANGED NextProposalId
    PROVE  MutexInv'
  <1>1. FreshUnbound'
    BY DEF MutexInv, FreshUnbound, ReleaseMutexes, MutexTypeOK
  <1>2. ASSUME NEW s \in Subject
        PROVE  LET state == InternalProposalMutexes'[s]
                   owner == state.admin_set_mutation_proposal
               IN  /\ state.regular_active_count = Cardinality(Holders(s, "Regular")')
                   /\ Holders(s, "AdminSetMutationExclusive")' =
                        (IF owner = NoOwner THEN {} ELSE {owner})
                   /\ owner = NoOwner \/ Holders(s, "Regular")' = {}
    <2> DEFINE old == InternalProposalMutexes[s]
               R == Holders(s, "Regular")
               X == Holders(s, "AdminSetMutationExclusive")
    <2>1. /\ old \in MutexState
          /\ old.regular_active_count = Cardinality(R)
          /\ X = (IF old.admin_set_mutation_proposal = NoOwner THEN {}
                  ELSE {old.admin_set_mutation_proposal})
          /\ old.admin_set_mutation_proposal = NoOwner \/ R = {}
      BY DEF MutexInv, MutexAccounting, MutexTypeOK
    <2>2. InternalProposalMutexes'[s] = Released(s, p)
      BY DEF ReleaseMutexes
    <2>3. /\ [subject |-> s, kind |-> "Regular"] \in ProposalMutexBindings[p] <=> p \in R
          /\ [subject |-> s, kind |-> "AdminSetMutationExclusive"]
                \in ProposalMutexBindings[p] <=> p \in X
      BY DEF Holders
    <2>4. R' = R \ {p} /\ X' = X \ {p}
      BY ReleaseHolders
    <2>5. IsFiniteSet(R) /\ Cardinality(R) \in Nat
      BY HoldersFinite
    <2>6. Released(s, p).regular_active_count = Cardinality(R \ {p})
      <3>1. CASE p \in R
        <4>1. Cardinality(R \ {p}) = Cardinality(R) - 1
          BY <2>5, <3>1, FS_RemoveElement
        <4>2. Cardinality(R) > 0
          BY <2>5, <3>1, FS_EmptySet
        <4> HIDE DEF R, X
        <4> QED BY <2>1, <2>3, <3>1, <4>1, <4>2, <2>5 DEF Released
      <3>2. CASE p \notin R
        <4>1. R \ {p} = R
          BY <3>2
        <4> HIDE DEF R, X
        <4> QED BY <2>1, <2>3, <3>2, <4>1 DEF Released
      <3> QED BY <3>1, <3>2
    <2>7. Released(s, p).admin_set_mutation_proposal =
            IF p \in X THEN NoOwner ELSE old.admin_set_mutation_proposal
      <3> HIDE DEF R, X
      <3> QED BY <2>1, <2>3 DEF Released
    <2> HIDE DEF R, X
    <2>8. X \ {p} = (IF Released(s, p).admin_set_mutation_proposal = NoOwner THEN {}
                     ELSE {Released(s, p).admin_set_mutation_proposal})
      BY <2>1, <2>7
    <2>9. Released(s, p).admin_set_mutation_proposal = NoOwner \/ R \ {p} = {}
      BY <2>1, <2>7
    <2> QED BY <2>2, <2>4, <2>6, <2>8, <2>9 DEF R, X
  <1>3. MutexAccounting'
    BY <1>2 DEF MutexAccounting
  <1> QED BY <1>1, <1>3 DEF MutexInv

\* Taking a lock for a fresh proposal keeps them in agreement.
LEMMA AcquireKeepsMutexInv ==
    ASSUME MutexTypeOK, NextProposalId \in Nat, MutexInv, NEW p \in ProposalId, NEW t \in Subject,
           NEW kind \in MutexKind, AcquireMutex(p, t, kind), AllocateProposalId(p)
    PROVE  MutexInv'
  <1>0. MutexTypeOK /\ NextProposalId \in Nat /\ p = NextProposalId
        /\ NextProposalId' = NextProposalId + 1
    BY DEF AllocateProposalId
  <1>1. ProposalMutexBindings[p] = {}
    BY <1>0 DEF MutexInv, FreshUnbound
  <1>2. ProposalMutexBindings' =
          [ProposalMutexBindings EXCEPT ![p] = {[subject |-> t, kind |-> kind]}]
    BY <1>1 DEF AcquireMutex
  <1>3. FreshUnbound'
    <2> SUFFICES ASSUME NEW q \in ProposalId, q >= NextProposalId'
                 PROVE  ProposalMutexBindings'[q] = {}
      BY DEF FreshUnbound
    <2>1. q \in Nat /\ q # p /\ q >= NextProposalId
      BY <1>0, StoreAssumption DEF ProposalId
    <2> QED BY <1>0, <1>2, <2>1 DEF MutexInv, FreshUnbound, MutexTypeOK
  <1>4. ASSUME NEW s \in Subject, NEW k \in MutexKind
        PROVE  Holders(s, k)' = IF s = t /\ k = kind THEN Holders(s, k) \cup {p}
                                ELSE Holders(s, k)
    BY <1>0, <1>1, <1>2 DEF Holders, MutexTypeOK
  <1>5. ASSUME NEW s \in Subject, NEW k PROVE p \notin Holders(s, k)
    BY <1>1 DEF Holders
  <1>6. InternalProposalMutexes' =
          [InternalProposalMutexes EXCEPT ![t] =
             Acquired(InternalProposalMutexes[t], p, kind)]
    BY DEF AcquireMutex
  <1>7. ASSUME NEW s \in Subject
        PROVE  LET state == InternalProposalMutexes'[s]
                   owner == state.admin_set_mutation_proposal
               IN  /\ state.regular_active_count = Cardinality(Holders(s, "Regular")')
                   /\ Holders(s, "AdminSetMutationExclusive")' =
                        (IF owner = NoOwner THEN {} ELSE {owner})
                   /\ owner = NoOwner \/ Holders(s, "Regular")' = {}
    <2> DEFINE old == InternalProposalMutexes[s]
               R == Holders(s, "Regular")
               X == Holders(s, "AdminSetMutationExclusive")
    <2>1. /\ old \in MutexState
          /\ old.regular_active_count = Cardinality(R)
          /\ X = (IF old.admin_set_mutation_proposal = NoOwner THEN {}
                  ELSE {old.admin_set_mutation_proposal})
          /\ old.admin_set_mutation_proposal = NoOwner \/ R = {}
      BY <1>0 DEF MutexInv, MutexAccounting, MutexTypeOK
    <2>2. IsFiniteSet(R) /\ Cardinality(R) \in Nat
      BY HoldersFinite
    <2>3. CASE s # t
      <3>1. R' = R /\ X' = X /\ InternalProposalMutexes'[s] = old
        BY <1>0, <1>4, <1>6, <2>3 DEF MutexKind, MutexTypeOK
      <3> HIDE DEF R, X
      <3> QED BY <2>1, <3>1 DEF R, X
    <2>4. CASE s = t /\ kind = "Regular"
      <3>1. R' = R \cup {p} /\ X' = X
        BY <1>4, <2>4 DEF MutexKind
      <3>2. Cardinality(R \cup {p}) = Cardinality(R) + 1
        BY <1>5, <2>2, FS_AddElement
      <3>3. old.admin_set_mutation_proposal = NoOwner
        BY <2>4 DEF AcquireMutex, CanAcquire
      <3>4. InternalProposalMutexes'[s] =
              [old EXCEPT !.regular_active_count = @ + 1]
        BY <1>0, <1>6, <2>4 DEF Acquired, MutexTypeOK
      <3>5. /\ InternalProposalMutexes'[s].regular_active_count = Cardinality(R) + 1
            /\ InternalProposalMutexes'[s].admin_set_mutation_proposal = NoOwner
        BY <2>1, <3>3, <3>4 DEF MutexState
      <3> HIDE DEF R, X
      <3> QED BY <2>1, <3>1, <3>2, <3>3, <3>5 DEF R, X
    <2>5. CASE s = t /\ kind = "AdminSetMutationExclusive"
      <3>1. R' = R /\ X' = X \cup {p}
        BY <1>4, <2>5 DEF MutexKind
      <3>2. /\ old.admin_set_mutation_proposal = NoOwner
            /\ old.regular_active_count = 0
        BY <2>5 DEF AcquireMutex, CanAcquire
      <3>3. R = {}
        BY <2>1, <2>2, <3>2, FS_EmptySet
      <3>4. InternalProposalMutexes'[s] =
              [old EXCEPT !.admin_set_mutation_proposal = p]
        BY <1>0, <1>6, <2>5 DEF Acquired, MutexTypeOK
      <3>5. /\ InternalProposalMutexes'[s].regular_active_count = Cardinality(R)
            /\ InternalProposalMutexes'[s].admin_set_mutation_proposal = p
        BY <2>1, <3>4 DEF MutexState
      <3>6. p # NoOwner
        BY StoreAssumption DEF NoOwner, ProposalId
      <3> HIDE DEF R, X
      <3> QED BY <2>1, <3>1, <3>2, <3>3, <3>5, <3>6 DEF R, X
    <2> QED BY <2>3, <2>4, <2>5 DEF MutexKind
  <1>8. MutexAccounting'
    BY <1>7 DEF MutexAccounting
  <1> QED BY <1>3, <1>8 DEF MutexInv

\* The tables start empty and in agreement.
LEMMA MutexInitExact == MutexInit => MutexInv
  <1> SUFFICES ASSUME MutexInit PROVE MutexInv
    OBVIOUS
  <1>1. \A s, k : Holders(s, k) = {}
    BY DEF MutexInit, Holders
  <1>2. Cardinality({}) = 0
    BY FS_EmptySet
  <1>3. MutexAccounting
    BY <1>1, <1>2 DEF MutexInit, EmptyMutex, MutexAccounting
  <1>4. FreshUnbound
    BY DEF MutexInit, FreshUnbound
  <1> QED BY <1>3, <1>4 DEF MutexInv
===============================================================================
