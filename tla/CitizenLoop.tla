------------------------------ MODULE CitizenLoop ------------------------------
(***************************************************************************)
(* Proof that numbers and wallets stay bound one to one, that no signed     *)
(* authorisation moves a number twice, that no number and no wallet is      *)
(* rewarded twice, that the counts of voters are exact through every write  *)
(* and every day the maintenance works off, and that the pallet implements  *)
(* the electorate the votes rely on; for any number of citizens, wallets,   *)
(* registrars, rebindings, days and writes.                                 *)
(***************************************************************************)
EXTENDS CitizenIdentity, DataLemmas, SequenceTheorems

ActiveCids == {c \in DOMAIN CidRegistry : OccupiedActive(c)}

\* Every authorisation used names a revision the number has left behind.
RevisionsSpent ==
    \A i \in 1..Len(rebinds) :
        /\ rebinds[i].cid \in DOMAIN BindingRevisionByCid
        /\ rebinds[i].revision < BindingRevisionByCid[rebinds[i].cid]

LoopInv ==
    /\ BindingTypeOK
    /\ IsFiniteSet(DOMAIN CidRegistry)
    /\ BindingsClosed
    /\ RevisionsSpent
    /\ AuthorisedOnce

\* The pallet's genesis.
LEMMA LoopInit == BindingInit => LoopInv
  <1> SUFFICES ASSUME BindingInit PROVE LoopInv
    OBVIOUS
  <1>1. BindingTypeOK
    BY DEF BindingInit, BindingTypeOK, IsMap, EmptyMap
  <1>2. DOMAIN CidRegistry = {}
    BY DEF BindingInit, EmptyMap
  <1>3. IsFiniteSet(DOMAIN CidRegistry)
    BY <1>2, FS_EmptySet
  <1>4. ActiveCids = {}
    BY <1>2 DEF ActiveCids
  <1>5. CidCount = Cardinality(ActiveCids)
    BY <1>4, FS_EmptySet DEF BindingInit
  <1>6. BindingsClosed
    BY <1>2, <1>5 DEF BindingInit, EmptyMap, BindingsClosed, ActiveCids
  <1>7. RevisionsSpent /\ AuthorisedOnce
    BY DEF BindingInit, RevisionsSpent, AuthorisedOnce
  <1> QED BY <1>1, <1>3, <1>6, <1>7 DEF LoopInv

\* Occupying a number with a wallet neither has anyone else, for the first time or again.
LEMMA OccupyLoop ==
    ASSUME LoopInv, NEW r \in Registrar \cup {Self}, NEW a \in Account, NEW c \in Cid,
           BindingAvailable(c, a), DoOccupyCid(r, c, a), BindAccountId(c, a)
    PROVE  LoopInv'
  <1> USE DEF LoopInv
  <1>1. BindingTypeOK'
    <2>1. [registrar |-> r, commitment |-> a, status |-> "active"] \in CidRecord
      BY DEF CidRecord
    <2>2. IsMap(CidRegistry, Cid, CidRecord)' /\ CidCount' \in Nat
      BY <2>1, InsertIsMap DEF BindingTypeOK, DoOccupyCid
    <2>3. IsMap(AccountIdByCid, Cid, Account)' /\ IsMap(CidByAccountId, Account, Cid)'
          /\ IsMap(BindingRevisionByCid, Cid, Nat \ {0})' /\ rebinds' \in Seq(Authorisation)
      BY InsertIsMap DEF BindingTypeOK, BindAccountId
    <2> QED BY <2>2, <2>3 DEF BindingTypeOK
  <1>2. DOMAIN CidRegistry' = DOMAIN CidRegistry \cup {c}
    BY DEF DoOccupyCid, OccupiedActive, Insert
  <1>3. IsFiniteSet(DOMAIN CidRegistry')
    BY <1>2, FS_AddElement
  <1>4. CidCount' = Cardinality(ActiveCids')
    <2>1. IsFiniteSet(ActiveCids) /\ CidCount = Cardinality(ActiveCids)
      BY FS_Subset DEF ActiveCids, BindingsClosed
    <2>2. CASE c \notin DOMAIN CidRegistry
      <3>1. ActiveCids' = ActiveCids \cup {c} /\ c \notin ActiveCids
        BY <2>2 DEF ActiveCids, DoOccupyCid, OccupiedActive, Insert
      <3>2. Cardinality(ActiveCids') = Cardinality(ActiveCids) + 1
        BY <2>1, <3>1, FS_AddElement
      <3>3. CidCount' = CidCount + 1
        BY <2>2 DEF DoOccupyCid, OccupiedActive
      <3> QED BY <2>1, <3>2, <3>3
    <2>3. CASE c \in DOMAIN CidRegistry
      <3>1. UNCHANGED <<CidRegistry, CidCount>>
        BY <2>3 DEF DoOccupyCid
      <3> QED BY <2>1, <3>1 DEF ActiveCids, OccupiedActive
    <2> QED BY <2>2, <2>3
  <1>5. /\ AccountIdByCid' = Insert(AccountIdByCid, c, a)
        /\ CidByAccountId' = Insert(CidByAccountId, a, c)
        /\ UNCHANGED rebinds
    BY DEF BindAccountId
  <1>6. \A d \in DOMAIN AccountIdByCid' :
           /\ AccountIdByCid'[d] \in DOMAIN CidByAccountId'
           /\ CidByAccountId'[AccountIdByCid'[d]] = d
    BY <1>5 DEF BindingAvailable, BindingsClosed, BindingComplete, Insert
  <1>7. \A b \in DOMAIN CidByAccountId' :
           /\ CidByAccountId'[b] \in DOMAIN AccountIdByCid'
           /\ AccountIdByCid'[CidByAccountId'[b]] = b
    BY <1>5 DEF BindingAvailable, BindingsClosed, BindingComplete, Insert
  <1>8. DOMAIN AccountIdByCid' = DOMAIN AccountIdByCid \cup {c}
        /\ DOMAIN BindingRevisionByCid' = DOMAIN BindingRevisionByCid \cup {c}
    BY <1>5 DEF BindAccountId, Insert
  <1>9. BindingsClosed'
    BY <1>2, <1>4, <1>6, <1>7, <1>8 DEF BindingsClosed, BindingComplete, ActiveCids
  <1>10. \A d \in DOMAIN BindingRevisionByCid :
            d \in DOMAIN BindingRevisionByCid' /\ BindingRevisionByCid'[d] = BindingRevisionByCid[d]
    BY DEF BindAccountId, Insert
  <1>11. RevisionsSpent'
    BY <1>5, <1>10 DEF RevisionsSpent
  <1>12. AuthorisedOnce'
    BY <1>5 DEF AuthorisedOnce
  <1> QED BY <1>1, <1>3, <1>9, <1>11, <1>12

\* Moving a number to a wallet nobody has: the authorisation names the revision that ends.
LEMMA RebindLoop ==
    ASSUME LoopInv, NEW kind \in {"self", "admin"}, NEW c \in Cid, NEW a \in Account,
           RebindAccountId(kind, c, a)
    PROVE  LoopInv'
  <1> USE DEF LoopInv
  <1> DEFINE old == AccountIdByCid[c]
             auth == RebindAuthorisation(kind, c, a)
  <1>0. /\ c \in DOMAIN AccountIdByCid /\ c \in DOMAIN BindingRevisionByCid
        /\ old # a /\ old \in Account /\ BindingRevisionByCid[c] \in Nat \ {0}
        /\ a \in DOMAIN CidByAccountId => CidByAccountId[a] = c
        /\ AccountIdByCid' = Insert(AccountIdByCid, c, a)
        /\ CidByAccountId' = Insert(Remove(CidByAccountId, old), a, c)
        /\ BindingRevisionByCid' = Insert(BindingRevisionByCid, c, BindingRevisionByCid[c] + 1)
        /\ rebinds' = Append(rebinds, auth)
        /\ UNCHANGED <<CidRegistry, CidCount>>
    BY DEF RebindAccountId, RevisionAfterRebind, BindingTypeOK, IsMap
  <1>1. BindingTypeOK'
    <2>1. IsMap(Remove(CidByAccountId, old), Account, Cid)
      BY DEF BindingTypeOK, IsMap, Remove
    <2>2. auth \in Authorisation
      BY <1>0 DEF RebindAuthorisation, Authorisation
    <2>3. rebinds' \in Seq(Authorisation)
      BY <1>0, <2>2 DEF BindingTypeOK
    <2> QED BY <1>0, <2>1, <2>3, InsertIsMap DEF BindingTypeOK
  <1>2. a \notin DOMAIN CidByAccountId
    BY <1>0 DEF BindingsClosed
  <1>3. \A d \in DOMAIN AccountIdByCid' :
           /\ AccountIdByCid'[d] \in DOMAIN CidByAccountId'
           /\ CidByAccountId'[AccountIdByCid'[d]] = d
    BY <1>0, <1>2 DEF BindingsClosed, BindingComplete, Insert, Remove
  <1>4. \A b \in DOMAIN CidByAccountId' :
           /\ CidByAccountId'[b] \in DOMAIN AccountIdByCid'
           /\ AccountIdByCid'[CidByAccountId'[b]] = b
    BY <1>0, <1>2 DEF BindingsClosed, BindingComplete, Insert, Remove
  <1>5. DOMAIN AccountIdByCid' = DOMAIN AccountIdByCid
        /\ DOMAIN BindingRevisionByCid' = DOMAIN BindingRevisionByCid
    BY <1>0 DEF Insert
  <1>6. BindingsClosed'
    BY <1>0, <1>3, <1>4, <1>5 DEF BindingsClosed, BindingComplete, OccupiedActive
  <1>7. auth.cid = c /\ auth.revision = BindingRevisionByCid[c]
    BY DEF RebindAuthorisation
  <1>8. \A i \in 1..Len(rebinds) : rebinds[i] # auth
    BY <1>0, <1>7 DEF RevisionsSpent, BindingTypeOK
  <1>9. rebinds \in Seq(Authorisation)
    BY DEF BindingTypeOK
  <1> HIDE DEF auth
  <1>10. /\ Len(rebinds') = Len(rebinds) + 1
         /\ \A i \in 1..Len(rebinds) : rebinds'[i] = rebinds[i]
         /\ rebinds'[Len(rebinds) + 1] = auth
    BY <1>0, <1>9
  <1>11. AuthorisedOnce'
    BY <1>8, <1>9, <1>10 DEF AuthorisedOnce
  <1>12. RevisionsSpent'
    <2> SUFFICES ASSUME NEW i \in 1..Len(rebinds')
                 PROVE  /\ rebinds'[i].cid \in DOMAIN BindingRevisionByCid'
                        /\ rebinds'[i].revision < BindingRevisionByCid'[rebinds'[i].cid]
      BY DEF RevisionsSpent
    <2>1. CASE i = Len(rebinds) + 1
      BY <1>0, <1>7, <1>10, <2>1 DEF Insert
    <2>2. CASE i # Len(rebinds) + 1
      <3>1. i \in 1..Len(rebinds) /\ rebinds'[i] = rebinds[i]
        BY <1>9, <1>10, <2>2
      <3>2. /\ rebinds[i].cid \in DOMAIN BindingRevisionByCid
            /\ rebinds[i].revision < BindingRevisionByCid[rebinds[i].cid]
            /\ rebinds[i].revision \in Nat
        <4>1. rebinds[i] \in Authorisation
          BY <1>9, <3>1
        <4>2. rebinds[i].revision \in Nat
          BY <4>1 DEF Authorisation
        <4> QED BY <3>1, <4>2 DEF RevisionsSpent
      <3> QED BY <1>0, <3>1, <3>2 DEF Insert
    <2> QED BY <2>1, <2>2
  <1>13. IsFiniteSet(DOMAIN CidRegistry)'
    BY <1>0
  <1> QED BY <1>1, <1>6, <1>11, <1>12, <1>13

\* A revoked number stays in the register and keeps its wallet; its revision moves on.
LEMMA TombstoneLoop ==
    ASSUME LoopInv, NEW c \in Cid, OccupiedActive(c), TombstoneCidRecord(c)
    PROVE  LoopInv'
  <1> USE DEF LoopInv
  <1>0. /\ c \in DOMAIN CidRegistry /\ c \in DOMAIN BindingRevisionByCid
        /\ CidRegistry[c] \in CidRecord /\ BindingRevisionByCid[c] \in Nat \ {0}
        /\ CidRegistry' = [CidRegistry EXCEPT ![c].status = "revoked"]
        /\ BindingRevisionByCid' = [BindingRevisionByCid EXCEPT ![c] = @ + 1]
        /\ CidCount' = IF CidCount > 0 THEN CidCount - 1 ELSE 0
        /\ UNCHANGED <<AccountIdByCid, CidByAccountId, rebinds>>
    BY DEF TombstoneCidRecord, OccupiedActive, BindingTypeOK, IsMap
  <1>1. BindingTypeOK'
    <2>1. [CidRegistry[c] EXCEPT !.status = "revoked"] \in CidRecord
      BY <1>0 DEF CidRecord
    <2>2. IsMap(CidRegistry, Cid, CidRecord)'
      BY <1>0, <2>1 DEF BindingTypeOK, IsMap
    <2>3. IsMap(BindingRevisionByCid, Cid, Nat \ {0})'
      <3>1. BindingRevisionByCid[c] + 1 \in Nat \ {0}
        BY <1>0
      <3> QED BY <1>0, <3>1, ExceptIsMap DEF BindingTypeOK
    <2>4. CidCount' \in Nat
      BY <1>0 DEF BindingTypeOK
    <2> QED BY <1>0, <2>2, <2>3, <2>4 DEF BindingTypeOK
  <1>2. DOMAIN CidRegistry' = DOMAIN CidRegistry
        /\ DOMAIN BindingRevisionByCid' = DOMAIN BindingRevisionByCid
    BY <1>0
  <1>3. CidCount' = Cardinality(ActiveCids')
    <2>1. IsFiniteSet(ActiveCids) /\ CidCount = Cardinality(ActiveCids)
      BY FS_Subset DEF ActiveCids, BindingsClosed
    <2>2. c \in ActiveCids
      BY <1>0 DEF ActiveCids
    <2>3. ActiveCids' = ActiveCids \ {c}
      BY <1>0, <1>2 DEF ActiveCids, OccupiedActive, CidRecord
    <2>4. Cardinality(ActiveCids') = Cardinality(ActiveCids) - 1
      BY <2>1, <2>2, <2>3, FS_RemoveElement
    <2>5. Cardinality(ActiveCids) \in Nat /\ Cardinality(ActiveCids) > 0
      BY <2>1, <2>2, FS_CardinalityType, FS_EmptySet
    <2> QED BY <1>0, <2>1, <2>4, <2>5
  <1>4. BindingsClosed'
    BY <1>0, <1>2, <1>3 DEF BindingsClosed, BindingComplete, ActiveCids
  <1>5. RevisionsSpent'
    <2> SUFFICES ASSUME NEW i \in 1..Len(rebinds)
                 PROVE  /\ rebinds[i].cid \in DOMAIN BindingRevisionByCid'
                        /\ rebinds[i].revision < BindingRevisionByCid'[rebinds[i].cid]
      BY <1>0 DEF RevisionsSpent
    <2>1. /\ rebinds[i].cid \in DOMAIN BindingRevisionByCid
          /\ rebinds[i].revision < BindingRevisionByCid[rebinds[i].cid]
          /\ rebinds[i].revision \in Nat
      <3>1. rebinds[i] \in Authorisation
        BY DEF BindingTypeOK
      <3>2. rebinds[i].revision \in Nat
        BY <3>1 DEF Authorisation
      <3> QED BY <3>2 DEF RevisionsSpent
    <2> QED BY <1>0, <2>1
  <1>6. AuthorisedOnce' /\ IsFiniteSet(DOMAIN CidRegistry)'
    BY <1>0, <1>2 DEF AuthorisedOnce
  <1> QED BY <1>1, <1>4, <1>5, <1>6

\* A call that leaves the register alone.
LEMMA SameLoop == ASSUME LoopInv, UNCHANGED bindingVars PROVE LoopInv'
  BY DEF LoopInv, bindingVars, BindingTypeOK, BindingsClosed, BindingComplete, OccupiedActive,
         RevisionsSpent, AuthorisedOnce

\* Every call, every round of on_idle and every block keeps the loop closed.
LEMMA LoopStep == ASSUME LoopInv, [Next]_vars PROVE LoopInv'
  <1>1. CASE BindingCall
    <2>1. ASSUME NEW a \in Account, NEW c \in Cid, SelfOccupyCid(a, c) PROVE LoopInv'
      BY <2>1, OccupyLoop DEF SelfOccupyCid
    <2>2. ASSUME NEW r \in Registrar, NEW a \in Account, NEW c \in Cid, OccupyCid(r, a, c)
          PROVE  LoopInv'
      BY <2>2, OccupyLoop DEF OccupyCid
    <2>3. ASSUME NEW c \in Cid, NEW a \in Account, SelfRebindCidAccountId(c, a) PROVE LoopInv'
      BY <2>3, RebindLoop DEF SelfRebindCidAccountId
    <2>4. ASSUME NEW c \in Cid, NEW a \in Account, RebindAccountId("admin", c, a)
          PROVE  LoopInv'
      BY <2>4, RebindLoop
    <2> QED BY <1>1, <2>1, <2>2, <2>3, <2>4 DEF BindingCall
  <1>2. CASE IdentityCall
    <2>1. ASSUME NEW c \in Cid, RevokeIdentity(c) \/ RevokeCid(c) PROVE LoopInv'
      BY <2>1, TombstoneLoop DEF RevokeIdentity, RevokeCid
    <2>2. ASSUME NEW c \in Cid, NEW p \in Payload,
                 RegisterVotingIdentity(c, p) \/ UpdateVotingIdentity(c, p)
          PROVE  LoopInv'
      BY <2>2, SameLoop DEF RegisterVotingIdentity, UpdateVotingIdentity
    <2>3. ASSUME NEW c \in Cid, NEW p \in Payload, NEW b \in Birth,
                 UpgradeToCandidateIdentity(c, p, b) \/ UpdateCandidateIdentity(c, p, b)
          PROVE  LoopInv'
      BY <2>3, SameLoop DEF UpgradeToCandidateIdentity, UpdateCandidateIdentity
    <2> QED BY <1>2, <2>1, <2>2, <2>3 DEF IdentityCall
  <1>3. CASE \E s \in Scope : TakeSnapshot(s)
    BY <1>3, SameLoop DEF TakeSnapshot
  <1>4. CASE IdleStep
    BY <1>4, SameLoop DEF IdleStep, StartIdle, InitializePopulationDate, ProcessTransition,
                          AdvanceReadyDate
  <1>5. CASE EndBlock
    BY <1>5, SameLoop DEF EndBlock, NextDay
  <1>6. CASE UNCHANGED vars
    BY <1>6, SameLoop DEF vars
  <1> QED BY <1>1, <1>2, <1>3, <1>4, <1>5, <1>6 DEF Next

\* The loop is closed in every state of the pallet.
LEMMA LoopAlways == Spec => []LoopInv
  <1>1. Init => LoopInv
    BY LoopInit DEF Init
  <1>2. LoopInv /\ [Next]_vars => LoopInv'
    BY LoopStep
  <1> QED BY <1>1, <1>2, PTL DEF Spec

\* Numbers and wallets are bound one to one from both sides, tombstones included, and
\* CidCount counts the active ones (AccountIdByCid, CidByAccountId, CidRegistry).
THEOREM LoopClosed == Spec => []BindingsClosed
  BY LoopAlways, PTL DEF LoopInv

\* No authorisation to rebind is used twice, also after the number has come back to the
\* wallet that signed it: its revision is spent (expected_binding_revision).
THEOREM AuthorisationsSpent == Spec => []AuthorisedOnce
  BY LoopAlways, PTL DEF LoopInv


-------------------------------------------------------------------------------
(* Rewards.  What is queued was neither paid nor queued before, and queue and *)
(* payments together stay within the limit.                                   *)

Claim == [account : Account, cid : Cid]
Reward == [account : Account, cid : Cid, reward : Nat]

\* No number and no wallet twice.
AllDistinct(s) ==
    \A i, j \in 1..Len(s) : s[i].cid = s[j].cid \/ s[i].account = s[j].account => i = j

RewardInv ==
    /\ paid \in Seq(Reward) /\ PendingRewards \in Seq(Claim)
    /\ RewardedCount = Len(paid)
    /\ Len(paid) + Len(PendingRewards) =< MaxCount
    /\ \A i \in 1..Len(paid) :
          /\ paid[i].cid \in IdentityRewardClaimed
          /\ paid[i].account \in AccountRewarded
          /\ paid[i].reward = RewardAmountAt(i - 1)
    /\ \A i \in 1..Len(PendingRewards) :
          /\ PendingRewards[i].cid \in PendingIdentityRewardClaimed \ IdentityRewardClaimed
          /\ PendingRewards[i].account \in PendingAccountRewarded \ AccountRewarded
    /\ AllDistinct(paid) /\ AllDistinct(PendingRewards)

\* A registration queues a reward only for a number and a wallet without one.
LEMMA RewardQueued ==
    ASSUME RewardInv, NEW a \in Account, NEW c \in Cid, OnVotingIdentityRegistered(a, c)
    PROVE  RewardInv'
  <1> USE DEF RewardInv
  <1>1. CASE ~RewardDue(a, c)
    BY <1>1 DEF OnVotingIdentityRegistered, AllDistinct
  <1>2. CASE RewardDue(a, c)
    <2> DEFINE new == [account |-> a, cid |-> c]
               n == Len(PendingRewards)
    <2>1. /\ PendingRewards' = Append(PendingRewards, new)
          /\ PendingIdentityRewardClaimed' = PendingIdentityRewardClaimed \cup {c}
          /\ PendingAccountRewarded' = PendingAccountRewarded \cup {a}
          /\ UNCHANGED <<RewardedCount, IdentityRewardClaimed, AccountRewarded, paid>>
      BY <1>2 DEF OnVotingIdentityRegistered
    <2>2. /\ c \notin IdentityRewardClaimed \cup PendingIdentityRewardClaimed
          /\ a \notin AccountRewarded \cup PendingAccountRewarded
          /\ Len(paid) + n < MaxCount
      BY <1>2 DEF RewardDue
    <2>3. new \in Claim /\ new.cid = c /\ new.account = a
      BY DEF Claim
    <2> HIDE DEF new
    <2>4. /\ PendingRewards' \in Seq(Claim) /\ Len(PendingRewards') = n + 1 /\ n \in Nat
          /\ \A i \in 1..n : PendingRewards'[i] = PendingRewards[i]
          /\ PendingRewards'[n + 1] = new
      BY <2>1, <2>3
    <2>5. AllDistinct(PendingRewards)'
      BY <2>2, <2>3, <2>4 DEF AllDistinct
    <2>6. \A i \in 1..Len(PendingRewards') :
             /\ PendingRewards'[i].cid \in PendingIdentityRewardClaimed' \ IdentityRewardClaimed
             /\ PendingRewards'[i].account \in PendingAccountRewarded' \ AccountRewarded
      BY <2>1, <2>2, <2>3, <2>4
    <2>7. Len(paid) \in Nat /\ MaxCount \in Nat
      BY IssuanceAssumption
    <2>8. Len(paid) + Len(PendingRewards') =< MaxCount
      BY <2>2, <2>4, <2>7
    <2> QED BY <2>1, <2>4, <2>5, <2>6, <2>8 DEF AllDistinct
  <1> QED BY <1>1, <1>2

\* The end of the block pays the queue.
LEMMA RewardsPaid == ASSUME RewardInv, OnFinalizeRewards PROVE RewardInv'
  <1> USE DEF RewardInv
  <1> DEFINE m == Len(paid)
             n == Len(PendingRewards)
             due == [i \in 1..n |->
                       [account |-> PendingRewards[i].account, cid |-> PendingRewards[i].cid,
                        reward |-> RewardAmountAt(m + i - 1)]]
  <1>0. m \in Nat /\ n \in Nat /\ MaxCount \in Nat
    BY IssuanceAssumption
  <1>1. /\ paid' = paid \o due
        /\ RewardedCount' = m + n
        /\ IdentityRewardClaimed' = IdentityRewardClaimed \cup Queued("cid")
        /\ AccountRewarded' = AccountRewarded \cup Queued("account")
        /\ PendingRewards' = << >>
    BY DEF OnFinalizeRewards
  <1>2. \A i \in 1..n : /\ PendingRewards[i].account \in Account /\ PendingRewards[i].cid \in Cid
                        /\ RewardAmountAt(m + i - 1) \in Nat
    <2>1. \A i \in 1..n : PendingRewards[i] \in Claim
      OBVIOUS
    <2>2. \A i \in 1..n : RewardAmountAt(m + i - 1) \in Nat
      BY IssuanceAssumption DEF RewardAmountAt
    <2> QED BY <2>1, <2>2 DEF Claim
  <1>3. due \in Seq(Reward) /\ Len(due) = n
    <2>1. due \in [1..n -> Reward]
      BY <1>2 DEF Reward
    <2> HIDE DEF due
    <2> QED BY <1>0, <2>1
  <1>4. \A i \in 1..n : /\ due[i].cid = PendingRewards[i].cid
                        /\ due[i].account = PendingRewards[i].account
                        /\ due[i].reward = RewardAmountAt(m + i - 1)
    OBVIOUS
  <1> HIDE DEF due
  <1>5. /\ paid' \in Seq(Reward) /\ Len(paid') = m + n
        /\ \A i \in 1..m : paid'[i] = paid[i]
        /\ \A i \in (m + 1)..(m + n) : paid'[i] = due[i - m] /\ i - m \in 1..n
    <2>1. paid \in Seq(Reward)
      OBVIOUS
    <2>2. /\ paid' \in Seq(Reward) /\ Len(paid') = Len(paid) + Len(due)
          /\ \A i \in 1..(Len(paid) + Len(due)) :
                paid'[i] = IF i =< Len(paid) THEN paid[i] ELSE due[i - Len(paid)]
      <3>1. due \in Seq(Reward) /\ paid' = paid \o due
        BY <1>1, <1>3
      <3> HIDE DEF RewardInv, m, n
      <3> QED BY <2>1, <3>1, ConcatProperties
    <2> HIDE DEF m, n
    <2>3. Len(paid) = m
      BY DEF m
    <2> QED BY <1>0, <1>3, <2>2, <2>3
  <1>50. /\ \A i, j \in 1..n : PendingRewards[i].cid = PendingRewards[j].cid
                               \/ PendingRewards[i].account = PendingRewards[j].account => i = j
         /\ \A i \in 1..m : paid[i].cid \in IdentityRewardClaimed
                             /\ paid[i].account \in AccountRewarded
    BY DEF AllDistinct
  <1> HIDE DEF m, n
  <1>6. ASSUME NEW i \in 1..(m + n)
        PROVE  \/ i \in 1..m /\ paid'[i] = paid[i]
               \/ /\ i \notin 1..m /\ i - m \in 1..n
                  /\ paid'[i].cid = PendingRewards[i - m].cid
                  /\ paid'[i].account = PendingRewards[i - m].account
                  /\ paid'[i].reward = RewardAmountAt(i - 1)
    <2>1. CASE i \in 1..m
      BY <1>5, <2>1
    <2>2. CASE i \notin 1..m
      <3>1. i \in (m + 1)..(m + n) /\ m + (i - m) - 1 = i - 1
        BY <1>0, <2>2
      <3> QED BY <1>4, <1>5, <2>2, <3>1
    <2> QED BY <2>1, <2>2
  <1>7. \A i \in 1..n : /\ PendingRewards[i].cid \in Queued("cid")
                        /\ PendingRewards[i].account \in Queued("account")
    BY DEF Queued, n
  <1>8. ASSUME NEW i \in 1..(m + n)
        PROVE  /\ paid'[i].cid \in IdentityRewardClaimed'
               /\ paid'[i].account \in AccountRewarded'
               /\ paid'[i].reward = RewardAmountAt(i - 1)
    BY <1>1, <1>6, <1>7 DEF m
  <1>9. \A i \in 1..n : /\ PendingRewards[i].cid \notin IdentityRewardClaimed
                        /\ PendingRewards[i].account \notin AccountRewarded
    BY DEF n
  <1>10. AllDistinct(paid)'
    <2> SUFFICES ASSUME NEW i \in 1..(m + n), NEW j \in 1..(m + n),
                        paid'[i].cid = paid'[j].cid \/ paid'[i].account = paid'[j].account
                 PROVE  i = j
      BY <1>5 DEF AllDistinct
    <2>1. CASE i \in 1..m /\ j \in 1..m
      BY <1>5, <2>1 DEF AllDistinct, m
    <2>2. CASE i \notin 1..m /\ j \notin 1..m
      <3>1. /\ i - m \in 1..n /\ paid'[i].cid = PendingRewards[i - m].cid
            /\ paid'[i].account = PendingRewards[i - m].account
        BY <1>6, <2>2
      <3>2. /\ j - m \in 1..n /\ paid'[j].cid = PendingRewards[j - m].cid
            /\ paid'[j].account = PendingRewards[j - m].account
        BY <1>6, <2>2
      <3>3. i - m = j - m
        BY <1>50, <3>1, <3>2
      <3> QED BY <1>0, <3>3
    <2>3. ASSUME NEW k \in 1..(m + n), NEW l \in 1..(m + n), k \in 1..m, l \notin 1..m
          PROVE  paid'[k].cid # paid'[l].cid /\ paid'[k].account # paid'[l].account
      <3>1. /\ l - m \in 1..n /\ paid'[l].cid = PendingRewards[l - m].cid
            /\ paid'[l].account = PendingRewards[l - m].account
        BY <1>6, <2>3
      <3>2. paid'[k].cid \in IdentityRewardClaimed /\ paid'[k].account \in AccountRewarded
        BY <1>5, <1>50, <2>3
      <3> QED BY <1>9, <3>1, <3>2
    <2>4. (i \in 1..m) = (j \in 1..m)
      BY <2>3
    <2> QED BY <2>1, <2>2, <2>3, <2>4
  <1>11. Len(PendingRewards') = 0 /\ PendingRewards' \in Seq(Claim) /\ AllDistinct(PendingRewards)'
    BY <1>1 DEF AllDistinct
  <1>12. m + n =< MaxCount
    BY DEF m, n
  <1> QED BY <1>0, <1>1, <1>5, <1>8, <1>10, <1>11, <1>12

\* Every step.
LEMMA RewardStep == ASSUME RewardInv, LoopInv, [Next]_vars PROVE RewardInv'
  <1>1. ASSUME UNCHANGED issuanceVars PROVE RewardInv'
    BY <1>1 DEF issuanceVars, RewardInv, AllDistinct
  <1>2. ASSUME NEW c \in Cid, MayWrite(c) PROVE AccountIdByCid[c] \in Account
    BY <1>2 DEF MayWrite, BindingComplete, LoopInv, BindingTypeOK, IsMap
  <1>3. ASSUME NEW c \in Cid, NEW p \in Payload,
               RegisterVotingIdentity(c, p) \/ UpdateVotingIdentity(c, p)
        PROVE  RewardInv'
    BY <1>1, <1>2, <1>3, RewardQueued DEF RegisterVotingIdentity, UpdateVotingIdentity
  <1>4. ASSUME NEW c \in Cid, NEW p \in Payload, NEW b \in Birth,
               UpgradeToCandidateIdentity(c, p, b) \/ UpdateCandidateIdentity(c, p, b)
        PROVE  RewardInv'
    BY <1>1, <1>2, <1>4, RewardQueued DEF UpgradeToCandidateIdentity, UpdateCandidateIdentity
  <1>5. ASSUME NEW c \in Cid, RevokeIdentity(c) \/ RevokeCid(c) PROVE RewardInv'
    BY <1>1, <1>5 DEF RevokeIdentity, RevokeCid
  <1>6. CASE BindingCall \/ (\E s \in Scope : TakeSnapshot(s)) \/ IdleStep \/ UNCHANGED vars
    BY <1>1, <1>6 DEF BindingCall, TakeSnapshot, IdleStep, vars
  <1>7. CASE EndBlock
    BY <1>7, RewardsPaid DEF EndBlock
  <1> QED BY <1>3, <1>4, <1>5, <1>6, <1>7 DEF Next, IdentityCall

\* No number and no wallet is paid twice, no more than MaxCount rewards are paid, and the
\* higher reward goes to exactly the first HighCount of them, however many citizens register,
\* rebind or are revoked within and across blocks (citizen-issuance).
THEOREM RewardsOnce == Spec => []RewardedOnce
  <1>1. Init => RewardInv
    <2> SUFFICES ASSUME Init PROVE RewardInv
      OBVIOUS
    <2>1. paid = << >> /\ PendingRewards = << >> /\ RewardedCount = 0
      BY DEF Init, IssuanceInit
    <2>2. Len(paid) = 0 /\ Len(PendingRewards) = 0 /\ paid \in Seq(Reward)
          /\ PendingRewards \in Seq(Claim) /\ MaxCount \in Nat
      BY <2>1, IssuanceAssumption
    <2> QED BY <2>1, <2>2 DEF RewardInv, AllDistinct
  <1>2. RewardInv /\ LoopInv /\ [Next]_vars => RewardInv'
    BY RewardStep
  <1>3. RewardInv => RewardedOnce
    <2> SUFFICES ASSUME RewardInv PROVE RewardedOnce
      OBVIOUS
    <2>1. Len(paid) \in Nat /\ Len(PendingRewards) \in Nat /\ Len(paid) =< MaxCount
      BY IssuanceAssumption DEF RewardInv
    <2>2. ASSUME NEW i \in 1..Len(paid)
          PROVE  (paid[i].reward = HighReward) = (i =< HighCount)
      BY <2>1, IssuanceAssumption DEF RewardInv, RewardAmountAt
    <2> QED BY <2>1, <2>2 DEF RewardedOnce, RewardInv, AllDistinct
  <1> QED BY <1>1, <1>2, <1>3, LoopAlways, PTL DEF Spec

-------------------------------------------------------------------------------
(* The population.                                                           *)

Kind == {"activate", "deactivate"}

\* The revision of the identity c has now.
LastRevision(c) == SX!Last(VotingEligibilityVersions[c]).valid_from_revision

\* The transition of the present identity of c.
Pending(c, kind) == [cid |-> c, eligibility_revision |-> LastRevision(c), kind |-> kind]

\* An identity starts (activate) or ends (deactivate) to count on the day d.
Turns(identity, kind, d) ==
    /\ identity.citizen_status = "normal"
    /\ d = IF kind = "activate" THEN identity.from ELSE NextDate(identity.until)

\* Days whose transitions have all still to be worked off.
Untouched(d) ==
    d > PopulationReadyDate + 1 \/ (d > PopulationReadyDate /\ PopulationReadyDate = today)

\* Identities and histories go together; an identity is in force only for an active number.
IdentityFits(c) ==
    /\ c \in DOMAIN VotingIdentityByCid <=> VotingEligibilityVersions[c] # << >>
    /\ c \in DOMAIN VotingIdentityByCid =>
          /\ LastRevision(c) =< NextEligibilityRevision
          /\ VotingIdentityByCid[c].from =< VotingIdentityByCid[c].until
          /\ c \in DOMAIN CidRegistry
          /\ VotingIdentityByCid[c].citizen_status = "normal" => OccupiedActive(c)

\* What is filed for the day d: no transition of a later identity, nothing twice, and a
\* transition of a present identity only on the day that identity starts or ends to count.
DayFits(d) ==
    \A i \in 1..Len(PopulationTransitions[d]) :
        LET t == PopulationTransitions[d][i]
        IN  /\ t.eligibility_revision =< NextEligibilityRevision
            /\ d > PopulationReadyDate /\ t.cid \in DOMAIN VotingIdentityByCid
               /\ t.eligibility_revision = LastRevision(t.cid)
               => Turns(VotingIdentityByCid[t.cid], t.kind, d)
            /\ \A j \in 1..Len(PopulationTransitions[d]) :
                  PopulationTransitions[d][j] = t => i = j

\* On a day untouched by the maintenance nothing is missing.
AllFiled(d) ==
    Untouched(d) =>
        \A c \in DOMAIN VotingIdentityByCid, kind \in Kind :
            Turns(VotingIdentityByCid[c], kind, d) =>
                \E i \in 1..Len(PopulationTransitions[d]) :
                    PopulationTransitions[d][i] = Pending(c, kind)

PopulationInv ==
    /\ TypeOK
    /\ PopulationReadyDate =< today
    /\ PopulationReadyDate = 0 => DOMAIN VotingIdentityByCid = {}
    /\ \A c \in Cid : IdentityFits(c)
    /\ \A d \in Day : DayFits(d) /\ AllFiled(d)
    /\ CountsExact
    /\ NeverFaults

-------------------------------------------------------------------------------
(* Sequences and counts.                                                     *)

\* counts holds the sizes of the sets M, one for every scope.
CountsAre(counts, M) ==
    \A s \in Scope : counts[s] = Cardinality(M[s]) /\ IsFiniteSet(M[s])

\* N is M after c has been added to, or taken out of, the scopes of the residence.
MovesIn(M, N, c, identity) ==
    \A s \in Scope :
        /\ SX!IsPrefix(s, identity.residence) => c \notin M[s] /\ N[s] = M[s] \cup {c}
        /\ ~SX!IsPrefix(s, identity.residence) => N[s] = M[s]

MovesOut(M, N, c, identity) ==
    \A s \in Scope :
        /\ SX!IsPrefix(s, identity.residence) => c \in M[s] /\ N[s] = M[s] \ {c}
        /\ ~SX!IsPrefix(s, identity.residence) => N[s] = M[s]

\* Counting one citizen more in the scopes of his residence
\* (write_adjusted_scope_counts).
LEMMA EntersCounts ==
    ASSUME NEW counts, NEW M, NEW N, NEW c, NEW identity,
           CountsAre(counts, M), MovesIn(M, N, c, identity)
    PROVE  CountsAre(Adjusted(counts, identity, 1), N)
  <1> SUFFICES ASSUME NEW s \in Scope
               PROVE  /\ Adjusted(counts, identity, 1)[s] = Cardinality(N[s])
                      /\ IsFiniteSet(N[s])
    BY DEF CountsAre
  <1>1. counts[s] = Cardinality(M[s]) /\ IsFiniteSet(M[s])
    BY DEF CountsAre
  <1>2. CASE SX!IsPrefix(s, identity.residence)
    <2>1. Cardinality(M[s] \cup {c}) = Cardinality(M[s]) + 1 /\ IsFiniteSet(M[s] \cup {c})
      BY <1>1, <1>2, FS_AddElement DEF MovesIn
    <2> QED BY <1>1, <1>2, <2>1 DEF Adjusted, MovesIn
  <1>3. CASE ~SX!IsPrefix(s, identity.residence)
    BY <1>1, <1>3 DEF Adjusted, MovesIn
  <1> QED BY <1>2, <1>3

\* Counting one citizen less: as long as he is counted none of his counts is zero.
LEMMA LeavesCounts ==
    ASSUME NEW counts, NEW M, NEW N, NEW c, NEW identity,
           CountsAre(counts, M), MovesOut(M, N, c, identity)
    PROVE  CanDecrement(counts, identity) /\ CountsAre(Adjusted(counts, identity, -1), N)
  <1>1. ASSUME NEW s \in Scope, SX!IsPrefix(s, identity.residence)
        PROVE  /\ counts[s] > 0 /\ counts[s] - 1 = Cardinality(N[s])
               /\ IsFiniteSet(N[s])
    <2>1. counts[s] = Cardinality(M[s]) /\ IsFiniteSet(M[s]) /\ c \in M[s]
          /\ N[s] = M[s] \ {c}
      BY <1>1 DEF CountsAre, MovesOut
    <2>2. Cardinality(M[s]) \in Nat /\ Cardinality(M[s]) # 0
      BY <2>1, FS_CardinalityType, FS_EmptySet
    <2>3. Cardinality(M[s] \ {c}) = Cardinality(M[s]) - 1 /\ IsFiniteSet(M[s] \ {c})
      BY <2>1, FS_RemoveElement
    <2> QED BY <2>1, <2>2, <2>3
  <1>2. CanDecrement(counts, identity)
    BY <1>1 DEF CanDecrement
  <1>3. ASSUME NEW s \in Scope
        PROVE  /\ Adjusted(counts, identity, -1)[s] = Cardinality(N[s])
               /\ IsFiniteSet(N[s])
    <2>1. CASE SX!IsPrefix(s, identity.residence)
      <3>1. Adjusted(counts, identity, -1)[s] = counts[s] + (-1)
        BY <2>1 DEF Adjusted
      <3>2. counts[s] \in Nat
        BY FS_CardinalityType DEF CountsAre
      <3> QED BY <1>1, <2>1, <3>1, <3>2
    <2>2. CASE ~SX!IsPrefix(s, identity.residence)
      BY <2>2 DEF Adjusted, CountsAre, MovesOut
    <2> QED BY <2>1, <2>2
  <1> QED BY <1>2, <1>3 DEF CountsAre

\* Between two days on neither of which it turns, an identity is as eligible.
LEMMA EligibleStays ==
    ASSUME NEW identity \in VotingIdentity, NEW r \in Nat,
           \A kind \in Kind : ~Turns(identity, kind, r + 1), r + 1 =< LastDay
    PROVE  EligibleOn(identity, r) <=> EligibleOn(identity, r + 1)
  <1>1. LastDay \in Nat /\ identity.from \in Day /\ identity.until \in Day
    BY PopulationAssumption DEF VotingIdentity
  <1>2. CASE identity.citizen_status # "normal"
    BY <1>2 DEF EligibleOn
  <1>3. CASE identity.citizen_status = "normal"
    <2>1. ~Turns(identity, "activate", r + 1) /\ ~Turns(identity, "deactivate", r + 1)
      BY DEF Kind
    <2>2. r + 1 # identity.from /\ r + 1 # NextDate(identity.until)
      BY <1>3, <2>1 DEF Turns
    <2>3. identity.until # r
      BY <1>1, <2>2 DEF NextDate, Day
    <2> QED BY <1>1, <2>2, <2>3 DEF EligibleOn, PassportValidOn, Day
  <1> QED BY <1>2, <1>3

-------------------------------------------------------------------------------
(* The invariant of the population, action by action.                        *)

\* The present identity of c still has to turn on the day after the ready date.
Waits(c) ==
    \E i \in 1..Len(PopulationTransitions[PopulationReadyDate + 1]) :
        /\ PopulationTransitions[PopulationReadyDate + 1][i].cid = c
        /\ PopulationTransitions[PopulationReadyDate + 1][i].eligibility_revision
             = LastRevision(c)

\* Counted, by the day that decides.
LEMMA CountedOn ==
    ASSUME NEW c
    PROVE  Counted(c) <=>
             /\ c \in DOMAIN VotingIdentityByCid
             /\ PopulationReadyDate + 1 \notin Day \/ Waits(c)
                  => EligibleOn(VotingIdentityByCid[c], PopulationReadyDate)
             /\ ~(PopulationReadyDate + 1 \notin Day \/ Waits(c))
                  => EligibleOn(VotingIdentityByCid[c], PopulationReadyDate + 1)
  BY DEF Counted, Waits, LastRevision

Members(s) ==
    {c \in Cid : Counted(c) /\ SX!IsPrefix(s, VotingIdentityByCid[c].residence)}

\* The types of the population, taken apart.
LEMMA PopulationTypes ==
    ASSUME TypeOK
    PROVE  /\ today \in Nat /\ today >= 1 /\ today =< LastDay /\ LastDay \in Nat
           /\ PopulationReadyDate \in Nat /\ PopulationReadyDate =< LastDay
           /\ \A c \in DOMAIN VotingIdentityByCid :
                 c \in Cid /\ VotingIdentityByCid[c] \in VotingIdentity
           /\ NextEligibilityRevision \in Nat
           /\ \A c \in Cid : VotingEligibilityVersions[c] \in Seq(Version)
           /\ \A d \in Day : PopulationTransitions[d] \in Seq(Transition)
  BY PopulationAssumption DEF TypeOK, PopulationTypeOK, Day, IsMap

\* The members of a scope are finitely many: they are registered.
LEMMA MembersFinite ==
    ASSUME PopulationInv, LoopInv, NEW s
    PROVE  IsFiniteSet(Members(s))
  <1>1. IsFiniteSet(DOMAIN CidRegistry)
    BY DEF LoopInv
  <1>2. ASSUME NEW c \in Members(s) PROVE c \in DOMAIN CidRegistry
    <2>1. c \in Cid /\ c \in DOMAIN VotingIdentityByCid
      BY CountedOn DEF Members
    <2> QED BY <2>1 DEF PopulationInv, IdentityFits
  <1>3. Members(s) \in SUBSET DOMAIN CidRegistry
    BY <1>2
  <1> QED BY <1>1, <1>3, FS_Subset

\* While no day after the ready date has been begun, an identity is counted exactly if it
\* is eligible on the ready date.
LEMMA CountedReady ==
    ASSUME PopulationInv, NEW c \in DOMAIN VotingIdentityByCid, PopulationReadyDate = today
    PROVE  Counted(c) <=> EligibleOn(VotingIdentityByCid[c], PopulationReadyDate)
  <1> DEFINE r == PopulationReadyDate
             identity == VotingIdentityByCid[c]
  <1>1. /\ r \in Nat /\ r =< LastDay /\ LastDay \in Nat /\ identity \in VotingIdentity
        /\ c \in Cid
    BY PopulationTypes DEF PopulationInv
  <1>2. CASE r + 1 \notin Day
    BY <1>2, CountedOn
  <1>3. CASE r + 1 \in Day
    <2>1. CASE Waits(c)
      BY <2>1, CountedOn
    <2>2. CASE ~Waits(c)
      <3>1. AllFiled(r + 1) /\ Untouched(r + 1)
        BY <1>1, <1>3 DEF PopulationInv, Untouched
      <3>2. ASSUME NEW kind \in Kind, Turns(identity, kind, r + 1) PROVE FALSE
        <4>1. PICK i \in 1..Len(PopulationTransitions[r + 1]) :
                 PopulationTransitions[r + 1][i] = Pending(c, kind)
          BY <3>1, <3>2 DEF AllFiled
        <4> QED BY <2>2, <4>1 DEF Waits, Pending
      <3>3. r + 1 =< LastDay
        BY <1>1, <1>3 DEF Day
      <3>4. EligibleOn(identity, r) <=> EligibleOn(identity, r + 1)
        BY <1>1, <3>2, <3>3, EligibleStays
      <3> QED BY <1>3, <2>2, <3>4, CountedOn
    <2> QED BY <2>1, <2>2
  <1> QED BY <1>2, <1>3

\* A step that leaves the population alone, takes no number off the register and
\* tombstones none whose identity is in force.
LEMMA PopulationKept ==
    ASSUME PopulationInv, TypeOK', UNCHANGED populationVars,
           today' >= today, today \in Nat, today' \in Nat,
           \A c \in DOMAIN CidRegistry : c \in DOMAIN CidRegistry',
           \A c \in DOMAIN VotingIdentityByCid :
              VotingIdentityByCid[c].citizen_status = "normal" /\ OccupiedActive(c)
                 => OccupiedActive(c)'
    PROVE  PopulationInv'
  <1> USE DEF populationVars
  <1>0. /\ PopulationReadyDate \in Nat /\ today \in Nat
        /\ \A c \in DOMAIN VotingIdentityByCid : c \in Cid
    BY PopulationTypes DEF PopulationInv
  <1>1. \A c : LastRevision(c)' = LastRevision(c)
    BY DEF LastRevision
  <1>2. \A c \in Cid : IdentityFits(c)'
    BY <1>1 DEF PopulationInv, IdentityFits
  <1>3. \A d \in Day : DayFits(d)'
    BY <1>1 DEF PopulationInv, DayFits, Turns, NextDate
  <1>4. ASSUME NEW d \in Day PROVE AllFiled(d)'
    <2>1. Untouched(d)' => Untouched(d)
      BY <1>0 DEF Untouched, PopulationInv
    <2> QED BY <1>1, <2>1 DEF PopulationInv, AllFiled, Turns, NextDate, Pending
  <1>5. \A c : Counted(c)' <=> Counted(c)
    BY DEF Counted, EligibleOn, PassportValidOn
  <1>6. CountsExact'
    BY <1>5 DEF PopulationInv, CountsExact
  <1>7. PopulationReadyDate' =< today'
    BY <1>0 DEF PopulationInv
  <1> QED BY <1>2, <1>3, <1>4, <1>6, <1>7 DEF PopulationInv, NeverFaults

\* The day of a transition is the day the identity turns, if it is still to come.
LEMMA ScheduledTurns ==
    ASSUME NEW identity, NEW kind \in Kind, NEW d
    PROVE  d \in ScheduledDays(identity, kind)
             <=> Turns(identity, kind, d) /\ d > PopulationReadyDate
  BY DEF ScheduledDays, Turns, Kind

\* A passport does not start on the day after its end.
LEMMA TurnsOnce ==
    ASSUME NEW identity \in VotingIdentity, identity.from =< identity.until,
           NEW d, NEW j \in Kind, NEW k \in Kind, Turns(identity, j, d), Turns(identity, k, d)
    PROVE  j = k
  <1>1. identity.from \in Nat /\ identity.until \in Nat /\ identity.from >= 1
    BY DEF VotingIdentity, Day
  <1>2. d = identity.from => d # NextDate(identity.until)
    BY <1>1 DEF NextDate
  <1> QED BY <1>2 DEF Turns, Kind

\* A write files at most one transition on each day, behind those that are there.
LEMMA FiledByWrite ==
    ASSUME TypeOK, NEW c \in Cid, NEW identity \in VotingIdentity,
           identity.from =< identity.until, NEW revision \in Nat,
           ScheduleIdentityTransitions(c, identity, revision), NEW d \in Day
    PROVE  \/ /\ \A kind \in Kind : ~(Turns(identity, kind, d) /\ d > PopulationReadyDate)
              /\ PopulationTransitions'[d] = PopulationTransitions[d]
           \/ \E kind \in Kind :
                 /\ Turns(identity, kind, d) /\ d > PopulationReadyDate
                 /\ PopulationTransitions'[d] =
                       Append(PopulationTransitions[d],
                              [cid |-> c, eligibility_revision |-> revision, kind |-> kind])
  <1> DEFINE s == PopulationTransitions[d]
             entry(kind) == [cid |-> c, eligibility_revision |-> revision, kind |-> kind]
             filed(kind) == FiledOn(d, c, identity, revision, kind)
  <1>1. s \in Seq(Transition) /\ \A kind \in Kind : entry(kind) \in Transition
    BY PopulationTypes DEF Transition, Kind
  <1>2. PopulationTransitions'[d] = s \o filed("activate") \o filed("deactivate")
    BY DEF ScheduleIdentityTransitions
  <1>3. ASSUME NEW kind \in Kind
        PROVE  /\ Turns(identity, kind, d) /\ d > PopulationReadyDate
                    => filed(kind) = <<entry(kind)>>
               /\ ~(Turns(identity, kind, d) /\ d > PopulationReadyDate)
                    => filed(kind) = << >>
    BY ScheduledTurns DEF FiledOn
  <1>4. "activate" \in Kind /\ "deactivate" \in Kind
        /\ \A kind \in Kind : kind \in {"activate", "deactivate"}
    BY DEF Kind
  <1>5. /\ s \o << >> = s
        /\ \A kind \in Kind : s \o <<entry(kind)>> = Append(s, entry(kind))
        /\ \A kind \in Kind : Append(s, entry(kind)) \o << >> = Append(s, entry(kind))
    <2>1. \A kind \in Kind : Append(s, entry(kind)) \in Seq(Transition)
      BY <1>1
    <2> HIDE DEF s, entry
    <2> QED BY <1>1, <2>1
  <1> HIDE DEF s, entry, filed
  <1>6. CASE Turns(identity, "activate", d) /\ d > PopulationReadyDate
    <2>1. ~Turns(identity, "deactivate", d)
      BY <1>4, <1>6, TurnsOnce
    <2>2. filed("activate") = <<entry("activate")>> /\ filed("deactivate") = << >>
      BY <1>3, <1>4, <1>6, <2>1
    <2>3. PopulationTransitions'[d] = Append(s, entry("activate"))
      BY <1>2, <1>4, <1>5, <2>2
    <2> QED BY <1>4, <1>6, <2>3 DEF s, entry
  <1>7. CASE ~(Turns(identity, "activate", d) /\ d > PopulationReadyDate)
             /\ Turns(identity, "deactivate", d) /\ d > PopulationReadyDate
    <2>1. filed("activate") = << >> /\ filed("deactivate") = <<entry("deactivate")>>
      BY <1>3, <1>4, <1>7
    <2>2. PopulationTransitions'[d] = Append(s, entry("deactivate"))
      BY <1>2, <1>4, <1>5, <2>1
    <2> QED BY <1>4, <1>7, <2>2 DEF s, entry
  <1>8. CASE \A kind \in Kind : ~(Turns(identity, kind, d) /\ d > PopulationReadyDate)
    <2>1. filed("activate") = << >> /\ filed("deactivate") = << >>
      BY <1>3, <1>4, <1>8
    <2>2. PopulationTransitions'[d] = s
      BY <1>2, <1>5, <2>1
    <2> QED BY <1>8, <2>2 DEF s
  <1> QED BY <1>4, <1>6, <1>7, <1>8

\* The history of a number keeps its types when its last version is closed.
LEMMA ClosedTypes ==
    ASSUME TypeOK, NEW c \in Cid, NEW revision \in Nat
    PROVE  /\ ClosedHistory(c, revision) \in Seq(Version)
           /\ Len(ClosedHistory(c, revision)) = Len(VotingEligibilityVersions[c])
  <1> DEFINE h == VotingEligibilityVersions[c]
             n == Len(h)
             v == [h[n] EXCEPT !.valid_until_revision = revision]
  <1>1. h \in Seq(Version)
    BY PopulationTypes
  <1>2. CASE h = << >>
    BY <1>1, <1>2 DEF ClosedHistory
  <1>3. CASE h # << >>
    <2>1. n \in Nat /\ n \in 1..n /\ h[n] \in Version
      BY <1>1, <1>3
    <2>2. v \in Version
      BY <2>1 DEF Version
    <2>3. [h EXCEPT ![n].valid_until_revision = revision] = [h EXCEPT ![n] = v]
      OBVIOUS
    <2>4. [h EXCEPT ![n] = v] \in Seq(Version) /\ Len([h EXCEPT ![n] = v]) = n
      <3> HIDE DEF v, h
      <3> QED BY <1>1, <2>1, <2>2, ExceptSeq
    <2> QED BY <1>1, <2>3, <2>4 DEF ClosedHistory
  <1> QED BY <1>2, <1>3

\* What a write does to identities and histories.
LEMMA WrittenIdentity ==
    ASSUME TypeOK, NEW c \in Cid, NEW next \in VotingIdentity, ReplaceVotingIdentity(c, next)
    PROVE  /\ DOMAIN VotingIdentityByCid' = DOMAIN VotingIdentityByCid \cup {c}
           /\ VotingIdentityByCid'[c] = next
           /\ \A b \in DOMAIN VotingIdentityByCid \ {c} :
                 VotingIdentityByCid'[b] = VotingIdentityByCid[b]
           /\ VotingEligibilityVersions'[c] # << >>
           /\ LastRevision(c)' = NextEligibilityRevision + 1
           /\ NextEligibilityRevision' = NextEligibilityRevision + 1
           /\ \A b \in Cid \ {c} :
                 /\ VotingEligibilityVersions'[b] = VotingEligibilityVersions[b]
                 /\ LastRevision(b)' = LastRevision(b)
  <1> DEFINE revision == NextEligibilityRevision + 1
             version == [identity |-> next, valid_from_revision |-> revision,
                         valid_until_revision |-> 0]
             closed == ClosedHistory(c, revision)
  <1>1. revision \in Nat /\ VotingEligibilityVersions \in [Cid -> Seq(Version)]
    BY DEF TypeOK, PopulationTypeOK
  <1>2. version \in Version
    BY <1>1 DEF Version
  <1>3. closed \in Seq(Version)
    BY <1>1, ClosedTypes
  <1>4. VotingEligibilityVersions'
          = [VotingEligibilityVersions EXCEPT ![c] = Append(closed, version)]
    BY DEF ReplaceVotingIdentity
  <1>5. /\ Append(closed, version) # << >>
        /\ SX!Last(Append(closed, version)) = version
    <2> HIDE DEF closed, version
    <2> QED BY <1>2, <1>3 DEF SX!Last
  <1>6. version.valid_from_revision = revision
    OBVIOUS
  <1>7. /\ VotingEligibilityVersions'[c] = Append(closed, version)
        /\ \A b \in Cid \ {c} : VotingEligibilityVersions'[b] = VotingEligibilityVersions[b]
    <2> HIDE DEF closed, version
    <2> QED BY <1>1, <1>4
  <1>8. LastRevision(c)' = revision
    <2> HIDE DEF closed, version
    <2> QED BY <1>5, <1>6, <1>7 DEF LastRevision
  <1>9. \A b \in Cid \ {c} : LastRevision(b)' = LastRevision(b)
    BY <1>7 DEF LastRevision
  <1>10. VotingIdentityByCid' = Insert(VotingIdentityByCid, c, next)
         /\ NextEligibilityRevision' = revision
    BY DEF ReplaceVotingIdentity
  <1> QED BY <1>5, <1>7, <1>8, <1>9, <1>10 DEF Insert

\* The identity of c is written: the facts the parts of the proof share.
Written(c, next) ==
    /\ PopulationInv /\ LoopInv
    /\ next \in VotingIdentity /\ next.from =< next.until
    /\ ReplaceVotingIdentity(c, next)
    /\ today' = today

\* The queue of a day after a write, entry by entry.
LEMMA WrittenDay ==
    ASSUME NEW c \in Cid, NEW next, Written(c, next), NEW d \in Day
    PROVE  /\ Len(PopulationTransitions[d]) \in Nat /\ Len(PopulationTransitions'[d]) \in Nat
           /\ Len(PopulationTransitions[d]) =< Len(PopulationTransitions'[d])
           /\ \A i \in 1..Len(PopulationTransitions[d]) :
                 /\ PopulationTransitions'[d][i] = PopulationTransitions[d][i]
                 /\ PopulationTransitions[d][i] \in Transition
                 /\ PopulationTransitions[d][i].eligibility_revision < LastRevision(c)'
           /\ \A i \in 1..Len(PopulationTransitions'[d]) :
                 i \notin 1..Len(PopulationTransitions[d]) =>
                    /\ i = Len(PopulationTransitions[d]) + 1
                    /\ \E kind \in Kind :
                          /\ Turns(next, kind, d) /\ d > PopulationReadyDate
                          /\ PopulationTransitions'[d][i] = Pending(c, kind)'
           /\ \A kind \in Kind : Turns(next, kind, d) /\ d > PopulationReadyDate =>
                 \E i \in 1..Len(PopulationTransitions'[d]) :
                    PopulationTransitions'[d][i] = Pending(c, kind)'
  <1> DEFINE s == PopulationTransitions[d]
             r == PopulationTransitions'[d]
             revision == NextEligibilityRevision + 1
             entry(kind) == [cid |-> c, eligibility_revision |-> revision, kind |-> kind]
  <1>1. TypeOK /\ NextEligibilityRevision \in Nat /\ revision \in Nat /\ s \in Seq(Transition)
        /\ next \in VotingIdentity /\ next.from =< next.until
    BY PopulationTypes DEF Written, PopulationInv
  <1>2. LastRevision(c)' = revision
    BY <1>1, WrittenIdentity DEF Written
  <1>3. \A kind : Pending(c, kind)' = entry(kind)
    BY <1>2 DEF Pending
  <1>4. ScheduleIdentityTransitions(c, next, revision)
    BY DEF Written, ReplaceVotingIdentity
  <1>5. \/ /\ \A kind \in Kind : ~(Turns(next, kind, d) /\ d > PopulationReadyDate)
           /\ r = s
        \/ \E kind \in Kind :
              /\ Turns(next, kind, d) /\ d > PopulationReadyDate
              /\ r = Append(s, entry(kind))
    <2> HIDE DEF revision
    <2> QED BY <1>1, <1>4, FiledByWrite
  <1>6. ASSUME NEW i \in 1..Len(s)
        PROVE  s[i] \in Transition /\ s[i].eligibility_revision < revision
    <2>1. s[i] \in Transition
      BY <1>1
    <2>2. s[i].eligibility_revision =< NextEligibilityRevision
      BY DEF Written, PopulationInv, DayFits
    <2>3. s[i].eligibility_revision \in Nat
      BY <2>1 DEF Transition
    <2> QED BY <1>1, <2>1, <2>2, <2>3
  <1> HIDE DEF s, r, revision
  <1>7. CASE r = s /\ \A kind \in Kind : ~(Turns(next, kind, d) /\ d > PopulationReadyDate)
    BY <1>1, <1>2, <1>6, <1>7 DEF s, r
  <1>8. ASSUME NEW kind \in Kind, Turns(next, kind, d), d > PopulationReadyDate,
               r = Append(s, entry(kind))
        PROVE  /\ Len(s) \in Nat /\ Len(r) \in Nat /\ Len(s) =< Len(r)
               /\ \A i \in 1..Len(s) : r[i] = s[i]
               /\ \A i \in 1..Len(r) : i \notin 1..Len(s) =>
                     i = Len(s) + 1 /\ r[i] = entry(kind)
               /\ Len(s) + 1 \in 1..Len(r) /\ r[Len(s) + 1] = entry(kind)
               /\ \A k \in Kind : Turns(next, k, d) => k = kind
    <2>1. entry(kind) \in Transition
      BY <1>1 DEF Transition, Kind
    <2>2. \A k \in Kind : Turns(next, k, d) => k = kind
      BY <1>1, <1>8, TurnsOnce
    <2> HIDE DEF entry
    <2> QED BY <1>1, <1>8, <2>1, <2>2
  <1>9. CASE \E kind \in Kind : /\ Turns(next, kind, d) /\ d > PopulationReadyDate
                                /\ r = Append(s, entry(kind))
    <2>1. PICK kind \in Kind : /\ Turns(next, kind, d) /\ d > PopulationReadyDate
                               /\ r = Append(s, entry(kind))
      BY <1>9
    <2> HIDE DEF entry
    <2> QED BY <1>2, <1>3, <1>6, <1>8, <2>1 DEF s, r
  <1> QED BY <1>5, <1>7, <1>9

\* After a write the days fit again.
LEMMA WrittenFits ==
    ASSUME NEW c \in Cid, NEW next, Written(c, next), NEW d \in Day
    PROVE  DayFits(d)' /\ AllFiled(d)'
  <1> DEFINE s == PopulationTransitions[d]
             r == PopulationTransitions'[d]
             last(b) == SX!Last(VotingEligibilityVersions'[b]).valid_from_revision
  <1>0. TypeOK /\ next \in VotingIdentity /\ ReplaceVotingIdentity(c, next)
        /\ NextEligibilityRevision \in Nat /\ d \in Nat /\ PopulationReadyDate \in Nat
    BY PopulationTypes DEF Written, PopulationInv, Day
  <1>1. /\ DOMAIN VotingIdentityByCid' = DOMAIN VotingIdentityByCid \cup {c}
        /\ VotingIdentityByCid'[c] = next
        /\ \A b \in DOMAIN VotingIdentityByCid \ {c} :
              VotingIdentityByCid'[b] = VotingIdentityByCid[b]
        /\ LastRevision(c)' = NextEligibilityRevision + 1
        /\ NextEligibilityRevision' = NextEligibilityRevision + 1
        /\ \A b \in Cid \ {c} : LastRevision(b)' = LastRevision(b)
        /\ \A b \in DOMAIN VotingIdentityByCid : b \in Cid
    BY <1>0, WrittenIdentity, PopulationTypes
  <1>10. \A b : LastRevision(b)' = last(b)
    BY DEF LastRevision
  <1>2. PopulationReadyDate' = PopulationReadyDate /\ today' = today
    BY <1>0 DEF Written, ReplaceVotingIdentity
  <1>3. /\ Len(s) \in Nat /\ Len(r) \in Nat /\ Len(s) =< Len(r)
        /\ \A i \in 1..Len(s) :
              r[i] = s[i] /\ s[i] \in Transition /\ s[i].eligibility_revision < LastRevision(c)'
        /\ \A i \in 1..Len(r) : i \notin 1..Len(s) =>
              /\ i = Len(s) + 1
              /\ \E kind \in Kind : /\ Turns(next, kind, d) /\ d > PopulationReadyDate
                                    /\ r[i] = Pending(c, kind)'
        /\ \A kind \in Kind : Turns(next, kind, d) /\ d > PopulationReadyDate =>
              \E i \in 1..Len(r) : r[i] = Pending(c, kind)'
    BY WrittenDay
  <1>4. DayFits(d) /\ AllFiled(d)
    BY DEF Written, PopulationInv
  <1> HIDE DEF s, r, last
  <1>5. ASSUME NEW i \in 1..Len(r)
        PROVE  /\ r[i].eligibility_revision =< NextEligibilityRevision'
               /\ d > PopulationReadyDate' /\ r[i].cid \in DOMAIN VotingIdentityByCid'
                  /\ r[i].eligibility_revision = last(r[i].cid)
                  => Turns(VotingIdentityByCid'[r[i].cid], r[i].kind, d)
               /\ \A j \in 1..Len(r) : r[j] = r[i] => i = j
    <2>1. CASE i \in 1..Len(s)
      <3>1. r[i] = s[i] /\ s[i] \in Transition /\ s[i].eligibility_revision < LastRevision(c)'
            /\ s[i].eligibility_revision \in Nat /\ s[i].cid \in Cid
        BY <1>3, <2>1 DEF Transition
      <3>2. r[i].eligibility_revision =< NextEligibilityRevision'
        BY <1>0, <1>1, <3>1
      <3>3. ASSUME d > PopulationReadyDate', r[i].cid \in DOMAIN VotingIdentityByCid',
                   r[i].eligibility_revision = last(r[i].cid)
            PROVE  Turns(VotingIdentityByCid'[r[i].cid], r[i].kind, d)
        <4>1. s[i].cid # c
          BY <1>0, <1>1, <1>10, <3>1, <3>3
        <4>2. s[i].cid \in DOMAIN VotingIdentityByCid
              /\ VotingIdentityByCid'[s[i].cid] = VotingIdentityByCid[s[i].cid]
              /\ last(s[i].cid) = LastRevision(s[i].cid)
          BY <1>1, <1>10, <3>1, <3>3, <4>1
        <4>3. Turns(VotingIdentityByCid[s[i].cid], s[i].kind, d)
          BY <1>2, <1>4, <2>1, <3>1, <3>3, <4>2 DEF DayFits, s
        <4> QED BY <3>1, <4>2, <4>3
      <3>4. ASSUME NEW j \in 1..Len(r), r[j] = r[i] PROVE i = j
        <4>1. j \in 1..Len(s)
          <5>1. ASSUME NEW kind, r[j] = Pending(c, kind)' PROVE FALSE
            <6>1. r[j].eligibility_revision = LastRevision(c)'
              BY <5>1 DEF Pending
            <6> QED BY <1>0, <1>1, <3>1, <3>4, <6>1
          <5> QED BY <1>3, <5>1
        <4> QED BY <1>3, <1>4, <2>1, <3>4, <4>1 DEF DayFits, s
      <3> QED BY <3>2, <3>3, <3>4
    <2>2. CASE i \notin 1..Len(s)
      <3>1. PICK kind \in Kind : /\ Turns(next, kind, d) /\ d > PopulationReadyDate
                                 /\ r[i] = Pending(c, kind)'
        BY <1>3, <2>2
      <3>2. r[i].cid = c /\ r[i].kind = kind /\ r[i].eligibility_revision = LastRevision(c)'
        BY <3>1 DEF Pending
      <3>3. ASSUME NEW j \in 1..Len(r), r[j] = r[i] PROVE i = j
        <4>1. j \notin 1..Len(s)
          BY <1>0, <1>1, <1>3, <3>2, <3>3
        <4> QED BY <1>3, <2>2, <4>1
      <3> QED BY <1>0, <1>1, <3>1, <3>2, <3>3
    <2> QED BY <2>1, <2>2
  <1>6. DayFits(d)'
    BY <1>5 DEF DayFits, r, last, LastRevision, Turns, NextDate
  <1>7. ASSUME Untouched(d), NEW b \in DOMAIN VotingIdentityByCid', NEW kind \in Kind,
               Turns(VotingIdentityByCid'[b], kind, d)
        PROVE  \E i \in 1..Len(r) : r[i] = Pending(b, kind)'
    <2>1. CASE b = c
      <3>1. d > PopulationReadyDate
        BY <1>0, <1>7 DEF Untouched
      <3> QED BY <1>1, <1>3, <1>7, <2>1, <3>1
    <2>2. CASE b # c
      <3>1. b \in DOMAIN VotingIdentityByCid /\ VotingIdentityByCid'[b] = VotingIdentityByCid[b]
            /\ LastRevision(b)' = LastRevision(b)
        BY <1>1, <2>2
      <3>2. PICK i \in 1..Len(s) : s[i] = Pending(b, kind)
        BY <1>4, <1>7, <3>1 DEF AllFiled, s
      <3>3. Pending(b, kind)' = Pending(b, kind)
        BY <3>1 DEF Pending
      <3>4. i \in 1..Len(r) /\ r[i] = s[i]
        BY <1>3
      <3> QED BY <3>2, <3>3, <3>4
    <2> QED BY <2>1, <2>2
  <1>8. AllFiled(d)'
    <2>1. Untouched(d)' => Untouched(d)
      BY <1>2 DEF Untouched
    <2> QED BY <1>7, <2>1 DEF AllFiled, r, Turns, NextDate
  <1> QED BY <1>6, <1>8

\* After a write the identity written counts if it is eligible on the ready date, and the
\* others count as before.
LEMMA WrittenCounted ==
    ASSUME NEW c \in Cid, NEW next, Written(c, next)
    PROVE  /\ Counted(c)' <=> EligibleOn(next, PopulationReadyDate)
           /\ \A b \in Cid \ {c} : Counted(b)' <=> Counted(b)
  <1> DEFINE r == PopulationReadyDate
             D == PopulationReadyDate + 1
  <1>0. /\ TypeOK /\ next \in VotingIdentity /\ ReplaceVotingIdentity(c, next)
        /\ NextEligibilityRevision \in Nat /\ r \in Nat /\ LastDay \in Nat
        /\ r =< LastDay
    BY PopulationTypes DEF Written, PopulationInv
  <1>1. /\ DOMAIN VotingIdentityByCid' = DOMAIN VotingIdentityByCid \cup {c}
        /\ VotingIdentityByCid'[c] = next
        /\ \A b \in DOMAIN VotingIdentityByCid \ {c} :
              VotingIdentityByCid'[b] = VotingIdentityByCid[b]
        /\ \A b \in Cid \ {c} : LastRevision(b)' = LastRevision(b)
        /\ LastRevision(c)' = NextEligibilityRevision + 1
    BY <1>0, WrittenIdentity
  <1>2. PopulationReadyDate' = r
    BY <1>0 DEF ReplaceVotingIdentity
  <1>3. ASSUME NEW b
        PROVE  Counted(b)' <=>
                 /\ b \in DOMAIN VotingIdentityByCid'
                 /\ D \notin Day \/ Waits(b)' => EligibleOn(VotingIdentityByCid'[b], r)
                 /\ ~(D \notin Day \/ Waits(b)') => EligibleOn(VotingIdentityByCid'[b], D)
    BY <1>2 DEF Counted, Waits, LastRevision, EligibleOn, PassportValidOn
  <1>4. ASSUME NEW b
        PROVE  Waits(b)' <=> \E i \in 1..Len(PopulationTransitions'[D]) :
                               /\ PopulationTransitions'[D][i].cid = b
                               /\ PopulationTransitions'[D][i].eligibility_revision
                                    = LastRevision(b)'
    BY <1>2 DEF Waits, LastRevision
  <1>5. D > r
    BY <1>0
  <1> HIDE DEF D
  <1>6. ASSUME D \in Day
        PROVE  Waits(c)' <=> \E kind \in Kind : Turns(next, kind, D)
    <2>1. ASSUME NEW i \in 1..Len(PopulationTransitions'[D]),
                 PopulationTransitions'[D][i].eligibility_revision = LastRevision(c)'
          PROVE  \E kind \in Kind : Turns(next, kind, D)
      <3>1. i \in 1..Len(PopulationTransitions[D]) =>
               /\ PopulationTransitions'[D][i] = PopulationTransitions[D][i]
               /\ PopulationTransitions[D][i] \in Transition
               /\ PopulationTransitions[D][i].eligibility_revision < LastRevision(c)'
        BY <1>6, WrittenDay
      <3>2. i \notin 1..Len(PopulationTransitions[D])
        BY <1>0, <1>1, <2>1, <3>1 DEF Transition
      <3> QED BY <1>6, <3>2, WrittenDay
    <2>2. ASSUME NEW kind \in Kind, Turns(next, kind, D) PROVE Waits(c)'
      <3>1. PICK i \in 1..Len(PopulationTransitions'[D]) :
               PopulationTransitions'[D][i] = Pending(c, kind)'
        BY <1>5, <1>6, <2>2, WrittenDay
      <3>2. PopulationTransitions'[D][i].cid = c
            /\ PopulationTransitions'[D][i].eligibility_revision = LastRevision(c)'
        BY <3>1 DEF Pending
      <3> QED BY <1>4, <3>2
    <2> QED BY <1>4, <2>1, <2>2
  <1>7. ASSUME NEW b \in Cid \ {c}, D \in Day PROVE Waits(b)' <=> Waits(b)
    <2>1. ASSUME NEW i \in 1..Len(PopulationTransitions'[D]),
                 PopulationTransitions'[D][i].cid = b
          PROVE  i \in 1..Len(PopulationTransitions[D])
      <3>1. ASSUME NEW kind, PopulationTransitions'[D][i] = Pending(c, kind)' PROVE FALSE
        BY <1>7, <2>1, <3>1 DEF Pending
      <3> QED BY <1>7, <3>1, WrittenDay
    <2>2. /\ Len(PopulationTransitions[D]) \in Nat /\ Len(PopulationTransitions'[D]) \in Nat
          /\ Len(PopulationTransitions[D]) =< Len(PopulationTransitions'[D])
          /\ \A i \in 1..Len(PopulationTransitions[D]) :
                PopulationTransitions'[D][i] = PopulationTransitions[D][i]
      BY <1>7, WrittenDay
    <2>3. Waits(b) <=> \E i \in 1..Len(PopulationTransitions[D]) :
                         /\ PopulationTransitions[D][i].cid = b
                         /\ PopulationTransitions[D][i].eligibility_revision = LastRevision(b)
      BY DEF Waits, D
    <2> QED BY <1>1, <1>4, <1>7, <2>1, <2>2, <2>3
  <1>8. Counted(c)' <=> EligibleOn(next, r)
    <2>1. CASE D \notin Day \/ Waits(c)'
      BY <1>1, <1>3, <2>1
    <2>2. CASE D \in Day /\ ~Waits(c)'
      <3>1. \A kind \in Kind : ~Turns(next, kind, D)
        BY <1>6, <2>2
      <3>2. D =< LastDay
        BY <1>0, <2>2 DEF Day
      <3>3. EligibleOn(next, r) <=> EligibleOn(next, D)
        BY <1>0, <3>1, <3>2, EligibleStays DEF D
      <3> QED BY <1>1, <1>3, <2>2, <3>3
    <2> QED BY <2>1, <2>2
  <1>9. ASSUME NEW b \in Cid \ {c} PROVE Counted(b)' <=> Counted(b)
    <2>1. Counted(b) <=>
             /\ b \in DOMAIN VotingIdentityByCid
             /\ D \notin Day \/ Waits(b) => EligibleOn(VotingIdentityByCid[b], r)
             /\ ~(D \notin Day \/ Waits(b)) => EligibleOn(VotingIdentityByCid[b], D)
      BY CountedOn DEF D
    <2> QED BY <1>1, <1>3, <1>7, <2>1
  <1> QED BY <1>8, <1>9

\* The counts follow a write: the former identity leaves them, the new one enters.
LEMMA WrittenCounts ==
    ASSUME NEW c \in Cid, NEW next, Written(c, next)
    PROVE  CountsExact' /\ VotingCount' \in [Scope -> Nat]
  <1> DEFINE M == [s \in Scope |-> Members(s)]
             L == [s \in Scope |-> Members(s) \ {c}]
             N == [s \in Scope |-> {b \in Cid : Counted(b)' /\
                                      SX!IsPrefix(s, VotingIdentityByCid'[b].residence)}]
             without == CountsWithout(c)
  <1>0. /\ PopulationInv /\ LoopInv /\ TypeOK /\ next \in VotingIdentity
        /\ ReplaceVotingIdentity(c, next) /\ PopulationReadyDate = today
        /\ VotingCount \in [Scope -> Nat]
    BY DEF Written, PopulationInv, ReplaceVotingIdentity, PopulationReady, TypeOK,
           PopulationTypeOK
  <1>1. /\ VotingIdentityByCid'[c] = next
        /\ \A b \in DOMAIN VotingIdentityByCid \ {c} :
              VotingIdentityByCid'[b] = VotingIdentityByCid[b]
    BY <1>0, WrittenIdentity
  <1>2. /\ Counted(c)' <=> EligibleOn(next, PopulationReadyDate)
        /\ \A b \in Cid \ {c} : Counted(b)' <=> Counted(b)
    BY WrittenCounted
  <1>3. CountsAre(VotingCount, M)
    BY <1>0, MembersFinite DEF PopulationInv, CountsExact, Members, CountsAre
  <1>4. \A b \in Cid : Counted(b) => b \in DOMAIN VotingIdentityByCid
    BY CountedOn
  <1>5. CountsAre(without, L)
    <2>1. CASE c \in DOMAIN VotingIdentityByCid
               /\ EligibleOn(VotingIdentityByCid[c], PopulationReadyDate)
      <3>1. Counted(c)
        BY <1>0, <2>1, CountedReady
      <3>2. MovesOut(M, L, c, VotingIdentityByCid[c])
        BY <3>1 DEF Members, MovesOut
      <3>3. without = Adjusted(VotingCount, VotingIdentityByCid[c], -1)
        BY <2>1 DEF CountsWithout
      <3> HIDE DEF M, L, without
      <3> QED BY <1>3, <3>2, <3>3, LeavesCounts
    <2>2. CASE ~(c \in DOMAIN VotingIdentityByCid
                 /\ EligibleOn(VotingIdentityByCid[c], PopulationReadyDate))
      <3>1. ~Counted(c)
        BY <1>0, <1>4, <2>2, CountedReady
      <3>2. \A s \in Scope : L[s] = M[s]
        BY <3>1 DEF Members
      <3>3. without = VotingCount
        BY <2>2 DEF CountsWithout
      <3> QED BY <1>3, <3>2, <3>3 DEF CountsAre
    <2> QED BY <2>1, <2>2
  <1>6. ASSUME NEW s \in Scope, NEW b \in Cid \ {c}
        PROVE  b \in N[s] <=> b \in L[s]
    BY <1>1, <1>2, <1>4, <1>6 DEF Members
  <1>7. ASSUME NEW s \in Scope
        PROVE  /\ c \notin L[s] /\ L[s] \subseteq Cid /\ N[s] \subseteq Cid
               /\ c \in N[s] <=> /\ EligibleOn(next, PopulationReadyDate)
                                 /\ SX!IsPrefix(s, next.residence)
    BY <1>1, <1>2 DEF Members
  <1>13. ASSUME NEW s \in Scope
         PROVE  /\ \A b : b # c => (b \in N[s] <=> b \in L[s])
                /\ c \notin L[s]
                /\ c \in N[s] <=> /\ EligibleOn(next, PopulationReadyDate)
                                  /\ SX!IsPrefix(s, next.residence)
    <2> HIDE DEF L, N
    <2> QED BY <1>6, <1>7
  <1> HIDE DEF L, N
  <1>8. CountsAre(VotingCount', N)
    <2>1. CASE EligibleOn(next, PopulationReadyDate)
      <3>1. VotingCount' = Adjusted(without, next, 1)
        BY <1>0, <2>1 DEF ReplaceVotingIdentity
      <3>2. ASSUME NEW s \in Scope
            PROVE  /\ SX!IsPrefix(s, next.residence) => c \notin L[s] /\ N[s] = L[s] \cup {c}
                   /\ ~SX!IsPrefix(s, next.residence) => N[s] = L[s]
        <4>1. c \notin L[s] /\ \A b : b # c => (b \in N[s] <=> b \in L[s])
          BY <1>13
        <4>2. c \in N[s] <=> SX!IsPrefix(s, next.residence)
          BY <1>13, <2>1
        <4> QED BY <4>1, <4>2
      <3>3. MovesIn(L, N, c, next)
        BY <3>2 DEF MovesIn
      <3> HIDE DEF without
      <3> QED BY <1>5, <3>1, <3>3, EntersCounts
    <2>2. CASE ~EligibleOn(next, PopulationReadyDate)
      <3>1. VotingCount' = without
        BY <1>0, <2>2 DEF ReplaceVotingIdentity
      <3>2. ASSUME NEW s \in Scope PROVE N[s] = L[s]
        <4>1. c \notin L[s] /\ c \notin N[s] /\ \A b : b # c => (b \in N[s] <=> b \in L[s])
          BY <1>13, <2>2
        <4> QED BY <4>1
      <3> QED BY <1>5, <3>1, <3>2 DEF CountsAre
    <2> QED BY <2>1, <2>2
  <1>9. CountsExact'
    BY <1>8 DEF CountsExact, N, CountsAre
  <1>10. VotingCount' = [s \in Scope |-> VotingCount'[s]]
    BY <1>0 DEF ReplaceVotingIdentity, CountsWithout, Adjusted
  <1>11. \A s \in Scope : VotingCount'[s] \in Nat
    BY <1>8, FS_CardinalityType DEF CountsAre
  <1> QED BY <1>9, <1>10, <1>11

\* A write keeps the types.
LEMMA WrittenTypes ==
    ASSUME NEW c \in Cid, NEW next, Written(c, next), UNCHANGED idle
    PROVE  PopulationTypeOK'
  <1> DEFINE revision == NextEligibilityRevision + 1
             version == [identity |-> next, valid_from_revision |-> revision,
                         valid_until_revision |-> 0]
  <1>0. /\ TypeOK /\ next \in VotingIdentity /\ next.from =< next.until
        /\ ReplaceVotingIdentity(c, next) /\ today' = today
        /\ NextEligibilityRevision \in Nat /\ revision \in Nat /\ PopulationTypeOK
    BY PopulationTypes DEF Written, PopulationInv, TypeOK
  <1>1. IsMap(VotingIdentityByCid, Cid, VotingIdentity)'
    BY <1>0, InsertIsMap DEF ReplaceVotingIdentity, PopulationTypeOK
  <1>2. VotingEligibilityVersions' \in [Cid -> Seq(Version)]
    <2>1. version \in Version
      BY <1>0 DEF Version
    <2>2. ClosedHistory(c, revision) \in Seq(Version)
      BY <1>0, ClosedTypes
    <2>3. VotingEligibilityVersions' =
             [VotingEligibilityVersions EXCEPT ![c] = Append(ClosedHistory(c, revision), version)]
      BY <1>0 DEF ReplaceVotingIdentity
    <2> HIDE DEF revision, version
    <2>4. Append(ClosedHistory(c, revision), version) \in Seq(Version)
      BY <2>1, <2>2
    <2> QED BY <1>0, <2>3, <2>4 DEF PopulationTypeOK
  <1>3. PopulationTransitions' \in [Day -> Seq(Transition)]
    <2>1. ScheduleIdentityTransitions(c, next, revision)
      BY <1>0 DEF ReplaceVotingIdentity
    <2>2. PopulationTransitions' = [d \in Day |-> PopulationTransitions'[d]]
      BY <2>1 DEF ScheduleIdentityTransitions
    <2>3. ASSUME NEW d \in Day PROVE PopulationTransitions'[d] \in Seq(Transition)
      <3> HIDE DEF revision
      <3>1. PopulationTransitions[d] \in Seq(Transition)
        BY <1>0 DEF PopulationTypeOK
      <3>2. \A kind \in Kind :
               [cid |-> c, eligibility_revision |-> revision, kind |-> kind] \in Transition
        BY <1>0 DEF Transition, Kind
      <3>3. ASSUME NEW kind \in Kind
            PROVE  Append(PopulationTransitions[d],
                          [cid |-> c, eligibility_revision |-> revision, kind |-> kind])
                     \in Seq(Transition)
        <4> DEFINE e == [cid |-> c, eligibility_revision |-> revision, kind |-> kind]
        <4>1. e \in Transition
          BY <3>2
        <4> HIDE DEF e
        <4>2. Append(PopulationTransitions[d], e) \in Seq(Transition)
          BY <3>1, <4>1
        <4> QED BY <4>2 DEF e
      <3> QED BY <1>0, <2>1, <3>1, <3>3, FiledByWrite
    <2> QED BY <2>2, <2>3
  <1>4. VotingCount' \in [Scope -> Nat]
    BY WrittenCounts
  <1>5. /\ NextEligibilityRevision' = revision
        /\ UNCHANGED <<today, idle, PopulationReadyDate, PopulationMaintenanceFault>>
    BY <1>0 DEF ReplaceVotingIdentity
  <1> QED BY <1>0, <1>1, <1>2, <1>3, <1>4, <1>5 DEF PopulationTypeOK

\* A write keeps the invariant: the number written is registered, and active if its new
\* identity is in force; the other numbers stay active (replace_voting_identity).
LEMMA PopulationWritten ==
    ASSUME NEW c \in Cid, NEW next, Written(c, next), UNCHANGED idle, TypeOK',
           \A b \in DOMAIN CidRegistry : b \in DOMAIN CidRegistry',
           c \in DOMAIN CidRegistry',
           next.citizen_status = "normal" => OccupiedActive(c)',
           \A b \in Cid \ {c} : OccupiedActive(b) => OccupiedActive(b)'
    PROVE  PopulationInv'
  <1>0. /\ TypeOK /\ next \in VotingIdentity /\ next.from =< next.until
        /\ ReplaceVotingIdentity(c, next) /\ today' = today
        /\ NextEligibilityRevision \in Nat /\ PopulationReadyDate = today
        /\ today \in Nat /\ today >= 1 /\ PopulationInv
        /\ PopulationReadyDate' = PopulationReadyDate
        /\ PopulationMaintenanceFault' = PopulationMaintenanceFault
    BY PopulationTypes
    DEF Written, PopulationInv, ReplaceVotingIdentity, PopulationReady
  <1>1. /\ DOMAIN VotingIdentityByCid' = DOMAIN VotingIdentityByCid \cup {c}
        /\ VotingIdentityByCid'[c] = next
        /\ \A b \in DOMAIN VotingIdentityByCid \ {c} :
              VotingIdentityByCid'[b] = VotingIdentityByCid[b]
        /\ VotingEligibilityVersions'[c] # << >>
        /\ LastRevision(c)' = NextEligibilityRevision + 1
        /\ NextEligibilityRevision' = NextEligibilityRevision + 1
        /\ \A b \in Cid \ {c} :
              /\ VotingEligibilityVersions'[b] = VotingEligibilityVersions[b]
              /\ LastRevision(b)' = LastRevision(b)
    BY <1>0, WrittenIdentity
  <1>2. ASSUME NEW b \in Cid PROVE IdentityFits(b)'
    <2>1. CASE b = c
      BY <1>0, <1>1, <2>1 DEF IdentityFits
    <2>2. CASE b # c
      <3>1. /\ b \in DOMAIN VotingIdentityByCid' <=> b \in DOMAIN VotingIdentityByCid
            /\ b \in DOMAIN VotingIdentityByCid =>
                  VotingIdentityByCid'[b] = VotingIdentityByCid[b]
            /\ VotingEligibilityVersions'[b] = VotingEligibilityVersions[b]
            /\ LastRevision(b)' = LastRevision(b)
            /\ OccupiedActive(b) => OccupiedActive(b)'
            /\ b \in DOMAIN CidRegistry => b \in DOMAIN CidRegistry'
        BY <1>1, <2>2
      <3>2. IdentityFits(b)
        BY <1>0 DEF PopulationInv
      <3>3. ASSUME b \in DOMAIN VotingIdentityByCid
            PROVE  LastRevision(b) =< NextEligibilityRevision'
        <4>1. VotingEligibilityVersions[b] # << >>
              /\ LastRevision(b) =< NextEligibilityRevision
          BY <3>2, <3>3 DEF IdentityFits
        <4>2. VotingEligibilityVersions[b] \in Seq(Version)
          BY <1>0, PopulationTypes
        <4>3. LastRevision(b) \in Nat
          <5> DEFINE h == VotingEligibilityVersions[b]
          <5>1. h[Len(h)] \in Version
            <6> HIDE DEF h
            <6> QED BY <4>1, <4>2 DEF h
          <5> QED BY <5>1 DEF LastRevision, SX!Last, Version
        <4> QED BY <1>0, <1>1, <4>1, <4>3
      <3> QED BY <3>1, <3>2, <3>3 DEF IdentityFits
    <2> QED BY <2>1, <2>2
  <1>3. \A d \in Day : DayFits(d)' /\ AllFiled(d)'
    BY WrittenFits
  <1>4. CountsExact'
    BY WrittenCounts
  <1>5. /\ PopulationReadyDate' =< today'
        /\ PopulationReadyDate' # 0
    BY <1>0
  <1>6. NeverFaults'
    BY <1>0 DEF NeverFaults, PopulationInv
  <1> QED BY <1>2, <1>3, <1>4, <1>5, <1>6 DEF PopulationInv

\* Before the ready date is set nobody has an identity, so nothing has to be counted.
LEMMA PopulationInitialized ==
    ASSUME PopulationInv, TypeOK', InitializePopulationDate
    PROVE  PopulationInv'
  <1>0. /\ DOMAIN VotingIdentityByCid = {} /\ PopulationReadyDate' = today /\ today' = today
        /\ UNCHANGED <<bindingVars, VotingIdentityByCid, NextEligibilityRevision,
                       VotingEligibilityVersions, VotingCount, PopulationTransitions,
                       PopulationMaintenanceFault>>
        /\ today \in Nat /\ today >= 1
    BY PopulationTypes DEF InitializePopulationDate, PopulationInv
  <1>1. \A c \in Cid : IdentityFits(c)'
    BY <1>0 DEF PopulationInv, IdentityFits
  <1>2. \A d \in Day : DayFits(d)' /\ AllFiled(d)'
    BY <1>0 DEF PopulationInv, DayFits, AllFiled
  <1>3. \A c : ~Counted(c) /\ ~Counted(c)'
    BY <1>0 DEF Counted
  <1>4. CountsExact'
    BY <1>0, <1>3 DEF PopulationInv, CountsExact
  <1> QED BY <1>0, <1>1, <1>2, <1>4 DEF PopulationInv, NeverFaults

\* The ready date moves on once nothing is left of the next day: the identities that
\* count are those eligible on that day.
LEMMA PopulationAdvanced ==
    ASSUME PopulationInv, TypeOK', AdvanceReadyDate
    PROVE  PopulationInv'
  <1> DEFINE r == PopulationReadyDate
             D == r + 1
             E == r + 2
  <1>0. /\ TypeOK /\ r \in Nat /\ r >= 1 /\ D =< today /\ today \in Nat /\ today =< LastDay
        /\ LastDay \in Nat /\ PopulationReadyDate' = D /\ today' = today
        /\ UNCHANGED <<bindingVars, VotingIdentityByCid, NextEligibilityRevision,
                       VotingEligibilityVersions, VotingCount, PopulationTransitions,
                       PopulationMaintenanceFault>>
        /\ PopulationTransitions[D] = << >>
        /\ \A c \in DOMAIN VotingIdentityByCid : VotingIdentityByCid[c] \in VotingIdentity
    BY PopulationTypes DEF AdvanceReadyDate, DayDone, PopulationInv
  <1>1. D \in Day /\ E = D + 1 /\ E \in Nat /\ D \in Nat
    BY <1>0 DEF Day
  <1>2. \A c : LastRevision(c)' = LastRevision(c)
    BY <1>0 DEF LastRevision
  <1>3. \A c \in Cid : IdentityFits(c)'
    BY <1>0, <1>2 DEF PopulationInv, IdentityFits, bindingVars, OccupiedActive
  <1>4. ASSUME NEW d \in Day PROVE DayFits(d)' /\ AllFiled(d)'
    <2>0. DayFits(d) /\ AllFiled(d) /\ d \in Nat
      BY DEF PopulationInv, Day
    <2>1. DayFits(d)'
      <3>1. d > PopulationReadyDate' => d > r
        BY <1>0, <2>0
      <3> QED BY <1>0, <1>2, <2>0, <3>1 DEF DayFits, Turns, NextDate
    <2>2. Untouched(d)' => Untouched(d)
      BY <1>0, <2>0 DEF Untouched
    <2>3. AllFiled(d)'
      BY <1>0, <1>2, <2>0, <2>2 DEF AllFiled, Turns, NextDate, Pending
    <2> QED BY <2>1, <2>3
  <1>5. ASSUME NEW c \in Cid PROVE Counted(c)' <=> Counted(c)
    <2>1. Counted(c) <=> /\ c \in DOMAIN VotingIdentityByCid
                         /\ EligibleOn(VotingIdentityByCid[c], D)
      <3>1. ~Waits(c)
        BY <1>0 DEF Waits
      <3> QED BY <1>1, <3>1, CountedOn
    <2> DEFINE waits == \E i \in 1..Len(PopulationTransitions[E]) :
                           /\ PopulationTransitions[E][i].cid = c
                           /\ PopulationTransitions[E][i].eligibility_revision
                                = LastRevision(c)
    <2>2. Counted(c)' <=>
             /\ c \in DOMAIN VotingIdentityByCid
             /\ E \notin Day \/ waits => EligibleOn(VotingIdentityByCid[c], D)
             /\ ~(E \notin Day \/ waits) => EligibleOn(VotingIdentityByCid[c], E)
      <3>1. PopulationReadyDate' + 1 = E
        BY <1>0
      <3> HIDE DEF D, E
      <3> QED BY <1>0, <3>1 DEF Counted, LastRevision, EligibleOn, PassportValidOn
    <2>3. ASSUME c \in DOMAIN VotingIdentityByCid, E \in Day, ~waits
          PROVE  EligibleOn(VotingIdentityByCid[c], D) <=> EligibleOn(VotingIdentityByCid[c], E)
      <3>1. AllFiled(E) /\ Untouched(E) /\ E =< LastDay
        BY <1>0, <2>3 DEF PopulationInv, Untouched, Day
      <3>2. ASSUME NEW kind \in Kind, Turns(VotingIdentityByCid[c], kind, E) PROVE FALSE
        <4>1. PICK i \in 1..Len(PopulationTransitions[E]) :
                 PopulationTransitions[E][i] = Pending(c, kind)
          BY <2>3, <3>1, <3>2 DEF AllFiled
        <4> QED BY <2>3, <4>1 DEF Pending
      <3> HIDE DEF D, E
      <3>3. VotingIdentityByCid[c] \in VotingIdentity
        BY <1>0, <2>3
      <3>4. \A kind \in Kind : ~Turns(VotingIdentityByCid[c], kind, D + 1)
        BY <1>1, <3>2
      <3> QED BY <1>1, <3>1, <3>3, <3>4, EligibleStays
    <2> QED BY <2>1, <2>2, <2>3
  <1>6. CountsExact'
    BY <1>0, <1>5 DEF PopulationInv, CountsExact
  <1>7. PopulationReadyDate' =< today' /\ PopulationReadyDate' # 0
    BY <1>0
  <1> QED BY <1>0, <1>3, <1>4, <1>6, <1>7 DEF PopulationInv, NeverFaults

\* What on_idle finds at the head of the next day: a transition of the present identity
\* meets an active number on the day that identity turns, and is the only one of it.
LEMMA HeadOfDay ==
    ASSUME PopulationInv, LoopInv, PopulationReadyDate \in 1..(today - 1),
           PopulationTransitions[PopulationReadyDate + 1] # << >>
    PROVE  LET D == PopulationReadyDate + 1
               s == PopulationTransitions[D]
               t == Head(s)
           IN  /\ D \in Day /\ s \in Seq(Transition) /\ t = s[1] /\ t \in Transition
               /\ Live(t) => /\ t.cid \in DOMAIN VotingIdentityByCid
                             /\ t.eligibility_revision = LastRevision(t.cid)
                             /\ Turns(VotingIdentityByCid[t.cid], t.kind, D)
                             /\ Applies(t, D)
                             /\ OccupiedActive(t.cid) /\ BindingComplete(t.cid)
                             /\ \A i \in 1..Len(s) :
                                   /\ s[i].cid = t.cid
                                   /\ s[i].eligibility_revision = LastRevision(t.cid)
                                   => i = 1
  <1> DEFINE D == PopulationReadyDate + 1
             s == PopulationTransitions[D]
             t == Head(s)
  <1>0. /\ TypeOK /\ PopulationReadyDate \in Nat /\ today \in Nat /\ today =< LastDay
        /\ LastDay \in Nat
        /\ \A c \in DOMAIN VotingIdentityByCid : VotingIdentityByCid[c] \in VotingIdentity
    BY PopulationTypes DEF PopulationInv
  <1>1. D \in Day /\ D > PopulationReadyDate
    BY <1>0 DEF Day
  <1>2. s \in Seq(Transition) /\ DayFits(D)
    BY <1>0, <1>1, PopulationTypes DEF PopulationInv
  <1>3. t = s[1] /\ 1 \in 1..Len(s) /\ t \in Transition
    BY <1>2
  <1>4. t.cid \in Cid /\ t.kind \in Kind /\ IdentityFits(t.cid)
    BY <1>3 DEF Transition, Kind, PopulationInv
  <1> HIDE DEF t
  <1>5. ASSUME Live(t)
        PROVE  /\ t.cid \in DOMAIN VotingIdentityByCid
               /\ t.eligibility_revision = LastRevision(t.cid)
               /\ Turns(VotingIdentityByCid[t.cid], t.kind, D)
               /\ Applies(t, D)
               /\ OccupiedActive(t.cid) /\ BindingComplete(t.cid)
               /\ \A i \in 1..Len(s) :
                     /\ s[i].cid = t.cid
                     /\ s[i].eligibility_revision = LastRevision(t.cid)
                     => i = 1
    <2> DEFINE identity == VotingIdentityByCid[t.cid]
    <2>1. /\ t.cid \in DOMAIN VotingIdentityByCid
          /\ t.eligibility_revision = LastRevision(t.cid)
      BY <1>4, <1>5 DEF Live, LastRevision, IdentityFits
    <2>2. Turns(identity, t.kind, D)
      BY <1>1, <1>2, <1>3, <2>1 DEF DayFits
    <2>3. identity.citizen_status = "normal" /\ identity.from =< identity.until
          /\ OccupiedActive(t.cid) /\ identity \in VotingIdentity
      BY <1>0, <1>4, <2>1, <2>2 DEF Turns, IdentityFits
    <2>4. BindingComplete(t.cid)
      BY <2>3 DEF LoopInv, BindingsClosed, OccupiedActive
    <2>5. Applies(t, D)
      BY <2>2, <2>3, <1>4 DEF Turns, Applies, PassportValidOn, Kind
    <2>6. ASSUME NEW i \in 1..Len(s), s[i].cid = t.cid,
                 s[i].eligibility_revision = LastRevision(t.cid)
          PROVE  i = 1
      <3>1. s[i] \in Transition
        BY <1>2
      <3>2. Turns(identity, s[i].kind, D)
        BY <1>1, <1>2, <2>1, <2>6 DEF DayFits
      <3>3. s[i].kind = t.kind
        BY <1>4, <2>2, <2>3, <3>1, <3>2, TurnsOnce DEF Transition, Kind
      <3>4. s[i] = s[1]
        BY <1>3, <2>1, <2>6, <3>1, <3>3 DEF Transition
      <3> QED BY <1>2, <1>3, <3>4 DEF DayFits
    <2> QED BY <2>1, <2>2, <2>3, <2>4, <2>5, <2>6
  <1> QED BY <1>1, <1>2, <1>3, <1>5 DEF t

\* One transition taken off the queue of the next day, and what the others see of it.
LEMMA TransitionTaken ==
    ASSUME PopulationInv, LoopInv, ProcessTransition, PopulationMaintenanceFault' = "none"
    PROVE  LET D == PopulationReadyDate + 1
               s == PopulationTransitions[D]
               r == PopulationTransitions'[D]
           IN  /\ r = Tail(s) /\ r \in Seq(Transition)
               /\ Len(s) \in Nat \ {0} /\ Len(r) = Len(s) - 1
               /\ \A i \in 1..Len(r) : i + 1 \in 1..Len(s) /\ r[i] = s[i + 1]
               /\ \A i \in 1..Len(s) : i # 1 => i - 1 \in 1..Len(r) /\ r[i - 1] = s[i]
               /\ \A d \in Day \ {D} : PopulationTransitions'[d] = PopulationTransitions[d]
               /\ PopulationTransitions' \in [Day -> Seq(Transition)]
  <1> DEFINE D == PopulationReadyDate + 1
             s == PopulationTransitions[D]
  <1>0. TypeOK /\ PopulationTransitions \in [Day -> Seq(Transition)]
    BY DEF PopulationInv, TypeOK, PopulationTypeOK
  <1>1. D \in Day /\ s \in Seq(Transition) /\ s # << >>
    BY HeadOfDay DEF ProcessTransition
  <1>2. PopulationTransitions' = [PopulationTransitions EXCEPT ![D] = Tail(s)]
    BY DEF ProcessTransition
  <1>3. /\ Tail(s) \in Seq(Transition) /\ Len(s) \in Nat \ {0} /\ Len(Tail(s)) = Len(s) - 1
        /\ \A i \in 1..Len(Tail(s)) : i + 1 \in 1..Len(s) /\ Tail(s)[i] = s[i + 1]
        /\ \A i \in 1..Len(s) : i # 1 => i - 1 \in 1..Len(Tail(s)) /\ Tail(s)[i - 1] = s[i]
    <2> HIDE DEF s
    <2>1. Tail(s) \in Seq(Transition) /\ Len(s) \in Nat \ {0} /\ Len(Tail(s)) = Len(s) - 1
          /\ \A i \in 1..Len(Tail(s)) : i + 1 \in 1..Len(s) /\ Tail(s)[i] = s[i + 1]
      BY <1>1
    <2>2. ASSUME NEW i \in 1..Len(s), i # 1
          PROVE  i - 1 \in 1..Len(Tail(s)) /\ Tail(s)[i - 1] = s[i]
      <3>1. i - 1 \in 1..Len(Tail(s)) /\ (i - 1) + 1 = i
        BY <2>1, <2>2
      <3> QED BY <2>1, <3>1
    <2> QED BY <2>1, <2>2
  <1>4. /\ PopulationTransitions'[D] = Tail(s)
        /\ \A d \in Day \ {D} : PopulationTransitions'[d] = PopulationTransitions[d]
        /\ PopulationTransitions' \in [Day -> Seq(Transition)]
    <2> HIDE DEF D, s
    <2> QED BY <1>0, <1>1, <1>2, <1>3
  <1> QED BY <1>3, <1>4

\* A transition of the present identity tells whether that identity counts until then and
\* whether it counts from that day on.
LEMMA HeadCounted ==
    ASSUME PopulationInv, LoopInv, PopulationReadyDate \in 1..(today - 1),
           PopulationTransitions[PopulationReadyDate + 1] # << >>,
           NEW t, t = Head(PopulationTransitions[PopulationReadyDate + 1]), Live(t)
    PROVE  /\ Counted(t.cid) <=> t.kind = "deactivate"
           /\ EligibleOn(VotingIdentityByCid[t.cid], PopulationReadyDate + 1)
                <=> t.kind = "activate"
  <1> DEFINE D == PopulationReadyDate + 1
             s == PopulationTransitions[D]
             identity == VotingIdentityByCid[t.cid]
  <1>1. /\ D \in Day /\ s \in Seq(Transition) /\ t = s[1] /\ t \in Transition
        /\ t.cid \in DOMAIN VotingIdentityByCid
        /\ t.eligibility_revision = LastRevision(t.cid)
        /\ Turns(identity, t.kind, D)
    BY HeadOfDay
  <1>2. t.cid \in Cid /\ t.kind \in Kind /\ 1 \in 1..Len(s)
    BY <1>1 DEF Transition, Kind
  <1>3. /\ identity \in VotingIdentity /\ identity.from =< identity.until
        /\ PopulationReadyDate \in Nat /\ LastDay \in Nat
    BY <1>1, <1>2, PopulationTypes DEF PopulationInv, IdentityFits
  <1>4. /\ identity.from \in Nat /\ identity.until \in Nat
        /\ identity.citizen_status = "normal"
    BY <1>1, <1>3 DEF VotingIdentity, Day, Turns
  <1>5. Waits(t.cid)
    BY <1>1, <1>2 DEF Waits
  <1>6. Counted(t.cid) <=> EligibleOn(identity, PopulationReadyDate)
    BY <1>1, <1>5, CountedOn
  <1> HIDE DEF identity, s
  <1>7. CASE t.kind = "activate"
    <2>1. D = identity.from
      BY <1>1, <1>7 DEF Turns
    <2>2. ~EligibleOn(identity, PopulationReadyDate) /\ EligibleOn(identity, D)
      BY <1>3, <1>4, <2>1 DEF EligibleOn, PassportValidOn
    <2> QED BY <1>6, <1>7, <2>2 DEF identity
  <1>8. CASE t.kind = "deactivate"
    <2>1. D = NextDate(identity.until)
      BY <1>1, <1>8 DEF Turns
    <2>2. identity.until = PopulationReadyDate
      BY <1>3, <1>4, <2>1 DEF NextDate
    <2>3. EligibleOn(identity, PopulationReadyDate) /\ ~EligibleOn(identity, D)
      BY <1>3, <1>4, <2>2 DEF EligibleOn, PassportValidOn
    <2> QED BY <1>6, <1>8, <2>3 DEF identity
  <1> QED BY <1>2, <1>7, <1>8 DEF Kind

\* Taking a transition off leaves the others waiting, and of its own citizen none waits.
LEMMA TakenCounted ==
    ASSUME PopulationInv, LoopInv, ProcessTransition, PopulationMaintenanceFault' = "none",
           NEW t, t = Head(PopulationTransitions[PopulationReadyDate + 1])
    PROVE  /\ \A b \in Cid : ~(Live(t) /\ b = t.cid) => (Counted(b)' <=> Counted(b))
           /\ Live(t) => /\ Counted(t.cid) <=> t.kind = "deactivate"
                         /\ Counted(t.cid)' <=> t.kind = "activate"
  <1> DEFINE D == PopulationReadyDate + 1
             s == PopulationTransitions[D]
             r == PopulationTransitions'[D]
             waits(b) == \E i \in 1..Len(r) :
                            r[i].cid = b /\ r[i].eligibility_revision = LastRevision(b)
  <1>0. /\ UNCHANGED <<VotingIdentityByCid, VotingEligibilityVersions, PopulationReadyDate>>
        /\ TypeOK /\ PopulationReadyDate \in Nat
    BY PopulationTypes DEF ProcessTransition, PopulationInv
  <1>1. /\ D \in Day /\ s \in Seq(Transition) /\ t = s[1] /\ t \in Transition
        /\ Live(t) => /\ t.cid \in DOMAIN VotingIdentityByCid
                      /\ t.eligibility_revision = LastRevision(t.cid)
                      /\ Turns(VotingIdentityByCid[t.cid], t.kind, D)
                      /\ \A i \in 1..Len(s) :
                            /\ s[i].cid = t.cid
                            /\ s[i].eligibility_revision = LastRevision(t.cid)
                            => i = 1
    BY HeadOfDay DEF ProcessTransition
  <1>2. /\ Len(s) \in Nat \ {0} /\ Len(r) = Len(s) - 1
        /\ \A i \in 1..Len(r) : i + 1 \in 1..Len(s) /\ r[i] = s[i + 1]
        /\ \A i \in 1..Len(s) : i # 1 => i - 1 \in 1..Len(r) /\ r[i - 1] = s[i]
    BY TransitionTaken
  <1>3. ASSUME NEW b
        PROVE  /\ Waits(b) <=> \E i \in 1..Len(s) :
                     s[i].cid = b /\ s[i].eligibility_revision = LastRevision(b)
               /\ Counted(b)' <=>
                     /\ b \in DOMAIN VotingIdentityByCid
                     /\ waits(b) => EligibleOn(VotingIdentityByCid[b], PopulationReadyDate)
                     /\ ~waits(b) => EligibleOn(VotingIdentityByCid[b], D)
               /\ Counted(b) <=>
                     /\ b \in DOMAIN VotingIdentityByCid
                     /\ Waits(b) => EligibleOn(VotingIdentityByCid[b], PopulationReadyDate)
                     /\ ~Waits(b) => EligibleOn(VotingIdentityByCid[b], D)
    <2>1. Waits(b) <=> \E i \in 1..Len(s) :
                     s[i].cid = b /\ s[i].eligibility_revision = LastRevision(b)
      BY DEF Waits
    <2>2. Counted(b)' <=>
                     /\ b \in DOMAIN VotingIdentityByCid
                     /\ waits(b) => EligibleOn(VotingIdentityByCid[b], PopulationReadyDate)
                     /\ ~waits(b) => EligibleOn(VotingIdentityByCid[b], D)
      BY <1>0, <1>1 DEF Counted, LastRevision, EligibleOn, PassportValidOn
    <2>3. Counted(b) <=>
                     /\ b \in DOMAIN VotingIdentityByCid
                     /\ Waits(b) => EligibleOn(VotingIdentityByCid[b], PopulationReadyDate)
                     /\ ~Waits(b) => EligibleOn(VotingIdentityByCid[b], D)
      BY <1>1, CountedOn
    <2> QED BY <2>1, <2>2, <2>3
  <1> HIDE DEF s, r, D
  <1>4. ASSUME NEW b \in Cid, ~(Live(t) /\ b = t.cid) PROVE Counted(b)' <=> Counted(b)
    <2>1. ASSUME b \in DOMAIN VotingIdentityByCid PROVE waits(b) <=> Waits(b)
      <3>1. ~(s[1].cid = b /\ s[1].eligibility_revision = LastRevision(b))
        <4>1. VotingEligibilityVersions[b] # << >>
          BY <2>1 DEF PopulationInv, IdentityFits
        <4> QED BY <1>1, <1>4, <4>1 DEF Live, LastRevision
      <3>2. ASSUME NEW i \in 1..Len(s), s[i].cid = b,
                   s[i].eligibility_revision = LastRevision(b)
            PROVE  waits(b)
        <4>1. i # 1
          BY <3>1, <3>2
        <4>2. i - 1 \in 1..Len(r) /\ r[i - 1] = s[i]
          BY <1>2, <4>1
        <4> QED BY <3>2, <4>2
      <3> QED BY <1>2, <1>3, <3>2
    <2> QED BY <1>3, <2>1
  <1>5. ASSUME Live(t)
        PROVE  /\ Counted(t.cid) <=> t.kind = "deactivate"
               /\ Counted(t.cid)' <=> t.kind = "activate"
    <2> DEFINE c == t.cid
               identity == VotingIdentityByCid[c]
    <2>0. c \in DOMAIN VotingIdentityByCid /\ c \in Cid /\ t.kind \in Kind
          /\ Turns(identity, t.kind, D) /\ t.eligibility_revision = LastRevision(c)
      BY <1>1, <1>5 DEF Transition, Kind
    <2>4. ~waits(c)
      <3> SUFFICES ASSUME NEW i \in 1..Len(r), r[i].cid = c,
                          r[i].eligibility_revision = LastRevision(c)
                   PROVE  FALSE
        OBVIOUS
      <3>1. i + 1 \in 1..Len(s) /\ r[i] = s[i + 1]
        BY <1>2
      <3>2. i + 1 = 1
        BY <1>1, <1>5, <3>1
      <3> QED BY <1>2, <3>2
    <2>5. Counted(c)' <=> EligibleOn(identity, D)
      BY <1>3, <2>0, <2>4
    <2> QED BY <1>5, <2>5, HeadCounted DEF ProcessTransition, D
  <1> QED BY <1>4, <1>5

\* No transition meets a fault: whoever leaves the counts is in them.
LEMMA TransitionSound ==
    ASSUME PopulationInv, LoopInv, ProcessTransition,
           NEW t, t = Head(PopulationTransitions[PopulationReadyDate + 1])
    PROVE  /\ TransitionFault(t, PopulationReadyDate + 1) = "none"
           /\ PopulationMaintenanceFault' = "none"
  <1> DEFINE D == PopulationReadyDate + 1
             M == [s \in Scope |-> Members(s)]
             L == [s \in Scope |-> Members(s) \ {t.cid}]
  <1>1. /\ PopulationReadyDate \in 1..(today - 1) /\ PopulationTransitions[D] # << >>
        /\ PopulationMaintenanceFault' = TransitionFault(t, D)
    BY DEF ProcessTransition
  <1>2. ASSUME Live(t), t.kind = "deactivate"
        PROVE  CanDecrement(VotingCount, VotingIdentityByCid[t.cid])
    <2>1. Counted(t.cid) /\ t.cid \in Cid
      BY <1>1, <1>2, HeadCounted, HeadOfDay DEF Transition
    <2>2. CountsAre(VotingCount, M)
      BY MembersFinite DEF PopulationInv, CountsExact, Members, CountsAre
    <2>3. MovesOut(M, L, t.cid, VotingIdentityByCid[t.cid])
      BY <2>1 DEF Members, MovesOut
    <2> HIDE DEF M, L
    <2> QED BY <2>2, <2>3, LeavesCounts
  <1>3. Live(t) => /\ t.cid \in DOMAIN VotingIdentityByCid
                   /\ OccupiedActive(t.cid) /\ BindingComplete(t.cid)
    BY <1>1, HeadOfDay
  <1>4. TransitionFault(t, D) = "none"
    BY <1>2, <1>3 DEF TransitionFault
  <1> QED BY <1>1, <1>4

\* The counts follow a transition.
LEMMA ProcessedCounts ==
    ASSUME PopulationInv, LoopInv, ProcessTransition
    PROVE  CountsExact' /\ VotingCount' \in [Scope -> Nat]
  <1>0. PICK t : t = Head(PopulationTransitions[PopulationReadyDate + 1])
    OBVIOUS
  <1> DEFINE D == PopulationReadyDate + 1
             c == t.cid
             identity == VotingIdentityByCid[c]
             M == [s \in Scope |-> Members(s)]
             N == [s \in Scope |-> {b \in Cid : Counted(b)' /\
                                      SX!IsPrefix(s, VotingIdentityByCid'[b].residence)}]
  <1>1. /\ PopulationReadyDate \in 1..(today - 1) /\ PopulationTransitions[D] # << >>
        /\ VotingIdentityByCid' = VotingIdentityByCid
        /\ VotingCount' = CountsAfterTransition(t, D)
        /\ VotingCount \in [Scope -> Nat]
    BY <1>0 DEF ProcessTransition, PopulationInv, TypeOK, PopulationTypeOK
  <1>2. TransitionFault(t, D) = "none" /\ PopulationMaintenanceFault' = "none"
    BY <1>0, TransitionSound
  <1>3. /\ \A b \in Cid : ~(Live(t) /\ b = t.cid) => (Counted(b)' <=> Counted(b))
        /\ Live(t) => /\ Counted(t.cid) <=> t.kind = "deactivate"
                      /\ Counted(t.cid)' <=> t.kind = "activate"
    BY <1>0, <1>2, TakenCounted
  <1>4. /\ t \in Transition
        /\ Live(t) => Applies(t, D)
    BY <1>0, <1>1, HeadOfDay
  <1>5. CountsAre(VotingCount, M)
    BY MembersFinite DEF PopulationInv, CountsExact, Members, CountsAre
  <1>6. CountsAre(VotingCount', N)
    <2>1. CASE ~Live(t)
      <3>1. VotingCount' = VotingCount
        BY <1>1, <2>1 DEF CountsAfterTransition
      <3>2. ASSUME NEW s \in Scope PROVE N[s] = M[s]
        BY <1>1, <1>3, <2>1, <3>2 DEF Members
      <3> QED BY <1>5, <3>1, <3>2 DEF CountsAre
    <2>2. CASE Live(t) /\ t.kind = "activate"
      <3>1. VotingCount' = Adjusted(VotingCount, identity, 1)
        BY <1>1, <1>2, <1>4, <2>2 DEF CountsAfterTransition
      <3>2. c \in Cid /\ ~Counted(c) /\ Counted(c)'
            /\ \A b \in Cid : b # c => (Counted(b)' <=> Counted(b))
        BY <1>3, <1>4, <2>2 DEF Transition
      <3>3. MovesIn(M, N, c, identity)
        <4> SUFFICES ASSUME NEW s \in Scope
                     PROVE  /\ SX!IsPrefix(s, identity.residence)
                                 => c \notin M[s] /\ N[s] = M[s] \cup {c}
                            /\ ~SX!IsPrefix(s, identity.residence) => N[s] = M[s]
          BY DEF MovesIn
        <4>1. /\ c \notin M[s]
              /\ c \in N[s] <=> SX!IsPrefix(s, identity.residence)
              /\ \A b : b # c => (b \in N[s] <=> b \in M[s])
          BY <1>1, <3>2 DEF Members
        <4> HIDE DEF M, N, c
        <4> QED BY <4>1
      <3> HIDE DEF M, N, identity
      <3> QED BY <1>5, <3>1, <3>3, EntersCounts
    <2>3. CASE Live(t) /\ t.kind = "deactivate"
      <3>1. VotingCount' = Adjusted(VotingCount, identity, -1)
        BY <1>1, <1>2, <1>4, <2>3 DEF CountsAfterTransition
      <3>2. c \in Cid /\ Counted(c) /\ ~Counted(c)'
            /\ \A b \in Cid : b # c => (Counted(b)' <=> Counted(b))
        BY <1>3, <1>4, <2>3 DEF Transition
      <3>3. MovesOut(M, N, c, identity)
        <4> SUFFICES ASSUME NEW s \in Scope
                     PROVE  /\ SX!IsPrefix(s, identity.residence)
                                 => c \in M[s] /\ N[s] = M[s] \ {c}
                            /\ ~SX!IsPrefix(s, identity.residence) => N[s] = M[s]
          BY DEF MovesOut
        <4>1. /\ c \notin N[s]
              /\ c \in M[s] <=> SX!IsPrefix(s, identity.residence)
              /\ \A b : b # c => (b \in N[s] <=> b \in M[s])
          BY <1>1, <3>2 DEF Members
        <4> HIDE DEF M, N, c
        <4> QED BY <4>1
      <3> HIDE DEF M, N, identity
      <3> QED BY <1>5, <3>1, <3>3, LeavesCounts
    <2> QED BY <1>4, <2>1, <2>2, <2>3 DEF Transition
  <1>7. CountsExact'
    BY <1>6 DEF CountsExact, CountsAre
  <1>8. VotingCount' = [s \in Scope |-> VotingCount'[s]]
    BY <1>1 DEF CountsAfterTransition, Adjusted
  <1>9. \A s \in Scope : VotingCount'[s] \in Nat
    BY <1>6, FS_CardinalityType DEF CountsAre
  <1> QED BY <1>7, <1>8, <1>9

\* The record of on_idle's loop keeps its type.
LEMMA IdleTypes ==
    ASSUME NEW i \in [running : BOOLEAN, days : Nat, transitions : Nat], NEW n \in Nat
    PROVE  /\ [i EXCEPT !.days = n] \in [running : BOOLEAN, days : Nat, transitions : Nat]
           /\ [i EXCEPT !.transitions = n] \in [running : BOOLEAN, days : Nat, transitions : Nat]
           /\ i.days + 1 \in Nat /\ i.transitions + 1 \in Nat
  <1>1. i.days + 1 \in Nat /\ i.transitions + 1 \in Nat
    OBVIOUS
  <1> QED BY <1>1, Zenon

\* A step of on_idle that processes a transition keeps the invariant.
LEMMA PopulationProcessed ==
    ASSUME PopulationInv, LoopInv, ProcessTransition,
           UNCHANGED <<CandidateIdentityByCid, snapshots>>
    PROVE  PopulationInv'
  <1> DEFINE D == PopulationReadyDate + 1
             s == PopulationTransitions[D]
             r == PopulationTransitions'[D]
  <1>0. /\ UNCHANGED <<bindingVars, today, VotingIdentityByCid, NextEligibilityRevision,
                       VotingEligibilityVersions, PopulationReadyDate>>
        /\ TypeOK /\ PopulationReadyDate \in Nat /\ today \in Nat
        /\ PopulationReadyDate < today /\ PopulationReadyDate >= 1
        /\ idle' = [idle EXCEPT !.transitions = @ + 1]
    BY PopulationTypes DEF ProcessTransition, PopulationInv
  <1>1. PopulationMaintenanceFault' = "none"
    BY TransitionSound
  <1>2. /\ Len(s) \in Nat \ {0} /\ Len(r) = Len(s) - 1
        /\ \A i \in 1..Len(r) : i + 1 \in 1..Len(s) /\ r[i] = s[i + 1]
        /\ \A d \in Day \ {D} : PopulationTransitions'[d] = PopulationTransitions[d]
        /\ PopulationTransitions' \in [Day -> Seq(Transition)]
    BY <1>1, TransitionTaken
  <1>3. CountsExact' /\ VotingCount' \in [Scope -> Nat]
    BY ProcessedCounts
  <1>4. \A c : LastRevision(c)' = LastRevision(c)
    BY <1>0 DEF LastRevision
  <1>5. TypeOK'
    <2>1. idle' \in [running : BOOLEAN, days : Nat, transitions : Nat]
      <3>1. idle \in [running : BOOLEAN, days : Nat, transitions : Nat]
        BY <1>0 DEF TypeOK, PopulationTypeOK
      <3> QED BY <1>0, <3>1, IdleTypes
    <2>2. PopulationTypeOK'
      BY <1>0, <1>1, <1>2, <1>3, <2>1 DEF TypeOK, PopulationTypeOK
    <2> QED BY <1>0, <2>2 DEF TypeOK, BindingTypeOK, bindingVars
  <1>6. \A c \in Cid : IdentityFits(c)'
    BY <1>0, <1>4 DEF PopulationInv, IdentityFits, OccupiedActive, bindingVars
  <1>7. ASSUME NEW d \in Day PROVE DayFits(d)'
    <2>0. DayFits(d)
      BY DEF PopulationInv
    <2>1. CASE d # D
      BY <1>0, <1>2, <1>4, <2>0, <2>1 DEF DayFits, Turns, NextDate
    <2>2. CASE d = D
      <3> SUFFICES ASSUME NEW i \in 1..Len(r)
                   PROVE  /\ r[i].eligibility_revision =< NextEligibilityRevision
                          /\ d > PopulationReadyDate /\ r[i].cid \in DOMAIN VotingIdentityByCid
                             /\ r[i].eligibility_revision = LastRevision(r[i].cid)
                             => Turns(VotingIdentityByCid[r[i].cid], r[i].kind, d)
                          /\ \A j \in 1..Len(r) : r[j] = r[i] => i = j
        BY <1>0, <1>4, <2>2 DEF DayFits, Turns, NextDate
      <3>1. i + 1 \in 1..Len(s) /\ r[i] = s[i + 1]
        BY <1>2
      <3>2. ASSUME NEW j \in 1..Len(r), r[j] = r[i] PROVE i = j
        <4>1. j + 1 \in 1..Len(s) /\ r[j] = s[j + 1]
          BY <1>2
        <4>2. i + 1 = j + 1
          BY <2>0, <2>2, <3>1, <3>2, <4>1 DEF DayFits
        <4> QED BY <1>2, <4>2
      <3> QED BY <2>0, <2>2, <3>1, <3>2 DEF DayFits
    <2> QED BY <2>1, <2>2
  <1>8. ASSUME NEW d \in Day PROVE AllFiled(d)'
    <2>1. CASE d # D
      <3>1. AllFiled(d) /\ (Untouched(d)' <=> Untouched(d))
        BY <1>0 DEF PopulationInv, Untouched
      <3> QED BY <1>0, <1>2, <1>4, <2>1, <3>1 DEF AllFiled, Turns, NextDate, Pending
    <2>2. CASE d = D
      <3>1. ~Untouched(d)'
        BY <1>0, <2>2 DEF Untouched
      <3> QED BY <3>1 DEF AllFiled
    <2> QED BY <2>1, <2>2
  <1>9. /\ PopulationReadyDate' =< today' /\ PopulationReadyDate' # 0
        /\ NeverFaults'
    BY <1>0, <1>1 DEF NeverFaults
  <1> QED BY <1>3, <1>5, <1>6, <1>7, <1>8, <1>9 DEF PopulationInv

\* What the registrar submits, and the revoked form of an identity, are identities.
LEMMA IdentityTyped ==
    ASSUME PopulationInv
    PROVE  /\ \A p \in Payload : p \in VotingIdentity /\ p.from =< p.until
           /\ \A c \in DOMAIN VotingIdentityByCid :
                 /\ RevokedIdentity(c) \in VotingIdentity
                 /\ RevokedIdentity(c).from =< RevokedIdentity(c).until
                 /\ RevokedIdentity(c).citizen_status = "revoked"
  <1>1. ASSUME NEW p \in Payload PROVE p \in VotingIdentity /\ p.from =< p.until
    <2>1. PICK w \in Window, st \in StatusChoice, r \in Residence :
             p = [from |-> w[1], until |-> w[2], citizen_status |-> st, residence |-> r]
      BY DEF Payload
    <2>2. w[1] \in Day /\ w[2] \in Day /\ w[1] =< w[2] /\ st \in {"normal", "revoked"}
      BY PopulationAssumption
    <2> QED BY <2>1, <2>2 DEF VotingIdentity
  <1>2. ASSUME NEW c \in DOMAIN VotingIdentityByCid
        PROVE  /\ RevokedIdentity(c) \in VotingIdentity
               /\ RevokedIdentity(c).from =< RevokedIdentity(c).until
               /\ RevokedIdentity(c).citizen_status = "revoked"
    <2>1. VotingIdentityByCid[c] \in VotingIdentity /\ c \in Cid
      BY PopulationTypes DEF PopulationInv
    <2>2. VotingIdentityByCid[c].from =< VotingIdentityByCid[c].until
      BY <2>1 DEF PopulationInv, IdentityFits
    <2> QED BY <2>1, <2>2 DEF RevokedIdentity, VotingIdentity
  <1> QED BY <1>1, <1>2

\* An empty pallet: nobody has an identity, nothing is filed and nobody is counted.
LEMMA PopulationStart == Init => PopulationInv
  <1> SUFFICES ASSUME Init PROVE PopulationInv
    OBVIOUS
  <1> USE DEF Init, PopulationInit
  <1>1. LastDay \in Nat \ {0}
    BY PopulationAssumption
  <1>2. DOMAIN VotingIdentityByCid = {}
    BY DEF EmptyMap
  <1>3. BindingTypeOK
    BY LoopInit DEF LoopInv
  <1>4. PopulationTypeOK
    <2>1. IsMap(VotingIdentityByCid, Cid, VotingIdentity)
      BY EmptyIsMap
    <2>2. idle \in [running : BOOLEAN, days : Nat, transitions : Nat]
      <3>1. 0 \in Nat
        OBVIOUS
      <3> QED BY <3>1, Zenon DEF Resting
    <2>3. today \in Day /\ PopulationReadyDate \in 0..LastDay
      BY <1>1 DEF Day
    <2>4. << >> \in Seq(Version) /\ << >> \in Seq(Transition)
      OBVIOUS
    <2> QED BY <2>1, <2>2, <2>3, <2>4 DEF PopulationTypeOK
  <1>5. TypeOK
    BY <1>3, <1>4, EmptyIsMap DEF TypeOK
  <1>6. \A c \in Cid : IdentityFits(c)
    BY <1>2 DEF IdentityFits
  <1>7. \A d \in Day : DayFits(d) /\ AllFiled(d)
    BY <1>2 DEF DayFits, AllFiled
  <1>8. CountsExact
    <2>1. \A c : ~Counted(c)
      BY <1>2 DEF Counted
    <2>2. \A s \in Scope :
             {c \in Cid : Counted(c) /\ SX!IsPrefix(s, VotingIdentityByCid[c].residence)} = {}
      BY <2>1
    <2> QED BY <2>2, FS_EmptySet DEF CountsExact
  <1> QED BY <1>2, <1>5, <1>6, <1>7, <1>8 DEF PopulationInv, NeverFaults

\* The calls on the register of numbers leave the population alone.
LEMMA PopulationBound ==
    ASSUME PopulationInv, LoopInv, LoopInv', BindingCall PROVE PopulationInv'
  <1>0. /\ UNCHANGED populationVars
        /\ UNCHANGED <<today, idle, CandidateIdentityByCid, snapshots>>
        /\ TypeOK /\ today \in Nat
    BY PopulationTypes DEF BindingCall, PopulationInv
  <1>1. TypeOK'
    BY <1>0 DEF TypeOK, PopulationTypeOK, populationVars, LoopInv
  <1>2. ASSUME NEW b \in DOMAIN CidRegistry
        PROVE  b \in DOMAIN CidRegistry' /\ CidRegistry'[b] = CidRegistry[b]
    BY DEF BindingCall, SelfOccupyCid, OccupyCid, SelfRebindCidAccountId, RebindAccountId,
           DoOccupyCid, Insert
  <1>3. \A b : OccupiedActive(b) => OccupiedActive(b)'
    BY <1>2 DEF OccupiedActive
  <1> QED BY <1>0, <1>1, <1>2, <1>3, PopulationKept

\* A write by a registrar: the number is active and stays so.
LEMMA PopulationSubmitted ==
    ASSUME PopulationInv, LoopInv, LoopInv', NEW c \in Cid, NEW p \in Payload, MayWrite(c),
           ReplaceVotingIdentity(c, p), UNCHANGED <<bindingVars, today, idle, snapshots>>,
           IsMap(CandidateIdentityByCid, Cid, Birth)'
    PROVE  PopulationInv'
  <1>1. Written(c, p)
    BY IdentityTyped DEF Written
  <1>2. TypeOK'
    BY <1>1, WrittenTypes DEF TypeOK, LoopInv, PopulationInv
  <1>3. /\ c \in DOMAIN CidRegistry /\ CidRegistry' = CidRegistry
        /\ \A b : OccupiedActive(b)' <=> OccupiedActive(b)
        /\ OccupiedActive(c)
    BY DEF MayWrite, OccupiedActive, bindingVars
  <1> QED BY <1>1, <1>2, <1>3, PopulationWritten

\* Revoking a number revokes its identity in the same call, so no identity stays in force
\* for a tombstone (revoke_identity, revoke_cid).
LEMMA PopulationRevoked ==
    ASSUME PopulationInv, LoopInv, LoopInv', NEW c \in Cid, OccupiedActive(c),
           TombstoneCidRecord(c), UNCHANGED <<today, idle, snapshots>>,
           IsMap(CandidateIdentityByCid, Cid, Birth)',
           \/ /\ c \in DOMAIN VotingIdentityByCid
              /\ ReplaceVotingIdentity(c, RevokedIdentity(c))
           \/ /\ c \in DOMAIN VotingIdentityByCid => VotingIdentityByCid[c].citizen_status # "normal"
              /\ UNCHANGED populationVars
    PROVE  PopulationInv'
  <1>0. TypeOK /\ today \in Nat
    BY PopulationTypes DEF PopulationInv
  <1>1. /\ c \in DOMAIN CidRegistry
        /\ DOMAIN CidRegistry' = DOMAIN CidRegistry
        /\ \A b \in DOMAIN CidRegistry \ {c} : CidRegistry'[b] = CidRegistry[b]
    BY DEF TombstoneCidRecord, OccupiedActive
  <1>2. \A b : b # c /\ OccupiedActive(b) => OccupiedActive(b)'
    BY <1>1 DEF OccupiedActive
  <1>3. CASE c \in DOMAIN VotingIdentityByCid /\ ReplaceVotingIdentity(c, RevokedIdentity(c))
    <2> DEFINE next == RevokedIdentity(c)
    <2>1. Written(c, next) /\ next.citizen_status = "revoked"
      BY <1>3, IdentityTyped DEF Written
    <2> HIDE DEF next
    <2>2. TypeOK'
      BY <2>1, WrittenTypes DEF TypeOK, LoopInv, PopulationInv
    <2> QED BY <1>1, <1>2, <2>1, <2>2, PopulationWritten
  <1>4. CASE /\ c \in DOMAIN VotingIdentityByCid => VotingIdentityByCid[c].citizen_status # "normal"
             /\ UNCHANGED populationVars
    <2>1. TypeOK'
      BY <1>0, <1>4 DEF TypeOK, PopulationTypeOK, populationVars, LoopInv
    <2> QED BY <1>0, <1>1, <1>2, <1>4, <2>1, PopulationKept
  <1> QED BY <1>3, <1>4

\* Every call, every round of on_idle and every block keeps the invariant.
LEMMA PopulationStep ==
    ASSUME PopulationInv, LoopInv, [Next]_vars PROVE PopulationInv'
  <1>0. /\ LoopInv' /\ TypeOK /\ today \in Nat /\ PopulationTypeOK
        /\ IsMap(CandidateIdentityByCid, Cid, Birth)
    BY LoopStep, PopulationTypes DEF PopulationInv, TypeOK
  <1>1. CASE BindingCall
    BY <1>0, <1>1, PopulationBound
  <1>2. CASE IdentityCall
    <2>1. ASSUME NEW c \in Cid, NEW p \in Payload,
                 RegisterVotingIdentity(c, p) \/ UpdateVotingIdentity(c, p)
          PROVE  PopulationInv'
      <3>1. /\ MayWrite(c) /\ ReplaceVotingIdentity(c, p)
            /\ UNCHANGED <<bindingVars, today, idle, snapshots>>
            /\ UNCHANGED CandidateIdentityByCid
        BY <2>1 DEF RegisterVotingIdentity, UpdateVotingIdentity
      <3> QED BY <1>0, <3>1, PopulationSubmitted
    <2>2. ASSUME NEW c \in Cid, NEW p \in Payload, NEW b \in Birth,
                 UpgradeToCandidateIdentity(c, p, b) \/ UpdateCandidateIdentity(c, p, b)
          PROVE  PopulationInv'
      <3>1. /\ MayWrite(c) /\ ReplaceVotingIdentity(c, p)
            /\ UNCHANGED <<bindingVars, today, idle, snapshots>>
            /\ CandidateIdentityByCid' = Insert(CandidateIdentityByCid, c, b)
        BY <2>2 DEF UpgradeToCandidateIdentity, UpdateCandidateIdentity
      <3>2. IsMap(CandidateIdentityByCid, Cid, Birth)'
        BY <1>0, <3>1, InsertIsMap
      <3> QED BY <1>0, <3>1, <3>2, PopulationSubmitted
    <2>3. ASSUME NEW c \in Cid, RevokeIdentity(c) \/ RevokeCid(c) PROVE PopulationInv'
      <3>1. /\ OccupiedActive(c) /\ TombstoneCidRecord(c)
            /\ UNCHANGED <<today, idle, snapshots>>
        BY <2>3 DEF RevokeIdentity, RevokeCid
      <3>2. IsMap(CandidateIdentityByCid, Cid, Birth)'
        BY <1>0, <2>3, RemoveIsMap DEF RevokeIdentity, RevokeCid
      <3>3. \/ /\ c \in DOMAIN VotingIdentityByCid
               /\ ReplaceVotingIdentity(c, RevokedIdentity(c))
            \/ /\ c \in DOMAIN VotingIdentityByCid
                     => VotingIdentityByCid[c].citizen_status # "normal"
               /\ UNCHANGED populationVars
        <4>1. c \in DOMAIN AccountIdByCid
          BY <3>1 DEF LoopInv, BindingsClosed, OccupiedActive
        <4> QED BY <2>3, <4>1 DEF RevokeIdentity, RevokeCid, NeedsRevocation
      <3> QED BY <1>0, <3>1, <3>2, <3>3, PopulationRevoked
    <2> QED BY <1>2, <2>1, <2>2, <2>3 DEF IdentityCall
  <1>3. ASSUME NEW s \in Scope, TakeSnapshot(s) PROVE PopulationInv'
    <2>1. /\ UNCHANGED populationVars
          /\ UNCHANGED <<bindingVars, today, idle, CandidateIdentityByCid>>
          /\ snapshots' = snapshots \cup {PopulationData(s)}
      BY <1>3 DEF TakeSnapshot
    <2>2. PopulationData(s) \in [scope : Scope, eligible_total : Nat,
                                 eligibility_revision : Nat, eligibility_date : Day]
      BY <1>0 DEF PopulationData, PopulationTypeOK
    <2>3. TypeOK'
      BY <1>0, <2>1, <2>2 DEF TypeOK, PopulationTypeOK, populationVars, LoopInv
    <2> QED BY <1>0, <2>1, <2>3, PopulationKept DEF bindingVars, OccupiedActive
  <1>4. CASE IdleStep
    <2>0. UNCHANGED <<CandidateIdentityByCid, snapshots>>
      BY <1>4 DEF IdleStep
    <2>1. CASE StartIdle
      <3>1. /\ UNCHANGED populationVars /\ UNCHANGED <<bindingVars, today>>
            /\ idle' = [Resting EXCEPT !.running = TRUE]
        BY <2>1 DEF StartIdle
      <3>2. idle' \in [running : BOOLEAN, days : Nat, transitions : Nat]
        <4>1. 0 \in Nat
          OBVIOUS
        <4> QED BY <3>1, <4>1, Zenon DEF Resting
      <3>3. TypeOK'
        BY <1>0, <2>0, <3>1, <3>2 DEF TypeOK, PopulationTypeOK, populationVars, LoopInv
      <3> QED BY <1>0, <3>1, <3>3, PopulationKept DEF bindingVars, OccupiedActive
    <2>2. CASE InitializePopulationDate
      <3>1. /\ today' = today /\ PopulationReadyDate' = today
            /\ idle' = [idle EXCEPT !.days = MaxDays]
            /\ UNCHANGED <<bindingVars, VotingIdentityByCid, NextEligibilityRevision,
                           VotingEligibilityVersions, VotingCount, PopulationTransitions,
                           PopulationMaintenanceFault>>
        BY <2>2 DEF InitializePopulationDate
      <3>2. idle' \in [running : BOOLEAN, days : Nat, transitions : Nat]
        BY <1>0, <3>1, IdleTypes, PopulationAssumption DEF PopulationTypeOK
      <3>3. today \in 0..LastDay
        BY <1>0, PopulationTypes
      <3>4. TypeOK'
        BY <1>0, <2>0, <3>1, <3>2, <3>3 DEF TypeOK, PopulationTypeOK, LoopInv
      <3> QED BY <2>2, <3>4, PopulationInitialized
    <2>3. CASE ProcessTransition
      BY <2>0, <2>3, PopulationProcessed
    <2>4. CASE AdvanceReadyDate
      <3>1. /\ today' = today /\ PopulationReadyDate' = PopulationReadyDate + 1
            /\ PopulationReadyDate \in 1..(today - 1)
            /\ idle' = [idle EXCEPT !.days = idle.days + 1]
            /\ UNCHANGED <<bindingVars, VotingIdentityByCid, NextEligibilityRevision,
                           VotingEligibilityVersions, VotingCount, PopulationTransitions,
                           PopulationMaintenanceFault>>
        BY <2>4 DEF AdvanceReadyDate
      <3>2. idle' \in [running : BOOLEAN, days : Nat, transitions : Nat]
        BY <1>0, <3>1, IdleTypes DEF PopulationTypeOK
      <3>3. PopulationReadyDate' \in 0..LastDay
        BY <1>0, <3>1, PopulationTypes
      <3>4. TypeOK'
        BY <1>0, <2>0, <3>1, <3>2, <3>3 DEF TypeOK, PopulationTypeOK, LoopInv
      <3> QED BY <2>4, <3>4, PopulationAdvanced
    <2> QED BY <1>4, <2>1, <2>2, <2>3, <2>4 DEF IdleStep
  <1>5. CASE EndBlock
    <2>1. /\ UNCHANGED populationVars /\ UNCHANGED bindingVars /\ idle' = Resting
          /\ UNCHANGED <<CandidateIdentityByCid, snapshots>> /\ today' \in today..LastDay
      BY <1>5 DEF EndBlock, NextDay
    <2>2. today' \in Day /\ today' \in Nat /\ today' >= today
      BY <1>0, <2>1, PopulationTypes DEF Day
    <2>3. idle' \in [running : BOOLEAN, days : Nat, transitions : Nat]
      <3>1. 0 \in Nat
        OBVIOUS
      <3> QED BY <2>1, <3>1, Zenon DEF Resting
    <2>4. TypeOK'
      BY <1>0, <2>1, <2>2, <2>3 DEF TypeOK, PopulationTypeOK, populationVars, LoopInv
    <2> QED BY <1>0, <2>1, <2>2, <2>4, PopulationKept DEF bindingVars, OccupiedActive
  <1>6. CASE UNCHANGED vars
    <2>1. /\ UNCHANGED populationVars
          /\ UNCHANGED <<bindingVars, today, idle, CandidateIdentityByCid, snapshots>>
      BY <1>6 DEF vars
    <2>2. TypeOK'
      BY <1>0, <2>1 DEF TypeOK, PopulationTypeOK, populationVars, LoopInv
    <2> QED BY <1>0, <2>1, <2>2, PopulationKept DEF bindingVars, OccupiedActive
  <1> QED BY <1>1, <1>2, <1>3, <1>4, <1>5, <1>6 DEF Next

\* The invariant holds in every state of the pallet.
LEMMA PopulationAlways == Spec => [](PopulationInv /\ LoopInv)
  <1>1. Init => PopulationInv /\ LoopInv
    BY PopulationStart, LoopInit DEF Init
  <1>2. (PopulationInv /\ LoopInv) /\ [Next]_vars => (PopulationInv /\ LoopInv)'
    BY PopulationStep, LoopStep
  <1> QED BY <1>1, <1>2, PTL DEF Spec

\* The storage items of the identity pallet keep their types, the counts of voters among
\* them never below zero (write_adjusted_scope_counts).
THEOREM IdentityTypes == Spec => []TypeOK
  BY PopulationAlways, PTL DEF PopulationInv

\* The four counts of voters equal the number of identities that count, after every write
\* and in the middle of every day the maintenance works off (VotingCount, on_idle).
THEOREM CountsAlwaysExact == Spec => []CountsExact
  BY PopulationAlways, PTL DEF PopulationInv

\* The maintenance finds every transition it needs and never takes from a count of zero,
\* so identities and population data are never frozen (PopulationMaintenanceFault).
THEOREM MaintenanceNeverFaults == Spec => []NeverFaults
  BY PopulationAlways, PTL DEF PopulationInv

-------------------------------------------------------------------------------
(* The histories, and the rolls that are read off them.                      *)

\* A history is in the order of its revisions, and every version but the last ends where
\* the next one starts.
Ordered(h) ==
    /\ \A i, j \in 1..Len(h) :
          i < j => h[i].valid_from_revision < h[j].valid_from_revision
    /\ \A i \in 1..Len(h) :
          h[i].valid_until_revision =
             IF i = Len(h) THEN 0 ELSE h[i + 1].valid_from_revision

\* The last version holds the present identity; no version is of a revision to come.
HistoryFits(c) ==
    /\ Ordered(VotingEligibilityVersions[c])
    /\ \A i \in 1..Len(VotingEligibilityVersions[c]) :
          VotingEligibilityVersions[c][i].valid_from_revision \in 1..NextEligibilityRevision
    /\ VotingEligibilityVersions[c] # << >> =>
          SX!Last(VotingEligibilityVersions[c]).identity = VotingIdentityByCid[c]

HistoryInv ==
    /\ \A c \in Cid : HistoryFits(c)
    /\ \A data \in snapshots : data.eligibility_revision =< NextEligibilityRevision

\* The binary search of identity_at_revision finds the last version that starts at or
\* before the revision.
LEMMA SearchFinds ==
    ASSUME NEW h \in Seq(Version), NEW revision \in Nat, NEW n \in 0..Len(h),
           \A i \in 1..Len(h) : h[i].valid_from_revision =< revision <=> i =< n
    PROVE  VersionsUpTo(h, revision) = n
  <1> DEFINE Ranges == (0..Len(h)) \X (0..Len(h))
             mid(low, high) == low + ((high - low) \div 2)
             step(g, low, high) ==
                IF low < high
                THEN IF h[mid(low, high) + 1].valid_from_revision =< revision
                     THEN g[<<mid(low, high) + 1, high>>] ELSE g[<<low, mid(low, high)>>]
                ELSE low
             Searches(g) == g = [range \in Ranges |-> step(g, range[1], range[2])]
             search == CHOOSE g : Searches(g)
             clamp(low, high) ==
                IF low < high THEN IF n < low THEN low ELSE IF n > high THEN high ELSE n
                ELSE low
             found == [range \in Ranges |-> clamp(range[1], range[2])]
  <1>0. Len(h) \in Nat /\ n \in Nat /\ n =< Len(h)
    OBVIOUS
  <1>1. VersionsUpTo(h, revision) = search[<<0, Len(h)>>]
    BY DEF VersionsUpTo
  <1>2. ASSUME NEW low \in 0..Len(h), NEW high \in 0..Len(h), low < high
        PROVE  /\ mid(low, high) \in 0..Len(h) /\ mid(low, high) + 1 \in 0..Len(h)
               /\ low =< mid(low, high) /\ mid(low, high) < high
               /\ h[mid(low, high) + 1].valid_from_revision =< revision
                    <=> mid(low, high) + 1 =< n
    <2>1. mid(low, high) \in Nat /\ low =< mid(low, high) /\ mid(low, high) < high
      BY <1>0, <1>2
    <2>2. mid(low, high) + 1 \in 1..Len(h)
      BY <1>0, <1>2, <2>1
    <2> HIDE DEF mid
    <2> QED BY <1>0, <1>2, <2>1, <2>2
  <1> HIDE DEF mid
  <1>3. Searches(found)
    <2>1. ASSUME NEW low \in 0..Len(h), NEW high \in 0..Len(h)
          PROVE  clamp(low, high) = step(found, low, high)
      <3>1. CASE ~(low < high)
        BY <3>1
      <3>2. CASE low < high
        <4> DEFINE m == mid(low, high)
        <4>1. /\ m \in 0..Len(h) /\ m + 1 \in 0..Len(h) /\ low =< m /\ m < high
              /\ h[m + 1].valid_from_revision =< revision <=> m + 1 =< n
          BY <1>2, <3>2
        <4>2. /\ found[<<m + 1, high>>] = clamp(m + 1, high)
              /\ found[<<low, m>>] = clamp(low, m)
          <5> HIDE DEF clamp, m
          <5> QED BY <4>1
        <4>3. step(found, low, high) = IF m + 1 =< n THEN clamp(m + 1, high) ELSE clamp(low, m)
          <5> HIDE DEF clamp, found
          <5> QED BY <3>2, <4>1, <4>2
        <4> HIDE DEF step, found, m
        <4> QED BY <1>0, <3>2, <4>1, <4>3
      <3> QED BY <3>1, <3>2
    <2> HIDE DEF step, clamp
    <2>2. \A range \in Ranges : range[1] \in 0..Len(h) /\ range[2] \in 0..Len(h)
      OBVIOUS
    <2> HIDE DEF Ranges
    <2>3. found = [range \in Ranges |-> step(found, range[1], range[2])]
      <3>1. \A range \in Ranges :
               clamp(range[1], range[2]) = step(found, range[1], range[2])
        BY <2>1, <2>2
      <3> QED BY <3>1
    <2> QED BY <2>3
  <1>4. Searches(search)
    <2> HIDE DEF Searches
    <2> QED BY <1>3
  <1>5. ASSUME NEW low \in 0..Len(h), NEW high \in 0..Len(h)
        PROVE  search[<<low, high>>] = step(search, low, high)
    <2> HIDE DEF step, search
    <2> QED BY <1>4
  <1> DEFINE bad == {k \in Nat : \E low, high \in 0..Len(h) :
                        low =< n /\ n =< high /\ k = high - low /\ search[<<low, high>>] # n}
  <1> HIDE DEF search, found
  <1>6. bad = {}
    <2> SUFFICES ASSUME bad # {} PROVE FALSE
      OBVIOUS
    <2>1. PICK k \in bad : \A l \in bad : k =< l
      <3>1. bad \in SUBSET Nat
        OBVIOUS
      <3> HIDE DEF bad
      <3> QED BY <3>1, LeastNat
    <2>2. PICK low \in 0..Len(h), high \in 0..Len(h) :
             low =< n /\ n =< high /\ k = high - low /\ search[<<low, high>>] # n
      OBVIOUS
    <2>3. \A l, g \in 0..Len(h) : l =< n /\ n =< g /\ g - l < k => search[<<l, g>>] = n
      <3> SUFFICES ASSUME NEW l \in 0..Len(h), NEW g \in 0..Len(h), l =< n, n =< g,
                          g - l < k, search[<<l, g>>] # n
                   PROVE  FALSE
        OBVIOUS
      <3>1. g - l \in Nat
        BY <1>0
      <3>2. g - l \in bad
        BY <3>1
      <3> HIDE DEF bad
      <3>3. k =< g - l /\ k \in Int
        BY <2>1, <2>2, <3>2
      <3> QED BY <3>1, <3>3
    <2>4. CASE ~(low < high)
      <3>1. low = n
        BY <1>0, <2>2, <2>4
      <3>2. search[<<low, high>>] = low
        BY <1>5, <2>4
      <3> QED BY <2>2, <3>1, <3>2
    <2>5. CASE low < high
      <3> DEFINE m == mid(low, high)
      <3>1. /\ m \in 0..Len(h) /\ m + 1 \in 0..Len(h) /\ low =< m /\ m < high
            /\ h[m + 1].valid_from_revision =< revision <=> m + 1 =< n
        BY <1>2, <2>5
      <3>2. search[<<low, high>>] =
               IF m + 1 =< n THEN search[<<m + 1, high>>] ELSE search[<<low, m>>]
        BY <1>5, <2>5, <3>1
      <3> HIDE DEF m, step, bad
      <3>3. m + 1 =< n => search[<<m + 1, high>>] = n
        BY <1>0, <2>2, <2>3, <3>1
      <3>4. ~(m + 1 =< n) => search[<<low, m>>] = n
        BY <1>0, <2>2, <2>3, <3>1
      <3> QED BY <2>2, <3>2, <3>3, <3>4
    <2> QED BY <2>4, <2>5
  <1>7. search[<<0, Len(h)>>] = n
    <2> SUFFICES ASSUME search[<<0, Len(h)>>] # n PROVE FALSE
      OBVIOUS
    <2>1. 0 \in 0..Len(h) /\ Len(h) \in 0..Len(h) /\ 0 =< n /\ Len(h) = Len(h) - 0
      BY <1>0
    <2>2. Len(h) \in bad
      BY <1>0, <2>1
    <2> QED BY <1>6, <2>2
  <1> QED BY <1>1, <1>7 DEF search

\* In an ordered history the versions up to a revision are the first ones.
LEMMA FirstVersions ==
    ASSUME NEW h \in Seq(Version), Ordered(h), NEW revision \in Nat
    PROVE  \E n \in 0..Len(h) :
              \A i \in 1..Len(h) : h[i].valid_from_revision =< revision <=> i =< n
  <1> DEFINE ends == {n \in 0..Len(h) :
                        n # Len(h) => ~(h[n + 1].valid_from_revision =< revision)}
  <1>0. Len(h) \in Nat /\ \A i \in 1..Len(h) : h[i].valid_from_revision \in Nat
    <2>1. Len(h) \in Nat /\ \A i \in 1..Len(h) : h[i] \in Version
      OBVIOUS
    <2> QED BY <2>1 DEF Version
  <1>1. PICK n \in ends : \A k \in ends : n =< k
    <2>1. Len(h) \in ends /\ ends \in SUBSET Nat
      BY <1>0
    <2> HIDE DEF ends
    <2> QED BY <2>1, LeastNat
  <1>2. n \in 0..Len(h)
    OBVIOUS
  <1>3. ASSUME NEW i \in 1..Len(h) PROVE h[i].valid_from_revision =< revision <=> i =< n
    <2>1. CASE i =< n
      <3>1. i - 1 \in 0..Len(h) /\ i - 1 # Len(h) /\ (i - 1) + 1 = i /\ ~(n =< i - 1)
        BY <1>0, <1>2, <2>1
      <3>2. i - 1 \notin ends
        BY <1>1, <3>1
      <3> QED BY <2>1, <3>1, <3>2
    <2>2. CASE ~(i =< n)
      <3>1. n + 1 \in 1..Len(h) /\ n # Len(h) /\ (i = n + 1 \/ n + 1 < i)
        BY <1>0, <1>2, <2>2
      <3>2. ~(h[n + 1].valid_from_revision =< revision)
        BY <3>1
      <3>3. i = n + 1 \/ h[n + 1].valid_from_revision < h[i].valid_from_revision
        BY <3>1 DEF Ordered
      <3> QED BY <1>0, <2>2, <3>1, <3>2, <3>3
    <2> QED BY <2>1, <2>2
  <1> QED BY <1>2, <1>3

\* identity_at_revision, for a history.
IdentityIn(h, revision) ==
    {h[i].identity : i \in {i \in {VersionsUpTo(h, revision)} :
        i > 0 /\ (h[i].valid_until_revision = 0 \/ revision < h[i].valid_until_revision)}}

\* Of an ordered history every revision reads the last version that had started by then.
LEMMA IdentityRead ==
    ASSUME NEW h \in Seq(Version), Ordered(h), NEW revision \in Nat, NEW n \in 0..Len(h),
           \A i \in 1..Len(h) : h[i].valid_from_revision =< revision <=> i =< n
    PROVE  IdentityIn(h, revision) = IF n = 0 THEN {} ELSE {h[n].identity}
  <1>0. Len(h) \in Nat /\ VersionsUpTo(h, revision) = n
    BY SearchFinds
  <1>1. CASE n = 0
    BY <1>0, <1>1 DEF IdentityIn
  <1>2. CASE n # 0
    <2>1. n \in 1..Len(h) /\ n > 0
      BY <1>0, <1>2
    <2>2. h[n].valid_until_revision = 0 \/ revision < h[n].valid_until_revision
      <3>1. CASE n = Len(h)
        BY <2>1, <3>1 DEF Ordered
      <3>2. CASE n # Len(h)
        <4>1. n + 1 \in 1..Len(h) /\ ~(n + 1 =< n)
          BY <1>0, <2>1, <3>2
        <4>2. h[n + 1] \in Version
          BY <4>1
        <4>3. ~(h[n + 1].valid_from_revision =< revision) /\ h[n + 1].valid_from_revision \in Nat
          BY <4>1, <4>2 DEF Version
        <4>4. h[n].valid_until_revision = h[n + 1].valid_from_revision
          BY <2>1, <3>2 DEF Ordered
        <4> QED BY <4>3, <4>4
      <3> QED BY <3>1, <3>2
    <2> QED BY <1>0, <1>2, <2>1, <2>2 DEF IdentityIn
  <1> QED BY <1>1, <1>2

\* A write adds a version and closes the one before it.
LEMMA WrittenHistory ==
    ASSUME NEW c \in Cid, NEW next, Written(c, next),
           NEW h, h = VotingEligibilityVersions[c], NEW g, g = VotingEligibilityVersions'[c],
           NEW revision, revision = NextEligibilityRevision + 1
    PROVE  /\ h \in Seq(Version) /\ g \in Seq(Version) /\ Len(g) = Len(h) + 1
           /\ g[Len(g)] = [identity |-> next, valid_from_revision |-> revision,
                           valid_until_revision |-> 0]
           /\ \A i \in 1..Len(h) :
                 /\ g[i].identity = h[i].identity
                 /\ g[i].valid_from_revision = h[i].valid_from_revision
                 /\ g[i].valid_until_revision =
                       IF i = Len(h) THEN revision ELSE h[i].valid_until_revision
  <1> DEFINE closed == ClosedHistory(c, revision)
             version == [identity |-> next, valid_from_revision |-> revision,
                         valid_until_revision |-> 0]
  <1>0. /\ TypeOK /\ PopulationInv /\ ReplaceVotingIdentity(c, next) /\ next \in VotingIdentity
        /\ revision \in Nat /\ h \in Seq(Version)
        /\ VotingEligibilityVersions \in [Cid -> Seq(Version)]
    BY PopulationTypes DEF Written, PopulationInv, TypeOK, PopulationTypeOK
  <1>1. g = Append(closed, version)
    BY <1>0 DEF ReplaceVotingIdentity
  <1>2. version \in Version
    BY <1>0 DEF Version
  <1>3. closed \in Seq(Version) /\ Len(closed) = Len(h)
    BY <1>0, ClosedTypes
  <1>4. ASSUME NEW i \in 1..Len(h)
        PROVE  /\ closed[i].identity = h[i].identity
               /\ closed[i].valid_from_revision = h[i].valid_from_revision
               /\ closed[i].valid_until_revision =
                     IF i = Len(h) THEN revision ELSE h[i].valid_until_revision
    <2>1. h # << >> /\ h[i] \in Version
      BY <1>0
    <2>2. c \in DOMAIN VotingIdentityByCid
      BY <1>0, <2>1 DEF PopulationInv, IdentityFits
    <2>3. closed = [h EXCEPT ![Len(h)].valid_until_revision = revision]
      BY <2>1, <2>2 DEF ClosedHistory
    <2>4. closed[i] = IF i = Len(h) THEN [h[i] EXCEPT !.valid_until_revision = revision] ELSE h[i]
      BY <1>0, <2>3
    <2> HIDE DEF closed
    <2> QED BY <2>1, <2>4 DEF Version
  <1> HIDE DEF closed, version
  <1>5. /\ g \in Seq(Version) /\ Len(g) = Len(h) + 1 /\ g[Len(g)] = version
        /\ \A i \in 1..Len(h) : g[i] = closed[i]
    BY <1>0, <1>1, <1>2, <1>3
  <1> QED BY <1>0, <1>4, <1>5 DEF version

\* A write keeps the histories in order.
LEMMA HistoryWritten ==
    ASSUME NEW c \in Cid, NEW next, Written(c, next), HistoryInv, UNCHANGED snapshots,
           \A data \in snapshots : data.eligibility_revision \in Nat
    PROVE  HistoryInv'
  <1>0. /\ TypeOK /\ ReplaceVotingIdentity(c, next) /\ next \in VotingIdentity
        /\ NextEligibilityRevision \in Nat
    BY PopulationTypes DEF Written, PopulationInv
  <1>1. /\ DOMAIN VotingIdentityByCid' = DOMAIN VotingIdentityByCid \cup {c}
        /\ VotingIdentityByCid'[c] = next
        /\ \A b \in DOMAIN VotingIdentityByCid \ {c} :
              VotingIdentityByCid'[b] = VotingIdentityByCid[b]
        /\ NextEligibilityRevision' = NextEligibilityRevision + 1
        /\ \A b \in Cid \ {c} : VotingEligibilityVersions'[b] = VotingEligibilityVersions[b]
    BY <1>0, WrittenIdentity
  <1>2. ASSUME NEW b \in Cid \ {c} PROVE HistoryFits(b)'
    <2>1. HistoryFits(b) /\ VotingEligibilityVersions[b] \in Seq(Version)
      BY <1>0, PopulationTypes DEF HistoryInv
    <2>2. VotingEligibilityVersions[b] # << >> => b \in DOMAIN VotingIdentityByCid
      BY DEF Written, PopulationInv, IdentityFits
    <2>3. \A i \in 1..Len(VotingEligibilityVersions[b]) :
             VotingEligibilityVersions[b][i].valid_from_revision
                \in 1..(NextEligibilityRevision + 1)
      BY <1>0, <2>1 DEF HistoryFits
    <2> QED BY <1>1, <2>1, <2>2, <2>3 DEF HistoryFits
  <1>3. HistoryFits(c)'
    <2>0. PICK h, g, revision : /\ h = VotingEligibilityVersions[c]
                                /\ g = VotingEligibilityVersions'[c]
                                /\ revision = NextEligibilityRevision + 1
      OBVIOUS
    <2>1. /\ h \in Seq(Version) /\ g \in Seq(Version) /\ Len(g) = Len(h) + 1
          /\ g[Len(g)] = [identity |-> next, valid_from_revision |-> revision,
                          valid_until_revision |-> 0]
          /\ \A i \in 1..Len(h) :
                /\ g[i].identity = h[i].identity
                /\ g[i].valid_from_revision = h[i].valid_from_revision
                /\ g[i].valid_until_revision =
                      IF i = Len(h) THEN revision ELSE h[i].valid_until_revision
      BY <2>0, WrittenHistory
    <2>2. /\ g[Len(g)].identity = next /\ g[Len(g)].valid_from_revision = revision
          /\ g[Len(g)].valid_until_revision = 0
      BY <2>1
    <2>3. /\ Ordered(h)
          /\ \A i \in 1..Len(h) : h[i].valid_from_revision \in 1..NextEligibilityRevision
      BY <2>0 DEF HistoryInv, HistoryFits
    <2>4. Len(h) \in Nat /\ revision \in Nat /\ revision > NextEligibilityRevision
      BY <1>0, <2>0, <2>1
    <2>5. ASSUME NEW i \in 1..Len(g)
          PROVE  i \in 1..Len(h) \/ i = Len(g)
      BY <2>1, <2>4
    <2>6. ASSUME NEW i \in 1..Len(g), NEW j \in 1..Len(g), i < j
          PROVE  g[i].valid_from_revision < g[j].valid_from_revision
      <3>1. i \in 1..Len(h)
        BY <2>1, <2>4, <2>6
      <3>2. CASE j \in 1..Len(h)
        BY <2>1, <2>3, <2>6, <3>1, <3>2 DEF Ordered
      <3>3. CASE j = Len(g)
        <4>1. h[i].valid_from_revision \in 1..NextEligibilityRevision
          BY <2>3, <3>1
        <4> QED BY <1>0, <2>1, <2>2, <2>4, <3>1, <3>3, <4>1
      <3> QED BY <2>5, <3>2, <3>3
    <2>7. ASSUME NEW i \in 1..Len(g)
          PROVE  g[i].valid_until_revision =
                    IF i = Len(g) THEN 0 ELSE g[i + 1].valid_from_revision
      <3>1. CASE i = Len(g)
        BY <2>2, <3>1
      <3>2. CASE i # Len(g)
        <4>1. i \in 1..Len(h)
          BY <2>5, <3>2
        <4>2. CASE i = Len(h)
          <5>1. i + 1 = Len(g)
            BY <2>1, <4>2
          <5> QED BY <2>1, <2>2, <3>2, <4>1, <4>2, <5>1
        <4>3. CASE i # Len(h)
          <5>1. i + 1 \in 1..Len(h)
            BY <2>4, <4>1, <4>3
          <5>2. h[i].valid_until_revision = h[i + 1].valid_from_revision
            BY <2>3, <4>1, <4>3 DEF Ordered
          <5>3. g[i].valid_until_revision = h[i].valid_until_revision
                /\ g[i + 1].valid_from_revision = h[i + 1].valid_from_revision
            BY <2>1, <4>1, <4>3, <5>1
          <5> QED BY <3>2, <5>2, <5>3
        <4> QED BY <4>2, <4>3
      <3> QED BY <3>1, <3>2
    <2>8. Ordered(g)
      BY <2>6, <2>7 DEF Ordered
    <2>9. ASSUME NEW i \in 1..Len(g) PROVE g[i].valid_from_revision \in 1..revision
      <3>1. CASE i = Len(g)
        BY <1>0, <2>0, <2>2, <3>1
      <3>2. CASE i \in 1..Len(h)
        <4>1. h[i].valid_from_revision \in 1..NextEligibilityRevision
          BY <2>3, <3>2
        <4> QED BY <1>0, <2>0, <2>1, <3>2, <4>1
      <3> QED BY <2>5, <3>1, <3>2
    <2>10. SX!Last(g).identity = next
      BY <2>2 DEF SX!Last
    <2> QED BY <1>1, <2>0, <2>8, <2>9, <2>10 DEF HistoryFits
  <1>4. \A data \in snapshots : data.eligibility_revision =< NextEligibilityRevision + 1
    BY <1>0 DEF HistoryInv
  <1> QED BY <1>1, <1>2, <1>3, <1>4 DEF HistoryInv

\* A write does not touch what was true at an earlier revision: rolls keep their members.
LEMMA RollsWritten ==
    ASSUME NEW c \in Cid, NEW next, Written(c, next), HistoryInv, HistoryInv',
           NEW b \in Cid, NEW revision \in Nat, revision =< NextEligibilityRevision
    PROVE  IdentityAtRevision(b, revision)' = IdentityAtRevision(b, revision)
  <1>0. TypeOK /\ ReplaceVotingIdentity(c, next) /\ next \in VotingIdentity
        /\ NextEligibilityRevision \in Nat
    BY PopulationTypes DEF Written, PopulationInv
  <1>1. CASE b # c
    <2>1. VotingEligibilityVersions'[b] = VotingEligibilityVersions[b]
      BY <1>0, <1>1, WrittenIdentity
    <2> QED BY <2>1 DEF IdentityAtRevision
  <1>2. CASE b = c
    <2>0. PICK h, g, last : /\ h = VotingEligibilityVersions[c]
                            /\ g = VotingEligibilityVersions'[c]
                            /\ last = NextEligibilityRevision + 1
      OBVIOUS
    <2>1. /\ h \in Seq(Version) /\ g \in Seq(Version) /\ Len(g) = Len(h) + 1
          /\ g[Len(g)] = [identity |-> next, valid_from_revision |-> last,
                          valid_until_revision |-> 0]
          /\ \A i \in 1..Len(h) :
                /\ g[i].identity = h[i].identity
                /\ g[i].valid_from_revision = h[i].valid_from_revision
                /\ g[i].valid_until_revision =
                      IF i = Len(h) THEN last ELSE h[i].valid_until_revision
      BY <2>0, WrittenHistory
    <2>2. Ordered(h) /\ Ordered(g)
      BY <2>0 DEF HistoryInv, HistoryFits
    <2>3. PICK n \in 0..Len(h) :
             \A i \in 1..Len(h) : h[i].valid_from_revision =< revision <=> i =< n
      BY <2>1, <2>2, FirstVersions
    <2>4. Len(h) \in Nat /\ n \in 0..Len(g) /\ g[Len(g)].valid_from_revision = last
          /\ ~(last =< revision)
      BY <1>0, <2>0, <2>1
    <2>5. ASSUME NEW i \in 1..Len(g)
          PROVE  g[i].valid_from_revision =< revision <=> i =< n
      <3>1. CASE i \in 1..Len(h)
        BY <2>1, <2>3, <3>1
      <3>2. CASE i = Len(g)
        BY <2>1, <2>4, <3>2
      <3> QED BY <2>1, <2>4, <3>1, <3>2
    <2>6. /\ IdentityIn(h, revision) = IF n = 0 THEN {} ELSE {h[n].identity}
          /\ IdentityIn(g, revision) = IF n = 0 THEN {} ELSE {g[n].identity}
      BY <2>1, <2>2, <2>3, <2>4, <2>5, IdentityRead
    <2>7. n # 0 => g[n].identity = h[n].identity
      BY <2>1, <2>4
    <2>8. /\ IdentityAtRevision(b, revision) = IdentityIn(h, revision)
          /\ IdentityAtRevision(b, revision)' = IdentityIn(g, revision)
      BY <1>2, <2>0 DEF IdentityAtRevision, IdentityIn
    <2> QED BY <2>6, <2>7, <2>8
  <1> QED BY <1>1, <1>2

\* The revision of today reads the present identity.
LEMMA PresentRead ==
    ASSUME PopulationInv, HistoryInv, NEW c \in Cid
    PROVE  IdentityAtRevision(c, NextEligibilityRevision) =
              IF c \in DOMAIN VotingIdentityByCid THEN {VotingIdentityByCid[c]} ELSE {}
  <1>0. PICK h, revision : h = VotingEligibilityVersions[c] /\ revision = NextEligibilityRevision
    OBVIOUS
  <1>1. h \in Seq(Version) /\ revision \in Nat /\ Ordered(h) /\ Len(h) \in Nat
    BY <1>0, PopulationTypes DEF PopulationInv, HistoryInv, HistoryFits
  <1>2. \A i \in 1..Len(h) : h[i].valid_from_revision =< revision
    BY <1>0, <1>1 DEF HistoryInv, HistoryFits
  <1>3. IdentityIn(h, revision) = IF Len(h) = 0 THEN {} ELSE {h[Len(h)].identity}
    <2>1. Len(h) \in 0..Len(h)
          /\ \A i \in 1..Len(h) : h[i].valid_from_revision =< revision <=> i =< Len(h)
      BY <1>1, <1>2
    <2> QED BY <1>1, <2>1, IdentityRead
  <1>4. Len(h) # 0 <=> c \in DOMAIN VotingIdentityByCid
    BY <1>0, <1>1 DEF PopulationInv, IdentityFits
  <1>5. Len(h) # 0 => h[Len(h)].identity = VotingIdentityByCid[c]
    BY <1>0, <1>1 DEF HistoryInv, HistoryFits, SX!Last
  <1>6. IdentityAtRevision(c, NextEligibilityRevision) = IdentityIn(h, revision)
    BY <1>0 DEF IdentityAtRevision, IdentityIn
  <1> QED BY <1>3, <1>4, <1>5, <1>6

\* Nothing is registered, so there is nothing to read.
LEMMA HistoryStart == Init => HistoryInv
  <1> SUFFICES ASSUME Init PROVE HistoryInv
    OBVIOUS
  <1>1. snapshots = {} /\ \A c \in Cid : VotingEligibilityVersions[c] = << >>
    BY DEF Init, PopulationInit
  <1> QED BY <1>1 DEF HistoryInv, HistoryFits, Ordered

histories == <<VotingIdentityByCid, NextEligibilityRevision, VotingEligibilityVersions>>

\* What a step can do to histories, wallets and rolls: an identity is written, population
\* data is taken, or the histories stay; only the calls on the register move wallets.
LEMMA StepKinds ==
    ASSUME PopulationInv, LoopInv, [Next]_vars
    PROVE  \/ /\ \E c \in Cid : \E next : Written(c, next)
              /\ UNCHANGED <<AccountIdByCid, snapshots>>
           \/ \E s \in Scope : TakeSnapshot(s)
           \/ UNCHANGED histories /\ UNCHANGED <<AccountIdByCid, snapshots>>
           \/ BindingCall
  <1> USE DEF histories, populationVars, bindingVars
  <1>1. ASSUME NEW c \in Cid, NEW p \in Payload, ReplaceVotingIdentity(c, p), today' = today
        PROVE  Written(c, p)
    BY <1>1, IdentityTyped DEF Written
  <1>2. ASSUME NEW c \in Cid, c \in DOMAIN VotingIdentityByCid, today' = today,
               ReplaceVotingIdentity(c, RevokedIdentity(c))
        PROVE  Written(c, RevokedIdentity(c))
    BY <1>2, IdentityTyped DEF Written
  <1>3. CASE IdentityCall
    <2>1. ASSUME NEW c \in Cid, NEW p \in Payload,
                 RegisterVotingIdentity(c, p) \/ UpdateVotingIdentity(c, p)
          PROVE  Written(c, p) /\ UNCHANGED <<AccountIdByCid, snapshots>>
      BY <1>1, <2>1 DEF RegisterVotingIdentity, UpdateVotingIdentity
    <2>2. ASSUME NEW c \in Cid, NEW p \in Payload, NEW b \in Birth,
                 UpgradeToCandidateIdentity(c, p, b) \/ UpdateCandidateIdentity(c, p, b)
          PROVE  Written(c, p) /\ UNCHANGED <<AccountIdByCid, snapshots>>
      BY <1>1, <2>2 DEF UpgradeToCandidateIdentity, UpdateCandidateIdentity
    <2>3. ASSUME NEW c \in Cid, RevokeIdentity(c) \/ RevokeCid(c)
          PROVE  /\ Written(c, RevokedIdentity(c)) \/ UNCHANGED histories
                 /\ UNCHANGED <<AccountIdByCid, snapshots>>
      BY <1>2, <2>3 DEF RevokeIdentity, RevokeCid, NeedsRevocation, TombstoneCidRecord
    <2> QED BY <1>3, <2>1, <2>2, <2>3 DEF IdentityCall
  <1>4. CASE IdleStep
    BY <1>4 DEF IdleStep, StartIdle, InitializePopulationDate, ProcessTransition,
                AdvanceReadyDate
  <1>5. CASE EndBlock
    BY <1>5 DEF EndBlock, NextDay
  <1>6. CASE UNCHANGED vars
    BY <1>6 DEF vars
  <1> QED BY <1>3, <1>4, <1>5, <1>6 DEF Next

\* Every step keeps the histories in order.
LEMMA HistoryStep ==
    ASSUME PopulationInv, LoopInv, HistoryInv, [Next]_vars PROVE HistoryInv'
  <1>0. /\ NextEligibilityRevision \in Nat
        /\ \A data \in snapshots : data.eligibility_revision \in Nat
    BY DEF PopulationInv, TypeOK, PopulationTypeOK
  <1>1. CASE /\ \E c \in Cid : \E next : Written(c, next)
             /\ UNCHANGED <<AccountIdByCid, snapshots>>
    BY <1>0, <1>1, HistoryWritten
  <1>2. ASSUME NEW s \in Scope, TakeSnapshot(s) PROVE HistoryInv'
    <2>1. PopulationData(s).eligibility_revision = NextEligibilityRevision
      BY DEF PopulationData
    <2> QED BY <1>0, <1>2, <2>1 DEF TakeSnapshot, populationVars, HistoryInv, HistoryFits
  <1>3. CASE UNCHANGED histories /\ UNCHANGED <<AccountIdByCid, snapshots>>
    BY <1>3 DEF histories, HistoryInv, HistoryFits
  <1>4. CASE BindingCall
    BY <1>4 DEF BindingCall, populationVars, HistoryInv, HistoryFits
  <1> QED BY <1>1, <1>2, <1>3, <1>4, StepKinds

-------------------------------------------------------------------------------
(* The pallet implements the electorate.                                     *)

Standing == UNION {CitizenSubject(a) : a \in Account}

\* Whoever has a valid identity has standing, and only numbers with a wallet have standing
\* or a vote.
StandingFits ==
    /\ Standing = {c \in DOMAIN VotingIdentityByCid :
                      VotingIdentityByCid[c].citizen_status = "normal"}
    /\ Standing \subseteq DOMAIN AccountIdByCid
    /\ \A s \in Scope : VotersOf(s) \subseteq DOMAIN AccountIdByCid

\* A valid identity acts for its number with the wallet bound to it.
LEMMA StandingIs == PopulationInv /\ LoopInv => StandingFits
  <1> SUFFICES ASSUME PopulationInv, LoopInv PROVE StandingFits
    OBVIOUS
  <1>1. ASSUME NEW c \in DOMAIN VotingIdentityByCid
        PROVE  c \in Cid /\ c \in DOMAIN CidRegistry /\ c \in DOMAIN AccountIdByCid
    <2>1. c \in Cid
      BY PopulationTypes DEF PopulationInv
    <2> QED BY <2>1 DEF PopulationInv, IdentityFits, LoopInv, BindingsClosed
  <1>2. ASSUME NEW c \in DOMAIN VotingIdentityByCid,
               VotingIdentityByCid[c].citizen_status = "normal"
        PROVE  \E a \in Account : c \in CitizenSubject(a)
    <2>1. OccupiedActive(c)
      BY <1>1, <1>2 DEF PopulationInv, IdentityFits
    <2>2. BindingComplete(c) /\ AccountIdByCid[c] \in Account
      BY <1>1 DEF LoopInv, BindingsClosed, BindingTypeOK, IsMap
    <2> QED BY <1>1, <1>2, <2>1, <2>2 DEF CitizenSubject, BindingComplete
  <1>3. Standing = {c \in DOMAIN VotingIdentityByCid :
                      VotingIdentityByCid[c].citizen_status = "normal"}
    BY <1>2 DEF Standing, CitizenSubject
  <1> QED BY <1>1, <1>3 DEF StandingFits, VotersOf

\* The same after a step.
LEMMA StandingNext == PopulationInv' /\ LoopInv' => StandingFits'
  BY StandingIs, PTL

\* A roll that has been taken keeps its members: what is read at its revision stays.
LEMMA RollsKept ==
    ASSUME NEW data,
           \A b \in Cid : IdentityAtRevision(b, data.eligibility_revision)'
                            = IdentityAtRevision(b, data.eligibility_revision)
    PROVE  RollOf(data)' = RollOf(data)
  <1>1. \A b \in Cid : EligibleAt(b, data)' <=> EligibleAt(b, data)
    BY DEF EligibleAt, EligibleOn, PassportValidOn
  <1> QED BY <1>1 DEF RollOf

\* The population data of a scope: its members are the voters of the scope and its total
\* is their number (governance_population_data).
LEMMA RollTaken ==
    ASSUME PopulationInv, HistoryInv, NEW s \in Scope, PopulationReady
    PROVE  RollOf(PopulationData(s)) =
              [scope |-> s, members |-> VotersOf(s), total |-> Cardinality(VotersOf(s))]
  <1> DEFINE data == PopulationData(s)
  <1>0. /\ data.scope = s /\ data.eligible_total = VotingCount[s]
        /\ data.eligibility_revision = NextEligibilityRevision
        /\ data.eligibility_date = PopulationReadyDate /\ PopulationReadyDate = today
    BY DEF PopulationData, PopulationReady
  <1>1. \A c \in DOMAIN VotingIdentityByCid : c \in Cid
    BY PopulationTypes DEF PopulationInv
  <1>2. ASSUME NEW c \in Cid PROVE EligibleAt(c, data) <=> c \in VotersOf(s)
    <2>1. IdentityAtRevision(c, NextEligibilityRevision) =
              IF c \in DOMAIN VotingIdentityByCid THEN {VotingIdentityByCid[c]} ELSE {}
      BY PresentRead
    <2> HIDE DEF data
    <2> QED BY <1>0, <2>1 DEF EligibleAt, VotersOf
  <1>3. {c \in Cid : EligibleAt(c, data)} = VotersOf(s)
    BY <1>1, <1>2 DEF VotersOf
  <1>4. Members(s) = VotersOf(s)
    <2>1. ASSUME NEW c \in Cid
          PROVE  Counted(c) <=> /\ c \in DOMAIN VotingIdentityByCid
                                /\ EligibleOn(VotingIdentityByCid[c], PopulationReadyDate)
      <3>1. CASE c \in DOMAIN VotingIdentityByCid
        BY <1>0, <3>1, CountedReady
      <3>2. CASE c \notin DOMAIN VotingIdentityByCid
        BY <3>2, CountedOn
      <3> QED BY <3>1, <3>2
    <2> QED BY <1>1, <2>1 DEF Members, VotersOf
  <1>5. VotingCount[s] = Cardinality(VotersOf(s))
    BY <1>4 DEF PopulationInv, CountsExact, Members
  <1> QED BY <1>0, <1>3, <1>5 DEF RollOf

\* A number is bound to a wallet nobody has, or keeps its own.
LEMMA WalletBound ==
    ASSUME LoopInv, BindingCall
    PROVE  \/ AccountIdByCid' = AccountIdByCid
           \/ \E c \in Cid, a \in Account :
                 /\ \A d \in DOMAIN AccountIdByCid : AccountIdByCid[d] # a
                 /\ AccountIdByCid' = Insert(AccountIdByCid, c, a)
  <1>0. /\ AccountIdByCid = [c \in DOMAIN AccountIdByCid |-> AccountIdByCid[c]]
        /\ \A d \in DOMAIN AccountIdByCid : AccountIdByCid[d] \in DOMAIN CidByAccountId
        /\ \A a \in DOMAIN CidByAccountId :
              /\ CidByAccountId[a] \in DOMAIN AccountIdByCid
              /\ AccountIdByCid[CidByAccountId[a]] = a
    BY DEF LoopInv, BindingTypeOK, IsMap, BindingsClosed, BindingComplete
  <1>1. ASSUME NEW c \in Cid, NEW a \in Account, AccountIdByCid' = Insert(AccountIdByCid, c, a),
               a \in DOMAIN CidByAccountId => CidByAccountId[a] = c
        PROVE  \/ AccountIdByCid' = AccountIdByCid
               \/ \E k \in Cid, w \in Account :
                     /\ \A d \in DOMAIN AccountIdByCid : AccountIdByCid[d] # w
                     /\ AccountIdByCid' = Insert(AccountIdByCid, k, w)
    <2>1. CASE a \in DOMAIN CidByAccountId
      <3>1. c \in DOMAIN AccountIdByCid /\ AccountIdByCid[c] = a
        BY <1>0, <1>1, <2>1
      <3>2. DOMAIN AccountIdByCid \cup {c} = DOMAIN AccountIdByCid
        BY <3>1
      <3>3. Insert(AccountIdByCid, c, a) = [x \in DOMAIN AccountIdByCid |-> AccountIdByCid[x]]
        BY <3>1, <3>2 DEF Insert
      <3> QED BY <1>0, <1>1, <3>3
    <2>2. CASE a \notin DOMAIN CidByAccountId
      BY <1>0, <1>1, <2>2
    <2> QED BY <2>1, <2>2
  <1> QED BY <1>1 DEF BindingCall, SelfOccupyCid, OccupyCid, SelfRebindCidAccountId,
                      RebindAccountId, BindAccountId, BindingAvailable

\* The empty pallet is the empty electorate.
LEMMA ElectorateStart == Init => Abstract!ElectorateInit
  <1> SUFFICES ASSUME Init PROVE Abstract!ElectorateInit
    OBVIOUS
  <1>1. /\ DOMAIN VotingIdentityByCid = {} /\ snapshots = {} /\ AccountIdByCid = EmptyMap
    BY DEF Init, PopulationInit, BindingInit, EmptyMap
  <1>2. /\ UNION {CitizenSubject(a) : a \in Account} = {}
        /\ [s \in Scope |-> VotersOf(s)] = [s \in Scope |-> {}]
        /\ {RollOf(data) : data \in snapshots} = {}
    BY <1>1 DEF CitizenSubject, VotersOf
  <1> QED BY <1>1, <1>2 DEF Abstract!ElectorateInit, Abstract!EmptyMap, EmptyMap

\* Every step of the pallet is a step of the electorate or changes nothing in it.
LEMMA ElectorateStep ==
    ASSUME PopulationInv, LoopInv, HistoryInv, [Next]_vars,
           PopulationInv', LoopInv', HistoryInv'
    PROVE  [Abstract!ElectorateNext]_(Abstract!electorateVars)
  <1> DEFINE voters == [s \in Scope |-> VotersOf(s)]
             rolls == {RollOf(data) : data \in snapshots}
  <1>0. /\ StandingFits /\ StandingFits'
        /\ \A data \in snapshots :
              /\ data.eligibility_revision \in Nat
              /\ data.eligibility_revision =< NextEligibilityRevision
    BY StandingIs, StandingNext DEF PopulationInv, TypeOK, HistoryInv
  <1>1. ASSUME UNCHANGED VotingEligibilityVersions, NEW data PROVE RollOf(data)' = RollOf(data)
    BY <1>1, RollsKept DEF IdentityAtRevision
  <1>2. ASSUME UNCHANGED AccountIdByCid, rolls' = rolls PROVE Abstract!ChangeVoters
    <2>1. Standing' \in SUBSET (DOMAIN AccountIdByCid)
      BY <1>0, <1>2 DEF StandingFits
    <2>2. voters' \in [Scope -> SUBSET (DOMAIN AccountIdByCid)]
      BY <1>0, <1>2 DEF StandingFits
    <2> QED BY <1>2, <2>1, <2>2 DEF Abstract!ChangeVoters, Standing
  <1>3. CASE /\ \E c \in Cid : \E next : Written(c, next)
             /\ UNCHANGED <<AccountIdByCid, snapshots>>
    <2>1. PICK c \in Cid : \E next : Written(c, next)
      BY <1>3
    <2>2. PICK next : Written(c, next)
      BY <2>1
    <2>3. ASSUME NEW data \in snapshots PROVE RollOf(data)' = RollOf(data)
      BY <1>0, <2>2, RollsWritten, RollsKept
    <2>4. rolls' = rolls
      BY <1>3, <2>3
    <2> HIDE DEF rolls, voters
    <2> QED BY <1>2, <1>3, <2>4 DEF Abstract!ElectorateNext
  <1>4. ASSUME NEW s \in Scope, TakeSnapshot(s)
        PROVE  [Abstract!ElectorateNext]_(Abstract!electorateVars)
    <2>0. PICK new : new = PopulationData(s)
      OBVIOUS
    <2>1. /\ snapshots' = snapshots \cup {new}
          /\ UNCHANGED <<AccountIdByCid, VotingIdentityByCid, VotingEligibilityVersions,
                         PopulationReadyDate>>
          /\ PopulationReady
      BY <1>4, <2>0 DEF TakeSnapshot, populationVars, bindingVars
    <2>2. /\ \A t \in Scope : VotersOf(t)' = VotersOf(t)
          /\ Standing' = Standing
      BY <1>0, <2>1 DEF VotersOf, EligibleOn, PassportValidOn, StandingFits
    <2>3. RollOf(new) = [scope |-> s, members |-> VotersOf(s), total |-> Cardinality(VotersOf(s))]
      BY <2>0, <2>1, RollTaken
    <2>4. \A data : RollOf(data)' = RollOf(data)
      BY <1>1, <2>1
    <2>5. rolls' = rolls \cup {RollOf(new)}
      BY <2>1, <2>4
    <2>6. RollOf(new) = Abstract!Roll(s)
      <3>1. [t \in Scope |-> VotersOf(t)][s] = VotersOf(s)
        OBVIOUS
      <3>2. Abstract!Cardinality(VotersOf(s)) = Cardinality(VotersOf(s))
        BY DEF Abstract!Cardinality, Cardinality
      <3> QED BY <2>3, <3>1, <3>2 DEF Abstract!Roll
    <2>7. voters' = voters
      BY <2>2
    <2>8. Abstract!TakeRoll(s)
      BY <2>1, <2>2, <2>5, <2>6, <2>7 DEF Abstract!TakeRoll, Standing
    <2> QED BY <2>8 DEF Abstract!ElectorateNext
  <1>5. CASE UNCHANGED histories /\ UNCHANGED <<AccountIdByCid, snapshots>>
    <2>1. rolls' = rolls
      BY <1>1, <1>5 DEF histories
    <2> HIDE DEF rolls, voters
    <2> QED BY <1>2, <1>5, <2>1 DEF Abstract!ElectorateNext
  <1>6. CASE BindingCall
    <2>1. UNCHANGED <<VotingIdentityByCid, VotingEligibilityVersions, PopulationReadyDate,
                      snapshots>>
      BY <1>6 DEF BindingCall, populationVars
    <2>2. /\ \A t \in Scope : VotersOf(t)' = VotersOf(t)
          /\ Standing' = Standing
      BY <1>0, <2>1 DEF VotersOf, EligibleOn, PassportValidOn, StandingFits
    <2>3. rolls' = rolls /\ voters' = voters
      BY <1>1, <2>1, <2>2
    <2>4. CASE AccountIdByCid' = AccountIdByCid
      BY <2>2, <2>3, <2>4 DEF Abstract!electorateVars, Standing
    <2>5. ASSUME NEW c \in Cid, NEW a \in Account,
                 \A d \in DOMAIN AccountIdByCid : AccountIdByCid[d] # a,
                 AccountIdByCid' = Insert(AccountIdByCid, c, a)
          PROVE  Abstract!ElectorateNext
      <3>1. Abstract!BindWallet(c, a)
        BY <2>2, <2>3, <2>5 DEF Abstract!BindWallet, Standing, Abstract!Insert, Insert
      <3> QED BY <3>1 DEF Abstract!ElectorateNext
    <2> QED BY <1>6, <2>4, <2>5, WalletBound
  <1> QED BY <1>3, <1>4, <1>5, <1>6, StepKinds

\* Wallets, rights to vote and rolls behave as the votes rely on: a wallet serves one
\* number, and a roll keeps its members, whose number is its total, through every later
\* write and day (governance_population_data, identity_at_revision).
THEOREM PalletImplementsElectorate == Spec => ImplementsElectorate
  <1> DEFINE Inv == PopulationInv /\ LoopInv /\ HistoryInv
  <1>1. Init => Inv
    BY PopulationStart, LoopInit, HistoryStart DEF Init
  <1>2. Inv /\ [Next]_vars => Inv'
    BY PopulationStep, LoopStep, HistoryStep
  <1>3. Inv /\ Inv' /\ [Next]_vars => [Abstract!ElectorateNext]_(Abstract!electorateVars)
    BY ElectorateStep
  <1> HIDE DEF Inv
  <1> QED BY <1>1, <1>2, <1>3, ElectorateStart, PTL
          DEF Spec, ImplementsElectorate, Abstract!ElectorateSpec
===============================================================================
