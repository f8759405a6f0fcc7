---------------------------- MODULE CitizenIdentity ----------------------------
(***************************************************************************)
(* The citizen identity pallet as a whole (misc/citizen-identity/src/lib.rs)*)
(* with the certification rewards its registrations trigger: registrars and *)
(* citizens call it during a block, on_idle brings the counts to the        *)
(* current date, on_finalize pays the rewards; the voting engine takes      *)
(* population data from it whenever a proposal is made.                     *)
(***************************************************************************)
EXTENDS CitizenPopulation, CitizenIssuance

CONSTANTS
    Natp,           \* the numbers of residents, which never get a voting identity
    Birth,          \* birth profiles of candidates
    MaxSnapshots    \* bound on the population data taken

ASSUME IdentityAssumption == Natp \subseteq Cid /\ MaxSnapshots \in Nat

VARIABLES
    CandidateIdentityByCid,   \* number -> birth profile
    snapshots                 \* the population data bound to proposals so far

vars == <<bindingVars, populationVars, today, idle, issuanceVars,
          CandidateIdentityByCid, snapshots>>

TypeOK ==
    /\ BindingTypeOK
    /\ PopulationTypeOK
    /\ IsMap(CandidateIdentityByCid, Cid, Birth)
    /\ snapshots \subseteq [scope : Scope, eligible_total : Nat,
                            eligibility_revision : Nat, eligibility_date : Day]

Init ==
    /\ BindingInit
    /\ PopulationInit
    /\ IssuanceInit
    /\ CandidateIdentityByCid = EmptyMap
    /\ snapshots = {}

-------------------------------------------------------------------------------
\* A registrar submits what the number's current wallet signed
\* (ensure_cid_occupied_active, ensure_current_account_id_binding).
MayWrite(c) == c \notin Natp /\ OccupiedActive(c) /\ BindingComplete(c)

RegisterVotingIdentity(c, p) ==
    /\ MayWrite(c)
    /\ c \notin DOMAIN VotingIdentityByCid
    /\ ReplaceVotingIdentity(c, p)
    /\ OnVotingIdentityRegistered(AccountIdByCid[c], c)
    /\ UNCHANGED <<bindingVars, today, idle, CandidateIdentityByCid, snapshots>>

\* ensure_candidate_locked_immutable
BirthFits(c, b) ==
    c \in DOMAIN CandidateIdentityByCid => CandidateIdentityByCid[c] = b

\* upgrade_to_candidate_identity may be a citizen's first identity.
UpgradeToCandidateIdentity(c, p, b) ==
    /\ MayWrite(c)
    /\ BirthFits(c, b)
    /\ ReplaceVotingIdentity(c, p)
    /\ IF c \in DOMAIN VotingIdentityByCid THEN UNCHANGED issuanceVars
       ELSE OnVotingIdentityRegistered(AccountIdByCid[c], c)
    /\ CandidateIdentityByCid' = Insert(CandidateIdentityByCid, c, b)
    /\ UNCHANGED <<bindingVars, today, idle, snapshots>>

UpdateVotingIdentity(c, p) ==
    /\ MayWrite(c)
    /\ c \in DOMAIN VotingIdentityByCid
    /\ ReplaceVotingIdentity(c, p)
    /\ UNCHANGED <<bindingVars, today, idle, issuanceVars, CandidateIdentityByCid, snapshots>>

UpdateCandidateIdentity(c, p, b) ==
    /\ MayWrite(c)
    /\ BirthFits(c, b)
    /\ c \in DOMAIN VotingIdentityByCid
    /\ ReplaceVotingIdentity(c, p)
    /\ CandidateIdentityByCid' = Insert(CandidateIdentityByCid, c, b)
    /\ UNCHANGED <<bindingVars, today, idle, issuanceVars, snapshots>>

RevokedIdentity(c) == [VotingIdentityByCid[c] EXCEPT !.citizen_status = "revoked"]

RevokeIdentity(c) ==
    /\ OccupiedActive(c)
    /\ c \in DOMAIN AccountIdByCid
    /\ c \in DOMAIN VotingIdentityByCid
    /\ ReplaceVotingIdentity(c, RevokedIdentity(c))
    /\ CandidateIdentityByCid' = Remove(CandidateIdentityByCid, c)
    /\ TombstoneCidRecord(c)
    /\ UNCHANGED <<today, idle, issuanceVars, snapshots>>

\* Mutant: revoking a number leaves its identity alone.
NeedsRevocationNever(c) == FALSE

\* revoke_bound_identity applies to identities that are not revoked yet.
NeedsRevocation(c) ==
    /\ c \in DOMAIN AccountIdByCid
    /\ c \in DOMAIN VotingIdentityByCid
    /\ VotingIdentityByCid[c].citizen_status # "revoked"

RevokeCid(c) ==
    /\ OccupiedActive(c)
    /\ IF NeedsRevocation(c)
       THEN /\ ReplaceVotingIdentity(c, RevokedIdentity(c))
            /\ CandidateIdentityByCid' = Remove(CandidateIdentityByCid, c)
       ELSE UNCHANGED <<populationVars, CandidateIdentityByCid>>
    /\ TombstoneCidRecord(c)
    /\ UNCHANGED <<today, idle, issuanceVars, snapshots>>

\* self_rebind_cid_account_id is for numbers without a voting identity.
SelfRebindCidAccountId(c, a) ==
    /\ c \notin DOMAIN VotingIdentityByCid
    /\ RebindAccountId("self", c, a)

BindingCall ==
    /\ \/ \E a \in Account, c \in Cid : SelfOccupyCid(a, c)
       \/ \E r \in Registrar, a \in Account, c \in Cid : OccupyCid(r, a, c)
       \/ \E c \in Cid, a \in Account : SelfRebindCidAccountId(c, a)
       \/ \E c \in Cid, a \in Account : RebindAccountId("admin", c, a)
    /\ UNCHANGED <<populationVars, today, idle, issuanceVars, CandidateIdentityByCid, snapshots>>

IdentityCall ==
    \/ \E c \in Cid, p \in Payload : RegisterVotingIdentity(c, p) \/ UpdateVotingIdentity(c, p)
    \/ \E c \in Cid, p \in Payload, b \in Birth :
          UpgradeToCandidateIdentity(c, p, b) \/ UpdateCandidateIdentity(c, p, b)
    \/ \E c \in Cid : RevokeIdentity(c) \/ RevokeCid(c)

\* create_population_snapshot reads the data of a scope while the counts are ready.
TakeSnapshot(s) ==
    /\ PopulationReady
    /\ Cardinality(snapshots) < MaxSnapshots
    /\ snapshots' = snapshots \cup {PopulationData(s)}
    /\ UNCHANGED <<bindingVars, populationVars, today, idle, issuanceVars,
                   CandidateIdentityByCid>>

IdleStep ==
    /\ StartIdle \/ InitializePopulationDate \/ ProcessTransition \/ AdvanceReadyDate
    /\ UNCHANGED <<issuanceVars, CandidateIdentityByCid, snapshots>>

EndBlock ==
    /\ NextDay
    /\ OnFinalizeRewards
    /\ UNCHANGED <<CandidateIdentityByCid, snapshots>>

Next ==
    \/ ~idle.running /\ (BindingCall \/ IdentityCall \/ \E s \in Scope : TakeSnapshot(s))
    \/ IdleStep
    \/ EndBlock

Spec == Init /\ [][Next]_vars

\* Blocks follow each other; on_idle gets the weight for its next round again
\* and again as long as there is one.
FairSpec ==
    /\ Spec
    /\ WF_vars(StartIdle /\ UNCHANGED <<issuanceVars, CandidateIdentityByCid, snapshots>>)
    /\ WF_vars(EndBlock)
    /\ SF_vars(InitializePopulationDate
               /\ UNCHANGED <<issuanceVars, CandidateIdentityByCid, snapshots>>)
    /\ SF_vars(ProcessTransition /\ UNCHANGED <<issuanceVars, CandidateIdentityByCid, snapshots>>)
    /\ SF_vars(AdvanceReadyDate /\ UNCHANGED <<issuanceVars, CandidateIdentityByCid, snapshots>>)

-------------------------------------------------------------------------------
\* Whether the identity of c is in the counts: it is eligible on the ready date,
\* or on the day after it once its transition of that day has been processed.
Counted(c) ==
    LET next == PopulationReadyDate + 1
        waits == /\ next \in Day
                 /\ \E i \in 1..Len(PopulationTransitions[next]) :
                       LET t == PopulationTransitions[next][i]
                       IN  t.cid = c /\ t.eligibility_revision =
                             SX!Last(VotingEligibilityVersions[c]).valid_from_revision
    IN  /\ c \in DOMAIN VotingIdentityByCid
        /\ EligibleOn(VotingIdentityByCid[c],
                      IF next \notin Day \/ waits THEN PopulationReadyDate ELSE next)

\* All four levels of the voter count equal, after every call and every round of
\* on_idle, the number of identities that count on the ready date; a transition
\* lost, applied twice or left over from a replaced identity breaks it.
CountsExact ==
    \A s \in Scope :
        VotingCount[s] = Cardinality({c \in Cid :
            Counted(c) /\ SX!IsPrefix(s, VotingIdentityByCid[c].residence)})

\* The maintenance never meets a fault, which would freeze identities and
\* population data for ever (PopulationMaintenanceFault).
NeverFaults == PopulationMaintenanceFault = "none"

\* The pallet seen as an electorate: a roll is population data with the numbers
\* that may vote on it.
VotersOf(s) ==
    {c \in DOMAIN VotingIdentityByCid :
        /\ EligibleOn(VotingIdentityByCid[c], PopulationReadyDate)
        /\ SX!IsPrefix(s, VotingIdentityByCid[c].residence)}

RollOf(data) == [scope |-> data.scope, members |-> {c \in Cid : EligibleAt(c, data)},
                 total |-> data.eligible_total]

Abstract == INSTANCE Electorate WITH
    wallet <- AccountIdByCid,
    standing <- UNION {CitizenSubject(a) : a \in Account},
    voters <- [s \in Scope |-> VotersOf(s)],
    rolls <- {RollOf(data) : data \in snapshots}

\* Every call, round of on_idle and day is a step of the abstract electorate: no
\* wallet serves two numbers, rolls never change and their totals are right.
ImplementsElectorate == Abstract!ElectorateSpec

\* The counts reach the current date again and again; otherwise registrations
\* and new votes would be refused from some day on.
ReadyAgain == []<>(PopulationReadyDate = today)
===============================================================================
