--------------------------- MODULE CitizenPopulation ---------------------------
(***************************************************************************)
(* Voting identities, their history and the counts of voters by country,    *)
(* province, city and town (misc/citizen-identity/src/lib.rs).  The counts  *)
(* are kept by every identity write and, where a passport starts or ends to *)
(* be valid, by transitions that on_idle works off day by day.  Days are    *)
(* numbered from the first one on.                                          *)
(***************************************************************************)
EXTENDS CitizenBinding

SX == INSTANCE SequencesExt

CONSTANTS
    Residence,       \* <<province, city, town>> triples
    Window,          \* <<valid from, valid until>> pairs of passports
    StatusChoice,    \* the statuses payloads are tried with
    LastDay,         \* 99991231, the last day that can be written
    MaxDays,         \* MaxPopulationDaysPerBlock
    MaxTransitions,  \* MaxPopulationTransitionsPerBlock
    MaxRevision      \* bound on the number of identity writes

Day == 1..LastDay

ASSUME PopulationAssumption ==
    /\ LastDay \in Nat \ {0}
    /\ \A r \in Residence : Len(r) = 3
    /\ StatusChoice \subseteq {"normal", "revoked"}
    /\ Window \subseteq {w \in Day \X Day : w[1] =< w[2]}
    /\ MaxDays \in Nat \ {0} /\ MaxTransitions \in Nat \ {0} /\ MaxRevision \in Nat

VARIABLES
    today,                         \* current_date_int
    VotingIdentityByCid,
    NextEligibilityRevision,
    VotingEligibilityVersions,     \* CID -> sequence of versions; its length is the count
    VotingCount,                   \* the four counts, by scope
    PopulationReadyDate,           \* 0 before the first block
    PopulationTransitions,         \* day -> transitions from its cursor on
    PopulationMaintenanceFault,
    idle                           \* on_idle's loop: running, days and transitions done

populationVars == <<VotingIdentityByCid, NextEligibilityRevision, VotingEligibilityVersions,
                    VotingCount, PopulationReadyDate, PopulationTransitions,
                    PopulationMaintenanceFault>>

VotingIdentity == [from : Day, until : Day, citizen_status : {"normal", "revoked"},
                   residence : Residence]

\* The payloads a registrar may submit.
Payload == {[from |-> w[1], until |-> w[2], citizen_status |-> s, residence |-> r] :
              w \in Window, s \in StatusChoice, r \in Residence}

\* A scope is a prefix of a residence: country, province, city or town.
Scope == {SubSeq(r, 1, k) : r \in Residence, k \in 0..3}

Version == [identity : VotingIdentity, valid_from_revision : Nat,
            valid_until_revision : Nat]       \* 0 stands for None

Transition == [cid : Cid, eligibility_revision : Nat, kind : {"activate", "deactivate"}]

PopulationTypeOK ==
    /\ today \in Day
    /\ IsMap(VotingIdentityByCid, Cid, VotingIdentity)
    /\ NextEligibilityRevision \in Nat
    /\ VotingEligibilityVersions \in [Cid -> Seq(Version)]
    /\ VotingCount \in [Scope -> Nat]
    /\ PopulationReadyDate \in 0..LastDay
    /\ PopulationTransitions \in [Day -> Seq(Transition)]
    /\ PopulationMaintenanceFault \in {"none", "MissingTransition", "CounterUnderflow"}
    /\ idle \in [running : BOOLEAN, days : Nat, transitions : Nat]

Resting == [running |-> FALSE, days |-> 0, transitions |-> 0]

PopulationInit ==
    /\ today = 1
    /\ VotingIdentityByCid = EmptyMap
    /\ NextEligibilityRevision = 0
    /\ VotingEligibilityVersions = [c \in Cid |-> << >>]
    /\ VotingCount = [s \in Scope |-> 0]
    /\ PopulationReadyDate = 0
    /\ PopulationTransitions = [d \in Day |-> << >>]
    /\ PopulationMaintenanceFault = "none"
    /\ idle = Resting

-------------------------------------------------------------------------------
\* next_calendar_date; 0 stands for None.
NextDate(d) == IF d < LastDay THEN d + 1 ELSE 0

\* passport_window_valid_on and identity_eligible_on
PassportValidOn(identity, date) == identity.from =< date /\ date =< identity.until
EligibleOn(identity, date) == identity.citizen_status = "normal" /\ PassportValidOn(identity, date)

\* ensure_population_ready; the timestamp is set in every block.
PopulationReady == PopulationMaintenanceFault = "none" /\ PopulationReadyDate = today

\* Mutant: leaving takes two off the counts.
AdjustedTwice(counts, identity, by) ==
    [s \in Scope |-> IF SX!IsPrefix(s, identity.residence)
                     THEN counts[s] + by + IF by < 0 THEN by ELSE 0 ELSE counts[s]]

\* write_adjusted_scope_counts: one identity enters (1) or leaves (-1) its scopes.
Adjusted(counts, identity, by) ==
    [s \in Scope |-> IF SX!IsPrefix(s, identity.residence) THEN counts[s] + by ELSE counts[s]]

CanDecrement(counts, identity) ==
    \A s \in Scope : SX!IsPrefix(s, identity.residence) => counts[s] > 0

\* The counts after the current identity of c, if it counts, has left them.
CountsWithout(c) ==
    IF c \in DOMAIN VotingIdentityByCid
       /\ EligibleOn(VotingIdentityByCid[c], PopulationReadyDate)
    THEN Adjusted(VotingCount, VotingIdentityByCid[c], -1)
    ELSE VotingCount

\* The history of c with its last version closed at the revision.
ClosedHistory(c, revision) ==
    LET h == VotingEligibilityVersions[c]
    IN  IF c \in DOMAIN VotingIdentityByCid /\ h # << >>
        THEN [h EXCEPT ![Len(h)].valid_until_revision = revision]
        ELSE h

\* Mutant: only the end of a passport is scheduled.
ScheduledEnds(identity, kind) ==
    {d \in {NextDate(identity.until)} :
        kind = "deactivate" /\ identity.citizen_status = "normal" /\ d > PopulationReadyDate}

\* schedule_identity_transitions: the days an identity starts and ends to count.
ScheduledDays(identity, kind) ==
    LET day == IF kind = "activate" THEN identity.from ELSE NextDate(identity.until)
    IN  {d \in {day} : identity.citizen_status = "normal" /\ d > PopulationReadyDate}

\* append_population_transition, for the day d.
FiledOn(d, c, identity, revision, kind) ==
    IF d \in ScheduledDays(identity, kind)
    THEN <<[cid |-> c, eligibility_revision |-> revision, kind |-> kind]>> ELSE << >>

ScheduleIdentityTransitions(c, identity, revision) ==
    PopulationTransitions' =
        [d \in Day |-> PopulationTransitions[d]
                          \o FiledOn(d, c, identity, revision, "activate")
                          \o FiledOn(d, c, identity, revision, "deactivate")]

\* replace_voting_identity: counts, history, identity and transitions together.
ReplaceVotingIdentity(c, next) ==
    LET revision == NextEligibilityRevision + 1
    IN  /\ PopulationReady
        /\ revision =< MaxRevision
        /\ c \in DOMAIN VotingIdentityByCid
           /\ EligibleOn(VotingIdentityByCid[c], PopulationReadyDate)
              => CanDecrement(VotingCount, VotingIdentityByCid[c])
        /\ VotingCount' = IF EligibleOn(next, PopulationReadyDate)
                          THEN Adjusted(CountsWithout(c), next, 1)
                          ELSE CountsWithout(c)
        /\ VotingEligibilityVersions' =
              [VotingEligibilityVersions EXCEPT ![c] =
                 Append(ClosedHistory(c, revision),
                        [identity |-> next, valid_from_revision |-> revision,
                         valid_until_revision |-> 0])]
        /\ NextEligibilityRevision' = revision
        /\ VotingIdentityByCid' = Insert(VotingIdentityByCid, c, next)
        /\ ScheduleIdentityTransitions(c, next, revision)
        /\ UNCHANGED <<PopulationReadyDate, PopulationMaintenanceFault>>

-------------------------------------------------------------------------------
\* process_population_transition: a transition of an earlier version is void.
Live(t) ==
    LET h == VotingEligibilityVersions[t.cid]
    IN  h # << >> /\ SX!Last(h).valid_from_revision = t.eligibility_revision

Applies(t, date) ==
    LET identity == VotingIdentityByCid[t.cid]
    IN  /\ identity.citizen_status = "normal"
        /\ IF t.kind = "activate"
           THEN identity.from = date /\ PassportValidOn(identity, date)
           ELSE NextDate(identity.until) = date

\* Mutant: a transition of an earlier version is taken for a fault.
TransitionFaultIfVoid(t, date) == IF Live(t) THEN "none" ELSE "MissingTransition"

TransitionFault(t, date) ==
    IF ~Live(t) THEN "none"
    ELSE IF \/ t.cid \notin DOMAIN VotingIdentityByCid
            \/ ~OccupiedActive(t.cid)
            \/ ~BindingComplete(t.cid)
         THEN "MissingTransition"
    ELSE IF t.kind = "deactivate" /\ Applies(t, date)
            /\ ~CanDecrement(VotingCount, VotingIdentityByCid[t.cid])
         THEN "CounterUnderflow" ELSE "none"

CountsAfterTransition(t, date) ==
    IF TransitionFault(t, date) = "none" /\ Live(t) /\ Applies(t, date)
    THEN Adjusted(VotingCount, VotingIdentityByCid[t.cid],
                  IF t.kind = "activate" THEN 1 ELSE -1)
    ELSE VotingCount

\* The calls of a block are over and on_idle has weight to start with.
StartIdle ==
    /\ ~idle.running
    /\ idle' = [Resting EXCEPT !.running = TRUE]
    /\ UNCHANGED <<bindingVars, populationVars, today>>

IdleMayGoOn ==
    /\ idle.running
    /\ PopulationMaintenanceFault = "none"
    /\ idle.days < MaxDays

\* The first run takes the current date without counting anything.
InitializePopulationDate ==
    /\ IdleMayGoOn
    /\ PopulationReadyDate = 0
    /\ PopulationReadyDate' = today
    /\ idle' = [idle EXCEPT !.days = MaxDays]
    /\ UNCHANGED <<bindingVars, today, VotingIdentityByCid, NextEligibilityRevision,
                   VotingEligibilityVersions, VotingCount, PopulationTransitions,
                   PopulationMaintenanceFault>>

\* One transition of the day after the ready date.
ProcessTransition ==
    LET date == PopulationReadyDate + 1
        t == Head(PopulationTransitions[date])
        fault == TransitionFault(t, date)
    IN  /\ IdleMayGoOn
        /\ PopulationReadyDate \in 1..(today - 1)
        /\ idle.transitions < MaxTransitions
        /\ PopulationTransitions[date] # << >>
        /\ VotingCount' = CountsAfterTransition(t, date)
        /\ PopulationMaintenanceFault' = fault
        /\ PopulationTransitions' = IF fault = "none"
                                    THEN [PopulationTransitions EXCEPT ![date] = Tail(@)]
                                    ELSE PopulationTransitions
        /\ idle' = [idle EXCEPT !.transitions = @ + 1]
        /\ UNCHANGED <<bindingVars, today, VotingIdentityByCid, NextEligibilityRevision,
                       VotingEligibilityVersions, PopulationReadyDate>>

\* Whether the day after the ready date is worked off.
DayDone == PopulationTransitions[PopulationReadyDate + 1] = << >>

AdvanceReadyDate ==
    /\ IdleMayGoOn
    /\ PopulationReadyDate \in 1..(today - 1)
    /\ DayDone
    /\ PopulationReadyDate' = PopulationReadyDate + 1
    /\ idle' = [idle EXCEPT !.days = @ + 1]
    /\ UNCHANGED <<bindingVars, today, VotingIdentityByCid, NextEligibilityRevision,
                   VotingEligibilityVersions, VotingCount, PopulationTransitions,
                   PopulationMaintenanceFault>>

\* The loop may end after any round for want of weight; the next block carries
\* the same or a later date.
NextDay ==
    /\ idle.running
    /\ idle' = Resting
    /\ today' \in today..LastDay
    /\ UNCHANGED <<bindingVars, populationVars>>

-------------------------------------------------------------------------------
\* governance_population_data
PopulationData(scope) ==
    [scope |-> scope, eligible_total |-> VotingCount[scope],
     eligibility_revision |-> NextEligibilityRevision, eligibility_date |-> today]

\* Mutant: the search also takes the version after the revision.
VersionsPast(h, revision) ==
    Cardinality({i \in 1..Len(h) : h[i].valid_from_revision =< revision + 1})

\* identity_at_revision's search: how many versions start at or before the revision.
VersionsUpTo(h, revision) ==
    LET search[range \in (0..Len(h)) \X (0..Len(h))] ==
            LET low == range[1]
                high == range[2]
                mid == low + ((high - low) \div 2)
            IN  IF low < high
                THEN IF h[mid + 1].valid_from_revision =< revision
                     THEN search[<<mid + 1, high>>] ELSE search[<<low, mid>>]
                ELSE low
    IN  search[<<0, Len(h)>>]

\* identity_at_revision, as the set of at most one identity.
IdentityAtRevision(c, revision) ==
    LET h == VotingEligibilityVersions[c]
        low == VersionsUpTo(h, revision)
    IN  {h[i].identity : i \in {i \in {low} : i > 0 /\ (h[i].valid_until_revision = 0
                                                \/ revision < h[i].valid_until_revision)}}

\* Whether the number had the right to vote at the time of the population data.
EligibleAt(c, data) ==
    \E identity \in IdentityAtRevision(c, data.eligibility_revision) :
        EligibleOn(identity, data.eligibility_date) /\ SX!IsPrefix(data.scope, identity.residence)

\* citizen_subject: the number the wallet acts for.
CitizenSubject(a) ==
    {c \in DOMAIN VotingIdentityByCid :
        /\ c \in DOMAIN AccountIdByCid /\ AccountIdByCid[c] = a
        /\ a \in DOMAIN CidByAccountId /\ CidByAccountId[a] = c
        /\ VotingIdentityByCid[c].citizen_status = "normal"
        /\ OccupiedActive(c)}
===============================================================================
