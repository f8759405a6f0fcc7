---------------------------- MODULE CitizenBinding ----------------------------
(***************************************************************************)
(* The register of citizen identity numbers (CIDs) and the wallets bound to *)
(* them (misc/citizen-identity/src/lib.rs): a number is occupied once and   *)
(* kept as a tombstone after its revocation; number and wallet point at     *)
(* each other; every rebinding is authorised for one binding revision.      *)
(***************************************************************************)
EXTENDS StorageMap, Integers, FiniteSets, Sequences

CONSTANTS
    Cid,          \* citizen identity numbers
    Account,      \* wallets
    Registrar,    \* CIDs of the registry institutions that occupy numbers
    Self,         \* SELF_OCCUPY_REGISTRAR
    MaxRebinds    \* bound on the number of rebindings

ASSUME BindingAssumption == Self \notin Registrar /\ MaxRebinds \in Nat

VARIABLES
    CidRegistry,           \* CID -> record; never removed
    AccountIdByCid,        \* CID -> wallet
    CidByAccountId,        \* wallet -> CID
    BindingRevisionByCid,  \* CID -> number of the current binding
    CidCount,              \* active numbers
    rebinds                \* history: the authorisations rebindings consumed

bindingVars == <<CidRegistry, AccountIdByCid, CidByAccountId,
                 BindingRevisionByCid, CidCount, rebinds>>

\* The commitment is the hash of the first wallet, here the wallet itself.
CidRecord == [registrar : Registrar \cup {Self}, commitment : Account,
              status : {"active", "revoked"}]

\* CidRebindAuthorization and the signature's domain.
Authorisation == [kind : {"self", "admin"}, cid : Cid, current : Account,
                  new : Account, revision : Nat]

BindingTypeOK ==
    /\ IsMap(CidRegistry, Cid, CidRecord)
    /\ IsMap(AccountIdByCid, Cid, Account)
    /\ IsMap(CidByAccountId, Account, Cid)
    /\ IsMap(BindingRevisionByCid, Cid, Nat \ {0})
    /\ CidCount \in Nat
    /\ rebinds \in Seq(Authorisation)

\* The genesis build with an empty list of initial bindings.
BindingInit ==
    /\ CidRegistry = EmptyMap
    /\ AccountIdByCid = EmptyMap
    /\ CidByAccountId = EmptyMap
    /\ BindingRevisionByCid = EmptyMap
    /\ CidCount = 0
    /\ rebinds = << >>

\* ensure_cid_occupied_active
OccupiedActive(c) == c \in DOMAIN CidRegistry /\ CidRegistry[c].status = "active"

\* Mutant: a wallet may already belong to another number.
BindingAvailableHalf(c, a) == c \in DOMAIN AccountIdByCid => AccountIdByCid[c] = a

\* ensure_account_id_binding_available
BindingAvailable(c, a) ==
    /\ c \in DOMAIN AccountIdByCid => AccountIdByCid[c] = a
    /\ a \in DOMAIN CidByAccountId => CidByAccountId[a] = c

\* cid_account_id_binding_complete
BindingComplete(c) ==
    /\ c \in DOMAIN AccountIdByCid
    /\ AccountIdByCid[c] \in DOMAIN CidByAccountId
    /\ CidByAccountId[AccountIdByCid[c]] = c

\* do_occupy_cid: a new number is registered, the same claim again is let through.
DoOccupyCid(r, c, a) ==
    \/ /\ c \notin DOMAIN CidRegistry
       /\ CidRegistry' = Insert(CidRegistry, c,
                            [registrar |-> r, commitment |-> a, status |-> "active"])
       /\ CidCount' = CidCount + 1
    \/ /\ OccupiedActive(c)
       /\ CidRegistry[c].registrar = r /\ CidRegistry[c].commitment = a
       /\ UNCHANGED <<CidRegistry, CidCount>>

\* bind_account_id: the first binding has revision 1.
BindAccountId(c, a) ==
    /\ AccountIdByCid' = Insert(AccountIdByCid, c, a)
    /\ CidByAccountId' = Insert(CidByAccountId, a, c)
    /\ BindingRevisionByCid' = IF c \in DOMAIN BindingRevisionByCid
                               THEN BindingRevisionByCid
                               ELSE Insert(BindingRevisionByCid, c, 1)
    /\ UNCHANGED rebinds

SelfOccupyCid(a, c) ==
    /\ BindingAvailable(c, a)
    /\ DoOccupyCid(Self, c, a)
    /\ BindAccountId(c, a)

OccupyCid(r, a, c) ==
    /\ c \notin DOMAIN CidRegistry
    /\ c \notin DOMAIN AccountIdByCid
    /\ c \notin DOMAIN BindingRevisionByCid
    /\ BindingAvailable(c, a)
    /\ DoOccupyCid(r, c, a)
    /\ BindAccountId(c, a)

\* What the current or the new wallet signs for a rebinding.
RebindAuthorisation(kind, c, new) ==
    [kind |-> kind, cid |-> c, current |-> AccountIdByCid[c], new |-> new,
     revision |-> BindingRevisionByCid[c]]

\* Mutant: the revision stays.
RevisionKept(c) == BindingRevisionByCid[c]

\* rebind_account_id's revision.
RevisionAfterRebind(c) == BindingRevisionByCid[c] + 1

\* rebind_account_id with the guards both rebinding calls share.
RebindAccountId(kind, c, new) ==
    /\ c \in DOMAIN AccountIdByCid
    /\ OccupiedActive(c)
    /\ AccountIdByCid[c] # new
    /\ c \in DOMAIN BindingRevisionByCid
    /\ new \in DOMAIN CidByAccountId => CidByAccountId[new] = c
    /\ Len(rebinds) < MaxRebinds
    /\ rebinds' = Append(rebinds, RebindAuthorisation(kind, c, new))
    /\ CidByAccountId' = Insert(Remove(CidByAccountId, AccountIdByCid[c]), new, c)
    /\ AccountIdByCid' = Insert(AccountIdByCid, c, new)
    /\ BindingRevisionByCid' = Insert(BindingRevisionByCid, c, RevisionAfterRebind(c))
    /\ UNCHANGED <<CidRegistry, CidCount>>

\* tombstone_cid_record with the revision next_binding_revision checked before.
TombstoneCidRecord(c) ==
    /\ c \in DOMAIN BindingRevisionByCid
    /\ CidRegistry' = [CidRegistry EXCEPT ![c].status = "revoked"]
    /\ CidCount' = IF CidCount > 0 THEN CidCount - 1 ELSE 0
    /\ BindingRevisionByCid' = [BindingRevisionByCid EXCEPT ![c] = @ + 1]
    /\ UNCHANGED <<AccountIdByCid, CidByAccountId, rebinds>>

-------------------------------------------------------------------------------
\* Numbers and wallets form a one-to-one relation kept from both sides, the
\* closed loop lib.rs demands of AccountIdByCid and CidByAccountId, and the
\* count of active numbers is the number of active records, tombstones left out.
BindingsClosed ==
    /\ \A c \in DOMAIN AccountIdByCid : BindingComplete(c)
    /\ \A a \in DOMAIN CidByAccountId :
          /\ CidByAccountId[a] \in DOMAIN AccountIdByCid
          /\ AccountIdByCid[CidByAccountId[a]] = a
    /\ DOMAIN CidRegistry = DOMAIN AccountIdByCid
    /\ DOMAIN BindingRevisionByCid = DOMAIN AccountIdByCid
    /\ CidCount = Cardinality({c \in DOMAIN CidRegistry : OccupiedActive(c)})

\* No signed authorisation moves a number twice, even when the number has
\* returned to the wallet that signed it (the binding revision of
\* CidRebindAuthorization).
AuthorisedOnce ==
    \A i, j \in 1..Len(rebinds) : rebinds[i] = rebinds[j] => i = j
===============================================================================
