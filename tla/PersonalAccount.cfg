\* One account, its creator and two further admins, three proposals.
SPECIFICATION Spec
CONSTANTS
    MaxProposals = 3
    Subject = {s1}
    VotingDuration = 1
    MaxActiveProposals = 2
    Admin = {a1, a2, a3}
    Creator = a1
    MaxBlock = 2
SYMMETRY Symmetry
INVARIANTS
    TypeOK
    VotesDecide
    AccountStatesAgree
    PendingRecordsLive
    AdminChangeExclusive
PROPERTIES
    DecidedByCurrentAdmins
