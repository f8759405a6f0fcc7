\* Two admins exchange wallets and their institution seats them again.
SPECIFICATION Spec
CHECK_DEADLOCK FALSE
CONSTANTS
    n = n
    p = p
    c1 = c1
    c2 = c2
    c3 = c3
    a1 = a1
    a2 = a2
    a3 = a3
    Cid = {c1, c2, c3}
    Account = {a1, a2, a3, a4}
    Scope = {"country"}
    Institution <- TwoInstitutions
    VoterSubject <- Roles
    Threshold <- Thresholds
    Weight <- Weights
    PassThreshold = 20
    Duration = 0
    InitRoster <- Seats
    InitWallet <- Wallets
    NoCid = NoCid
    NoAccount = NoAccount
    MaxEvents = 3
INVARIANTS
    OneTicketPerAdmin
