\* One payment id signed again and again, expiry, and a failing submission, a lost event or a
\* restart.
SPECIFICATION NodeSpec
SYMMETRY Symmetry
CONSTANTS
    Bank = {b1, b2}
    MyBank = b1
    Leaving = {b2}
    RateMin = 1
    RateMax = 10
    RateChoice = {}
    RateDelay = 1
    RateBudget = 1
    MaxBlock = 2
    User = {u1, u2}
    Peer = {b1, b2}
    Endpoint = {b1, b2}
    Province <- OwnProvince
    TxId = {t1}
    Amount = {20000}
    InitRate = 1
    InitWallet = 111
    InitDeposit = 20002
    InitReserve = 60111
    InitFees = 151
    ED = 111
    MaxBatch = 2
    Validity = 0
    PackBlocks = 1
    PackTx = 2
    MaxSeq = 2
    MaxInbox = 1
    MaxFaults = 1
INVARIANTS
    LedgerFollowsChain
    AcknowledgedIsKept
    NumbersContinue
