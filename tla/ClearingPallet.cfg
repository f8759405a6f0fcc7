\* Two banks of one province with funds of their own and two customers; a change of rates with two blocks' notice.
SPECIFICATION Spec
SYMMETRY Symmetry
CONSTANTS
    Bank = {b1, b2}
    RateMin = 1
    RateMax = 10
    RateChoice = {2}
    RateDelay = 2
    RateBudget = 1
    MaxBlock = 3
    User = {u1, u2}
    Peer = {p1, p2}
    Endpoint = {e1}
    Province <- OneProvince
    TxId = {t1, t2}
    Amount = {20000}
    InitRate = 1
    InitWallet = 40111
    InitReserve = 20114
    InitFees = 120
    ED = 111
    MaxBatch = 2
INVARIANTS
    TypeOK
    Solvent
    BooksBalance
    DepositAtOwnBank
PROPERTIES
    NoticeGiven
