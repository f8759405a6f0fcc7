\* Two citizens with a wallet each, passports over three days in two towns, a roll taken.
SPECIFICATION FairSpec
CONSTANTS
    Cid = {c1, c2}
    Account = {a1, a2}
    Registrar = {}
    Self = self
    MaxRebinds = 0
    Residence <- TwoTowns
    Window <- TwoWindows
    StatusChoice = {"normal"}
    LastDay = 3
    MaxDays = 1
    MaxTransitions = 1
    MaxRevision = 2
    MaxCount = 0
    HighCount = 1
    HighReward = 2
    NormalReward = 1
    Natp = {}
    Birth = {}
    MaxSnapshots = 1
INVARIANTS
    TypeOK
    CountsExact
    NeverFaults
PROPERTIES
    ImplementsElectorate
    ReadyAgain
