\* Two numbers, three wallets, rebindings and rewards; passports valid on the only day.
SPECIFICATION Spec
SYMMETRY Symmetry
CONSTANTS
    Cid = {c1, c2}
    Account = {a1, a2, a3}
    Registrar = {r1}
    Self = self
    MaxRebinds = 3
    Residence <- OneTown
    Window <- OneDay
    StatusChoice = {"normal"}
    LastDay = 1
    MaxDays = 1
    MaxTransitions = 1
    MaxRevision = 2
    MaxCount = 2
    HighCount = 1
    HighReward = 2
    NormalReward = 1
    Natp = {}
    Birth = {b1}
    MaxSnapshots = 0
INVARIANTS
    BindingsClosed
    AuthorisedOnce
    RewardedOnce
