\* Long enough to close an account and register it again while a transfer of
\* the earlier admins waits for its execution.
SPECIFICATION Spec
CONSTANTS
    MaxProposals = 4
    Subject = {s1}
    VotingDuration = 1
    MaxActiveProposals = 2
    Admin = {a1, a2, a3}
    Creator = a1
    MaxBlock = 1
SYMMETRY Symmetry
INVARIANT TransferOfCurrentAccount
