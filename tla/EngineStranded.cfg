\* Three proposals in two neighbouring buckets, one timeout settled per block.
SPECIFICATION Spec
CONSTANTS
    MaxProposals = 3
    Subject = {s1}
    VotingDuration = 1
    MaxActiveProposals = 3
    MaxProposalsPerExpiry = 2
    MaxAutoFinalizePerBlock = 1
    WeightAllowance = 2
    MaxManualExecutionAttempts = 2
    ExecutionRetryGraceBlocks = 1
    MaxExecutionRetryDeadlinesPerBlock = 1
    RescheduleTries = 1
    Retention = 9
    MaxCleanupActivationsPerBlock = 1
    MaxCleanupStepsPerBlock = 6
    MaxBlock = 4
    LastCreateBlock = 1
    Kinds = {"internal"}
    Outcomes = {"Executed"}
    Faults = {}
    ExecutionsPerBlock = 2
    MaxPendingRetryExpirationsPerBlock = 1
INVARIANTS
    OverdueWithinReach
