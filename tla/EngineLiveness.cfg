\* Fair blocks, three proposals in two neighbouring buckets, callbacks that do not execute.
SPECIFICATION FairSpec
CONSTANTS
    MaxProposals = 3
    Subject = {s1}
    VotingDuration = 1
    MaxActiveProposals = 3
    MaxProposalsPerExpiry = 2
    MaxAutoFinalizePerBlock = 1
    WeightAllowance = 2
    MaxManualExecutionAttempts = 2
    ExecutionRetryGraceBlocks = 1
    MaxExecutionRetryDeadlinesPerBlock = 1
    RescheduleTries = 1
    Retention = 20
    MaxCleanupActivationsPerBlock = 1
    MaxCleanupStepsPerBlock = 6
    MaxBlock = 9
    LastCreateBlock = 1
    Kinds = {"internal"}
    Outcomes = {"RetryableFailed"}
    Faults = {}
    ExecutionsPerBlock = 2
    MaxPendingRetryExpirationsPerBlock = 1
PROPERTIES
    PassedEventuallySettles
    ReachedIsHandled
