\* One subject, both kinds of proposal: every outcome, every fault, deletion after one block.
SPECIFICATION Spec
CONSTANTS
    MaxProposals = 2
    Subject = {s1}
    VotingDuration = 1
    MaxActiveProposals = 2
    MaxProposalsPerExpiry = 2
    MaxAutoFinalizePerBlock = 1
    WeightAllowance = 2
    MaxManualExecutionAttempts = 2
    ExecutionRetryGraceBlocks = 1
    MaxExecutionRetryDeadlinesPerBlock = 1
    RescheduleTries = 1
    Retention = 1
    MaxCleanupActivationsPerBlock = 1
    MaxCleanupStepsPerBlock = 2
    MaxBlock = 5
    LastCreateBlock = 0
    Kinds = {"internal", "joint"}
    Outcomes = {"Executed", "RetryableFailed", "FatalFailed", "Ignored"}
    Faults = {"callback", "track", "notify"}
    ExecutionsPerBlock = 2
    MaxPendingRetryExpirationsPerBlock = 1
INVARIANTS
    TypeOK
    MutexAccounting
    IndexesMatchStatus
    LockLifetime
    PassedIsQueued
    FailureNoticeOwed
    CleanedUpOnce
    CleanupFifoOrdered
    PurgedLeavesNothing
PROPERTIES
    ImplementsLifecycle
