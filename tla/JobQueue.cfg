SPECIFICATION FairSpec
CONSTANTS
    Jobs = {1, 2}
    Workers = {w1, w2}
    FairWorkers = {w1}
    NoJob = NoJob
    MaxAttempts = 2
    LeaseSeconds = 1
    RetryDelay = 1
    ClaimTries = 2
    MaxFaults = 1
INVARIANTS OneOwner ReportIsCurrent TrailReplays
PROPERTIES EveryJobEnds NeverEarly ImplementsLifecycle
