SPECIFICATION FairSpec
CONSTANTS
    Jobs = {1}
    Workers = {w1, w2}
    Messages = {m1, m2}
    NoJob = NoJob
    NoMessage = NoMessage
    Poison = {m2}
    Unknown = Unknown
    MaxAttempts = 1
    LeaseSeconds = 1
    RetryDelay = 1
    MaxReceives = 3
    ClaimTries = 2
    MaxPulses = 1
    MaxFaults = 1
    MaxRedrives = 0
INVARIANTS AckOnlyCompleted
PROPERTIES EveryJobSettles
CHECK_DEADLOCK FALSE
