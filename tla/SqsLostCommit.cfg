SPECIFICATION Spec
CONSTANTS
    Jobs = {1}
    Workers = {w1}
    Messages = {m1}
    NoJob = NoJob
    NoMessage = NoMessage
    Poison = {}
    Unknown = Unknown
    MaxAttempts = 1
    LeaseSeconds = 1
    RetryDelay = 1
    MaxReceives = 3
    ClaimTries = 2
    MaxPulses = 1
    MaxFaults = 1
    MaxRedrives = 0
PROPERTIES LostNeverCommits
CHECK_DEADLOCK FALSE
