SPECIFICATION Spec
CONSTANTS
    Jobs = {1}
    Workers = {w1}
    Messages = {m1}
    NoJob = NoJob
    NoMessage = NoMessage
    Poison = {}
    Unknown = Unknown
    MaxAttempts = 2
    LeaseSeconds = 1
    RetryDelay = 1
    MaxReceives = 4
    ClaimTries = 2
    MaxPulses = 1
    MaxFaults = 0
    MaxRedrives = 0
PROPERTIES RetryDelayApplied
CHECK_DEADLOCK FALSE
