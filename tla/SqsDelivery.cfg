SPECIFICATION Spec
CONSTANTS
    Jobs = {1}
    Workers = {w1, w2}
    Messages = {m1, m2}
    NoJob = NoJob
    NoMessage = NoMessage
    Poison = {}
    Unknown = Unknown
    MaxAttempts = 2
    LeaseSeconds = 1
    RetryDelay = 1
    MaxReceives = 4
    ClaimTries = 2
    MaxPulses = 0
    MaxFaults = 0
    MaxRedrives = 1
SYMMETRY Symmetry
INVARIANTS OneOwner NothingLost
PROPERTIES ImplementsLifecycle
CHECK_DEADLOCK FALSE
