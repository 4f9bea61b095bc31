SPECIFICATION FairSpec
CONSTANTS
    Jobs = {1}
    Publishers = {p1, p2}
    FairPublishers = {p1}
    NoEvent = NoEvent
    OutboxLease = 2
    BackoffCap = 2
    ClaimTries = 2
    MaxFaults = 2
    MaxRedrives = 2
    MaxClock = 30
INVARIANTS OneSender
PROPERTIES ImplementsPublication EveryEventPublished
