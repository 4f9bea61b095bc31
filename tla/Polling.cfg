SPECIFICATION FairSpec
CONSTANTS
    Inspections = {i1, i2}
    Runs = {e1, e2}
    None = None
    MaxChanges = 2
    MaxClicks = 2
    MaxErrors = 1
INVARIANTS ImageIsLive
PROPERTIES NeverBackward EndIsShown
CHECK_DEADLOCK FALSE
