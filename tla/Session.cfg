SPECIFICATION FairSpec
CONSTANTS
    Subjects = {alice, bob}
    Requests = {r1, r2}
    None = None
    MaxRevision = 2
INVARIANTS EndedForGood ShownIsOwn NothingKept
PROPERTIES SentInSession ExpiryNoticed
