SPECIFICATION CandidateSpec
CONSTANTS
    Inventories <- MCInventories
    Batches <- MCBatches
    NearDistance = 2
    MaxBatches = 3
INVARIANTS OnlyUncontested GroupsAreComponents NoSilentLeak
CHECK_DEADLOCK FALSE
