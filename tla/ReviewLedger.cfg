SPECIFICATION Spec
CONSTANTS
    alice = alice
    bob = bob
    Original <- MCOriginal
    Edited <- MCEdited
    Predictions = {"p"}
    NoLabel = NoLabel
    Exports <- MCExports
    Batches <- MCBatches
    MaxRevisions = 4
    MaxCandidates = 1
    MaxEdits = 1
    MaxTorn = 1
INVARIANTS CandidateIsCurrent CandidateFollowsReview HistoryIsKept
CHECK_DEADLOCK FALSE
