SPECIFICATION Spec
CONSTANTS
    Uploads = {u1, u2}
    MinAge = 2
    MaxFaults = 2
    MaxClock = 4
SYMMETRY Symmetry
INVARIANTS RowHasObject AnswersAreTrue OrphansReported GraceProtects
