CONSTANTS
    Nothing = Nothing
    Absent = Absent
    Torn = Torn
    Archive <- MCArchive
    Reviews <- MCReviews
    Moves <- MCMoves
    ReviewDistance = 2
    LeakDistance = 1
    Classes = 2
    Configs <- MCConfigs
    RandomOrder <- MCRandomOrder
    Detections <- MCDetections
SPECIFICATION Spec
INVARIANTS VerifiedIsApart EvaluatedOnUnseen EachViewInTurn DefectsShownWhole CompleteIsAccepted EvaluatedIsSelected ThresholdsAgree NamedPointsAreBest
CHECK_DEADLOCK FALSE
