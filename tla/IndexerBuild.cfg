SPECIFICATION Spec
CONSTANTS
    refusal = refusal
    malformed = malformed
    path = path
    Path <- MCPath
    BucketCount = 3
    PointCounts = {0, 1, 2, 3}
    Low <- MCLow
    High <- MCHigh
    BucketLimit = 2
    PointLimit = 2
    Prices = {4, 5, 100000000}
    Answers <- MCAnswers
    Malformed = malformed
    Refusal = refusal
    Nobody = Nobody
CHECK_DEADLOCK FALSE
INVARIANTS
    Bounded
    OwnPointsDecide
    FailureExplained
    SamplesAreOwn
PROPERTIES
    ImplementsJob
