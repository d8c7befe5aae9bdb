SPECIFICATION FairSpec
CONSTANTS
    Slow = Slow
    Odd = Odd
    Profiles = {Slow, Odd}
    Critical = {Slow}
    Baseline = Slow
    Plans <- SmallPlans
    MaxAttempts = 2
    Observable <- SmallObservable
    Answer <- SmallAnswer
    MaxMatrices = 2
    ScoreFloor = 50
    MinimumScore = 40
INVARIANTS
    TypeOK
    ShippedMeansUsable
    TargetShipMeansProven
    HoldHasReason
    FilesMatchReport
    JobVerdictIsComplete
PROPERTY MatrixFinishes
CHECK_DEADLOCK FALSE
