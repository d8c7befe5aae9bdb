SPECIFICATION Spec
CONSTANTS
    Slow = Slow
    Odd = Odd
    Profiles = {Slow, Odd}
    Critical = {Slow}
    Baseline = Slow
    Plans <- SmallPlans
    MaxAttempts = 2
    Observable <- SmallObservable
    Answer <- SmallAnswer
    MaxMatrices = 1
    ScoreFloor = 50
    MinimumScore = 40
PROPERTY HarnessFailureRetried
CHECK_DEADLOCK FALSE
