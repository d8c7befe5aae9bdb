SPECIFICATION Spec
CONSTANTS
    Slow = Slow
    Odd = Odd
    Profiles = {Slow, Odd}
    Critical = {Slow}
    Baseline = Slow
    Plans <- SmallPlans
    MaxAttempts = 2
    Observable <- SlackObservable
    Answer <- SmallAnswer
    MaxMatrices = 1
    ScoreFloor = 50
    MinimumScore = 40
INVARIANT MajorBlocks
CHECK_DEADLOCK FALSE
