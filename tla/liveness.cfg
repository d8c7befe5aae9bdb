SPECIFICATION FairSpec
CONSTANTS
    a1 = a1
    a2 = a2
    a3 = a3
CHECK_DEADLOCK FALSE
PROPERTIES
    EveryRunSettles
    CancelTakesEffect
    EveryRequestAnswered
    
    UnblockedIsSwept
