SPECIFICATION FairSpec
CONSTANTS
    k1 = k1
    Commands = {k1}
    WireLimit = 2
CHECK_DEADLOCK FALSE
PROPERTIES
    ConnectSettles
