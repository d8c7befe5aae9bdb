SPECIFICATION Spec
CONSTANTS
    Links <- MCLinks
    HostOf <- MCHosts
    Pages = {"page", "moved"}
    Sizes = {3, 7}
    MaxAssets = 3
    NominalMass = 5
    AllowPrivate = FALSE
CHECK_DEADLOCK FALSE
INVARIANTS
    UnknownsAreNotZeroed
