SPECIFICATION FairSpec
CONSTANTS
    Unusable = Unusable
    MaxSets = 3
    MaxCrashes = 2
    MaxFaults = 1
    MaxDamage = 2
CHECK_DEADLOCK FALSE
PROPERTY SetPersists
