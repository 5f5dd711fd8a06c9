CONSTANTS
    PrintVersion = FALSE
    MaxFaults = 3
SPECIFICATION FairSpec
CHECK_DEADLOCK FALSE
PROPERTY DiscoveryEventuallyServes
