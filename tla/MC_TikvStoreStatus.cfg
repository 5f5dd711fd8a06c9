CONSTANTS
    StoreIDs <- MCOneExternal
    OwnedIDs <- MCOneOwned
    MaxTime = 2
    MaxFlaps = 1
    MaxGlitches = 1
    MaxFaults = 1
SPECIFICATION FairSpec
INVARIANT TypeOK
PROPERTY RecordNonRegression StatusConverges ImplementsStatusContract
