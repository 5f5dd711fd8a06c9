CONSTANTS
    Stores <- MCStores
    External = {ext}
    Nodes <- MCNodes
    LocationKeys <- MCLocationKeys
    HostnameLabel = "hostname"
    Vals <- MCVals
    NoPod = NoPod
    Unscheduled = Unscheduled
    MaxChanges = 2
    MaxFaults = 1
SPECIFICATION FairSpec
PROPERTY LabelsEventuallyPropagated
