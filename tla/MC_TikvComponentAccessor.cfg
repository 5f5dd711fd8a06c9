CONSTANTS
    Nil = Nil
    Absent = Absent
    NilList = NilList
    NoTemplate = NoTemplate
    Vals <- MCVals
    Keys <- MCKeys
    SysctlInitKey = "sysctl-init"
    Sysctls <- MCSysctls
    TolerationValues <- MCTolerations
    Configs <- MCConfigs
    MaxEdits = 3
SPECIFICATION Spec
INVARIANT TypeOK
INVARIANT MergedMapsOverride
INVARIANT SysctlInitFollowsAnnotation
