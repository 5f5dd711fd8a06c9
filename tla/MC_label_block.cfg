CONSTANTS
    MaxReplicas = 2
    Templates <- MCTemplates
    SpecReplicas <- MCSpecReplicas
    MaxFailoverCount = 0
    AutoFailover = TRUE
    LocationLabels = TRUE
    MaxEdits = 1
    MaxFaults = 0
SPECIFICATION FairSpec
PROPERTY Convergence
