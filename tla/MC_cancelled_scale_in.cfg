CONSTANTS
    MaxReplicas = 2
    Templates <- MCTemplates
    SpecReplicas <- MCSpecReplicas
    MaxFailoverCount = 0
    AutoFailover = TRUE
    LocationLabels = FALSE
    MaxEdits = 2
    MaxFaults = 1
SPECIFICATION FairSpec
PROPERTY Convergence
