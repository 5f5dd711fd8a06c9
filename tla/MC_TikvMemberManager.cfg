CONSTANTS
    MaxReplicas = 3
    Templates <- MCTemplates
    SpecReplicas <- MCSpecReplicas
    MaxFailoverCount = 1
    AutoFailover = TRUE
    LocationLabels = TRUE
    MaxEdits = 1
    MaxFaults = 1
SPECIFICATION Spec
ACTION_CONSTRAINT CacheDeliveredBetweenSyncs
INVARIANT TypeOK
 
