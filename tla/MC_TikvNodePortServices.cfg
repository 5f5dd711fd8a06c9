CONSTANTS
    NumPods = 3
    Nodes <- MCNodes
    NodePort = TRUE
    MaxEnvSteps = 6
SPECIFICATION Spec
INVARIANT TypeOK ServicesAdvertiseLiveHosts
