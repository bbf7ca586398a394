CONSTANTS
    Keys <- MCKeys
    Covers <- MCCovers
    Deployments <- MCDeployments
SPECIFICATION ReadSpec
INVARIANTS Converged OnePageResumes NothingStranded
CHECK_DEADLOCK FALSE
