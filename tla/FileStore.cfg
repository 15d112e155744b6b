SPECIFICATION Spec
CONSTANTS
    d1 = d1
    d2 = d2
    d3 = d3
    NoDeployment = NoDeployment
    Deployments <- MCDeployments
    TargetOf <- MCTargetOf
    MaxTime = 2
    ClockSteps = TRUE
    Retention = TRUE
    MaxFaults = 1
    MaxCrashes = 2
INVARIANTS IndInv NoStaleRunning
PROPERTIES RunsNeverReopen IndexIsLatest
CHECK_DEADLOCK FALSE
