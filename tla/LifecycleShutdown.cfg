SPECIFICATION LiveSpec
CONSTANTS
    d1 = d1
    Deploys <- MCDeploys
    Grace = TRUE
    MaxReloads = 2
INVARIANTS LockCoversJobs
PROPERTIES ReplacedStops 
CHECK_DEADLOCK FALSE
