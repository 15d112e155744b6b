SPECIFICATION LiveSpec
CONSTANTS
    d1 = d1
    d2 = d2
    Deploys <- MCDeploys
    Projects <- MCProjects
    Hosts <- MCHosts
    Shas <- MCShas
    Setups <- MCSetups
    MaxFaults = 2
    MaxCrashes = 1
INVARIANTS GitHubIsTrue SilenceMeansTold
PROPERTIES  InProgressEnds
CHECK_DEADLOCK FALSE
