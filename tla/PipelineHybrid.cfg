SPECIFICATION Spec
CONSTANTS
    t1 = t1
    t2 = t2
    Targets <- OneTarget
    Touches <- AllTouch
    MaxCommit = 2
    TriggerMode = "hybrid"
    InOrder = FALSE
    StaleHeads = TRUE
    MaxManual = 2
    MaxFaults = 1
    MaxCrashes = 2
INVARIANTS SuccessMatchesHost 
 
