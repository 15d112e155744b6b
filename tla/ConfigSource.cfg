SPECIFICATION LiveSpec
CONSTANTS
    l1 = l1
    l2 = l2
    Documents <- MCDocuments
    ChangeSets <- MCChangeSets
    Sources <- MCSources
    MaxEditions = 3
    Unprompted = TRUE
    Loaders <- MCLoaders
    MaxFaults = 2
    CacheFails = TRUE
    MaxCrashes = 1
INVARIANTS IndInv NothingBroken EveryTargetPlanned PlanIsExact
PROPERTIES  ReloadsAreSound ComesIntoEffect
CHECK_DEADLOCK FALSE
