SPECIFICATION LiveSpec
CONSTANTS
    t1 = t1
    t2 = t2
    t3 = t3
    Targets <- MCTargets
    Dirs <- MCDirs
    Specs <- MCSpecs
    MaxCommit = 2
    Scenarios <- MCScenarios
INVARIANTS RunningIsRecorded
PROPERTIES BrokenKeepsRunning 
CHECK_DEADLOCK FALSE
