SPECIFICATION LiveSpec
CONSTANTS
    a = a
    b = b
    c = c
    Jobs <- MCJobPair
    ProjectOf <- MCPairProjectOf
    HostOf <- MCPairHostOf
    CtxOf <- MCPairCtxOf
    MaxWorkers = 2
    NumCPU = 1
    MaxHostConcurrency = 2
    JobBuffer = 1
INVARIANTS MutualExclusion
PROPERTIES ImplementsJobPool AcceptedCompletes StopReturns SubmitReturns
