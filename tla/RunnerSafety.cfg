SPECIFICATION Spec
CONSTANTS
    a = a
    b = b
    c = c
    Jobs <- MCJobs
    ProjectOf <- MCProjectOf
    HostOf <- MCOneHost
    CtxOf <- MCCtxOf
    MaxWorkers = 2
    NumCPU = 2
    MaxHostConcurrency = 1
    JobBuffer = 2
INVARIANTS IndInv ConcurrencyCaps StopQuiesces NoLeak
