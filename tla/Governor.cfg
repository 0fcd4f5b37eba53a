SPECIFICATION FairSpec
CONSTANTS
    t1 = t1
    t2 = t2
    p1 = p1
    p2 = p2
    k1 = k1
    r1 = r1
    NoKey = NoKey
    NoThread = NoThread
    NoProc = NoProc
    Keys <- MCKeys
    Resources <- MCResources
    Amounts <- MCAmounts
    Capacities <- MCCapacities
    AmountOf <- MCAmountOf
    ResourceOf <- MCResourceOf
    Threads <- MCThreads
    Procs <- MCProcs
    ProcOf <- MCProcOf
    RevalidateBudget = FALSE
    AbsenceIsFailure = FALSE
    LiveModes <- MCBothModes
    Retrying <- MCRetrying
    MaxFaults = 2
INVARIANTS
    RecordsBacked
    OutcomeBacked
    ExecutedAtMostOnce
PROPERTIES
    KeepsPromise
    OutcomeSettles
    AdmissionCompletes
