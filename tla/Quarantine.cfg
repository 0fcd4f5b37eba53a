SPECIFICATION FairSpec
CONSTANTS
    t1 = t1
    t2 = t2
    t3 = t3
    p1 = p1
    p2 = p2
    i1 = i1
    NoIncident = NoIncident
    NoThread = NoThread
    Threads <- MCThreads
    Procs <- MCProcs
    ProcOf <- MCProcOf
    Incidents <- MCIncidents
    MaxLocks = 2
    MaxFaults = 1
INVARIANTS
    FailClosed
    AbortedStaysClosed
    LocalFlagSound
PROPERTIES
    ProofMatchesLock
    EmergencyLockReturns
