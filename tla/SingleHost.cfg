SPECIFICATION Spec
CONSTANTS
    p1 = p1
    p2 = p2
    k1 = k1
    k2 = k2
    r1 = r1
    NoProc = NoProc
    Procs <- MCProcs
    Keys <- MCKeys
    Resources <- MCResources
    Amounts <- MCAmounts
    Capacities <- MCCapacities
    Decimals <- MCDecimals
    MaxFaults = 3
INVARIANTS
    I8
    RefusalIsSpelling
    SettledLedgerAgrees
PROPERTIES
    ImplementsProtocol
SYMMETRY Symmetry
CHECK_DEADLOCK FALSE
