SPECIFICATION ClientsSpec
CONSTANTS
    c1 = c1
    c2 = c2
    c3 = c3
    k1 = k1
    k2 = k2
    r1 = r1
    Clients <- MCClients
    Reconcilers <- MCReconcilers
    Keys <- MCKeys
    Resources <- MCResources
    Amounts <- MCAmounts
    Capacities <- MCCapacities
INVARIANTS
    LedgerAgrees
    ReconcileVerdictBacked
PROPERTIES
    ImplementsProtocol
SYMMETRY Symmetry
