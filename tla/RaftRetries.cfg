SPECIFICATION Spec
CONSTANTS
    n1 = n1
    n2 = n2
    c1 = c1
    c2 = c2
    k1 = k1
    r1 = r1
    NoKey = NoKey
    Nodes <- MCNodes
    Clients <- MCClients
    HomeOf <- MCHomeOf
    Reconcilers <- MCReconcilers
    Keys <- MCKeys
    Resources <- MCResources
    Amounts <- MCAmounts
    Capacities <- MCCapacities
    MaxTries = 2
    MaxFaults = 1
INVARIANTS
    LedgerSound
    AnswersBacked
PROPERTIES
    ImplementsProtocol
