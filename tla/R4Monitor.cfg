SPECIFICATION Spec
CONSTANTS
    m1 = m1
    m2 = m2
    o1 = o1
    o2 = o2
    n1 = n1
    Policy <- MCPolicy
    Monitors <- MCMonitors
    Events <- MCEvents
    Operators <- MCOperators
    Registered <- MCRegistered
    Nonces <- MCNonces
    Overrides <- MCOverrides
    Bounds <- MCBounds
INVARIANTS
    LedgerIsOneChain
    TransitionsAreHuman
    RestartRestores
    EnginesAgreeOnBlock
SYMMETRY Symmetry
CHECK_DEADLOCK FALSE
