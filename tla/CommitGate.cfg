SPECIFICATION FairGateSpec
CONSTANTS
    w1 = w1
    w2 = w2
    k1 = k1
    k2 = k2
    good = good
    other = other
    genesis = genesis
    second = second
    root = root
    rootKey = rootKey
    notary = notary
    issuerKey = issuerKey
    claim = claim
    prior = prior
    scope = scope
    policy = policy
    authority = authority
    boot = boot
    rotate = rotate
    None = None
    Roots <- MCRoots
    Snapshots = {genesis, second}
    Trust <- MCTrust
    Claims = {claim}
    Evidence <- MCEvidence
    Authority = authority
    Requests <- MCRequests
    Workers = {w1, w2}
    Ops = {k1}
    Payloads = {good, other}
    PayloadOf <- MCPayloadOf
    Times = {0, 1}
    Rotations <- MCRotations
    MaxFaults = 1
INVARIANTS
    GateConsistent
    ProviderSeesOnlyAuthorized
    HoldIsJustified
PROPERTIES
    GateSettles
CHECK_DEADLOCK FALSE
