SPECIFICATION DamageSpec
CONSTANTS
    w1 = w1
    w2 = w2
    k1 = k1
    good = good
    genesis = genesis
    root = root
    rootKey = rootKey
    notary = notary
    issuerKey = issuerKey
    claim = claim
    prior = prior
    scope = scope
    policy = policy
    authority = authority
    boot = boot
    None = None
    Roots <- MCRoots
    Snapshots = {genesis}
    Trust <- MCTrust
    Claims = {claim}
    Evidence <- MCEvidence
    Authority = authority
    Requests <- MCRequests
    Workers = {w1, w2}
    Ops = {k1}
    Payloads = {good}
    PayloadOf <- MCPayloadOf
    Times = {1}
    Rotations <- MCRotations
    MaxFaults = 0
INVARIANTS
    DispatchedOnce
CHECK_DEADLOCK FALSE
