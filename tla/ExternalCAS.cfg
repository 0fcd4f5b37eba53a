SPECIFICATION FairSpec
CONSTANTS
    c1 = c1
    c2 = c2
    ident = ident
    operator = operator
    root = root
    genesis = genesis
    second = second
    rival = rival
    forged = forged
    rootKey = rootKey
    rogueKey = rogueKey
    notary = notary
    issuerKey = issuerKey
    scope = scope
    policy = policy
    None = None
    Roots <- MCRoots
    Trust <- MCTrust
    Claims = {}
    Evidence = {}
    Snapshots <- MCSnapshots
    Clients <- MCClients
    IdentityOf <- MCIdentityOf
    Registered <- MCRegistered
    Provisioning <- MCProvisioning
    Submissions <- MCSubmissions
    MaxTimeouts = 1
    MaxChallenges = 1
    MaxAsked = 2
    MaxActive = 2
INVARIANTS
    StoreConsistent
    ReceiptsTruthful
    AnswersAreFresh
PROPERTIES
    StoresAreRegisters
    OutcomeLearned
CHECK_DEADLOCK FALSE
