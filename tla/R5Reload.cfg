INIT Init
NEXT Next
CONSTANTS
    r1 = r1
    r2 = r2
    c1 = c1
    EPOCH_SIZE = 3
    Requests <- MCRequests
    Clients <- MCClients
    Nonces <- MCNonces
    Events <- MCEvents
    Modes <- MCModes
    Bounds <- MCBounds
    MaxNotes = 1
INVARIANTS
    LedgerReloads
CHECK_DEADLOCK FALSE
