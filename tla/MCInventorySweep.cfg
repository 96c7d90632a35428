\* The life of a hold: two overlapping sweeps, lost transactions, liveness.
SPECIFICATION FairSpec
CONSTANTS
    None = None
    l1 = l1
    l2 = l2
    c1 = c1
    c2 = c2
    r1 = r1
    h1 = h1
    h2 = h2
    Levels = {l1}
    Carts = {c1, c2}
    Handlers = {h1}
    Sweepers = {w1, w2}
    Refs = {r1}
    Payloads <- HoldPayloads
    SeedOnHand <- OneLevelSeed
    MaxAttempts = 2
    TTL = 1
    BatchSize = 1
    TransactionSize = 1
    MaxClock = 2
    MaxRequests = 3
    MaxFaults = 1
PROPERTIES
    ExpiredHoldsAreSettled
CHECK_DEADLOCK FALSE
