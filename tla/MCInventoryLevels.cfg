\* Two levels that one request spans, two handlers, no sweep, and the events of new variants.
SPECIFICATION SpecAutoInit
CONSTANTS
    None = None
    l1 = l1
    l2 = l2
    c1 = c1
    c2 = c2
    r1 = r1
    h1 = h1
    h2 = h2
    Levels = {l1, l2}
    Carts = {c1, c2}
    Handlers = {h1, h2}
    Sweepers = {}
    Refs = {r1}
    Payloads <- TwoLevelsPayloads
    SeedOnHand <- TwoLevelsSeed
    MaxAttempts = 2
    TTL = 1
    BatchSize = 2
    TransactionSize = 1
    MaxClock = 0
    MaxRequests = 5
    MaxFaults = 0
INVARIANTS
    LedgerExplainsCounters
    AckedIsRecorded
CHECK_DEADLOCK FALSE
