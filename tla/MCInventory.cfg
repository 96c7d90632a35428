\* One level, two carts, two handlers and one sweeper.
SPECIFICATION Spec
CONSTANTS
    None = None
    l1 = l1
    l2 = l2
    c1 = c1
    c2 = c2
    r1 = r1
    h1 = h1
    h2 = h2
    Levels = {l1}
    Carts = {c1, c2}
    Handlers = {h1, h2}
    Sweepers = {w1}
    Refs = {r1}
    Payloads <- OneLevelPayloads
    SeedOnHand <- OneLevelSeed
    MaxAttempts = 2
    TTL = 1
    BatchSize = 2
    TransactionSize = 1
    MaxClock = 2
    MaxRequests = 3
    MaxFaults = 0
INVARIANTS
    ReservedMatchesHolds
    OncePerOperation
PROPERTIES
    NoOversell
    Implements
CHECK_DEADLOCK FALSE
