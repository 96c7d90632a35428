\* An order of two lines, two handlers, six requests, one of which may die.
SPECIFICATION Spec
CONSTANTS
    a = a
    b = b
    h1 = h1
    h2 = h2
    Handlers = {h1, h2}
    Lines = {a, b}
    Quantity <- TwoLines
    MaxFulfillments = 2
    Payloads <- AllPayloads
    MaxAttempts = 2
    MaxRequests = 6
    MaxFaults = 1
SYMMETRY HandlerSymmetry
INVARIANTS
    MoneyIsRight
    RollUpIsTrue
    
PROPERTIES
    CancelSparesShipped
CHECK_DEADLOCK FALSE
