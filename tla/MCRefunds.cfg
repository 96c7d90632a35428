\* Two executions at a time, three over the run, one failure.
SPECIFICATION Spec
CONSTANTS
    k1 = k1
    k2 = k2
    h1 = h1
    h2 = h2
    Handlers = {h1, h2}
    Keys = {k1, k2}
    AutoKey = auto
    Amount = 2
    Reasons = {"goodwill", "order-cancelled"}
    MaxRequests = 3
    MaxFaults = 1
SYMMETRY RefundSymmetry
INVARIANTS
    OneIssuePerKey
    RefundedMatchesIssued
PROPERTIES
    IssuedAnswersStand
CHECK_DEADLOCK FALSE
