\* Two handlers, two return requests, one failure.
SPECIFICATION Spec
CONSTANTS
    h1 = h1
    h2 = h2
    l1 = l1
    buyer = buyer
    clerk = clerk
    nobody = nobody
    Handlers = {h1, h2}
    Users = {buyer, clerk}
    Nobody = nobody
    Buyer = buyer
    Permissions <- TokenPermissions
    Lines = {l1}
    Quantity <- OrderedUnits
    Slots = {1, 2}
    Baskets <- TwoBaskets
    Dispositions = {"restock", "scrap"}
    MaxRmas = 2
    MaxAttempts = 2
    RestockAttempts = 2
    MaxFaults = 1
SYMMETRY ReturnSymmetry
INVARIANTS
    ReturnedWithinOrdered
    CreditedAsInspected
    RestockIsOwed
PROPERTIES
    Implements
CHECK_DEADLOCK FALSE
