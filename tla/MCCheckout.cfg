\* Two variants of two units each, three carts, three requests, two orders and
\* one failure.
SPECIFICATION Spec
CONSTANTS
    v = v
    w = w
    c1 = c1
    c2 = c2
    c3 = c3
    u1 = u1
    u2 = u2
    k1 = k1
    k2 = k2
    b1 = b1
    e1 = e1
    e2 = e2
    p1 = p1
    p2 = p2
    None = None
    Levels = {v, w}
    Carts = {c1, c2, c3}
    Customers = {u1, u2}
    SeedOnHand <- Seeds
    FirstOwner <- Owners
    FirstLines <- SomeLines
    Editors = {e1, e2}
    CartRequests <- Edits
    MaxAttempts = 2
    MaxRequests = 3
    MaxFaults = 1
    Placers = {p1, p2}
    Keys = {k1, k2}
    Bodies = {b1}
    PlaceRequests <- Places
    MaxOrders = 2
SYMMETRY Symmetric
INVARIANTS
    HoldsMatchLines
    PaidOrderIsAllocated
    AllocationIsAccountedFor
    
PROPERTIES
    EditsAreCurrent
CHECK_DEADLOCK FALSE
