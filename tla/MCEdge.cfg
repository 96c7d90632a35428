SPECIFICATION MCSpec
CONSTANTS
    Variants = {v1, v2}
    Orders = {o1}
    Refs = {r1}
    Locations = {loc1}
    Absent = absent
    Publishers = {p1, p2}
    Instants = {1, 2}
    Correlations = {corr1}
    MaxEvents = 2
    MaxOutages = 1
    MaxCopies = 2
    StockLocations = {"l1", "l2"}
    Facets <- MCFacets
    StockWriters = {w1, w2}
    MaxStock = 1
    CustomerIds = {"c1", "c2"}
INVARIANTS
    LogIsTrue
    StaleWasOvertaken
    

    
CHECK_DEADLOCK FALSE
