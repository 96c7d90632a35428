SPECIFICATION MCSpec
CONSTANTS
    Clerks = {k1, k2}
    Variants = {"shirt-m", "cap"}
    Currencies = {"USD"}
    Priorities = {0}
    TaxCodes = {"reduced"}
    Horizon = 2
    MaxPrices = 2
    Managers = {m1, m2}
    Slugs = {"shirt", "caps"}
    DefaultCurrency = "USD"
    SeededVariants <- MCSeed
    MaxMedia = 3
    MaxEdits = 4
    Editors = {e1, e2}
    Categories = {x, y, z}
    NoParent = none
    MaxMoves = 5
SYMMETRY Alike
INVARIANTS
    OnSaleWasPriced
    ActiveSlotsDistinct
    ListedWhereFiled
PROPERTIES
    PricedStaysPriced
CHECK_DEADLOCK FALSE
