SPECIFICATION LifecycleSpec
CONSTANTS
    o1 = o1
    o2 = o2
    o3 = o3
    l1 = l1
    l2 = l2
    l3 = l3
    m1 = m1
    m2 = m2
    Orders = {o1, o2}
    Markets = {m1, m2}
    Lots = {l1, l2, l3}
    OrderOf <- BuysOrderOf
    Side <- BuysSide
    MarketOf <- BuysMarketOf
    PostOnly = {o1}
    FeeKnown = {l1, l2}
    InitialShares <- BuysShares
    GlobalCap = 2
    MarketCap = 2
    Faults = {"journal", "persist", "settle", "mark", "fill", "pass", "engine", "stream"}
    MaxCrashes = 0
SYMMETRY LotSymmetry
INVARIANTS
    CachedTotalExact
    BookWithinCap
CHECK_DEADLOCK FALSE
