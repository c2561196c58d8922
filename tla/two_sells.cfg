SPECIFICATION LifecycleSpec
CONSTANTS
    o1 = o1
    o2 = o2
    o3 = o3
    l1 = l1
    l2 = l2
    l3 = l3
    m1 = m1
    m2 = m2
    Orders = {o1, o2, o3}
    Markets = {m1}
    Lots = {l1, l2, l3}
    OrderOf <- SellsOrderOf
    Side <- SellsSide
    MarketOf <- SellsMarketOf
    PostOnly = {o1}
    FeeKnown = {l1, l2}
    InitialShares <- SellsShares
    GlobalCap = 1
    MarketCap = 1
    Faults = {"fill", "engine", "stream"}
    MaxCrashes = 0
INVARIANTS
    AccountedOnce
    
    RealExposureBounded
CHECK_DEADLOCK FALSE
