SPECIFICATION FairSpec
CONSTANTS
    o1 = o1
    l1 = l1
    l2 = l2
    m1 = m1
    Orders = {o1}
    Markets = {m1}
    Lots = {l1, l2}
    OrderOf <- OneBuyOrderOf
    Side <- OneBuySide
    MarketOf <- OneBuyMarketOf
    PostOnly = {o1}
    FeeKnown = {l1, l2}
    InitialShares <- NoShares
    GlobalCap = 2
    MarketCap = 2
    Faults = {"engine"}
    MaxCrashes = 0
PROPERTY
    CancelReleased
CHECK_DEADLOCK FALSE
