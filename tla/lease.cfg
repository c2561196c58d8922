SPECIFICATION Spec
CONSTANTS
    p1 = p1
    p2 = p2
    p3 = p3
    a = a
    b = b
    c = c
    Processes = {p1, p2, p3}
    OwnerOf <- OwnIds
    NoOwner = NoOwner
    TTL = 2
    WipeLive = FALSE
    MaxTime = 4
    MaxFence = 3
INVARIANTS
    TypeOK
    OneHolder
    FenceNamesOwner
PROPERTY
    ClearedUnderNewestFence
CHECK_DEADLOCK FALSE
