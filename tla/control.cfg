SPECIFICATION Spec
CONSTANTS
    m1 = m1
    m2 = m2
    yes = yes
    no = no
    c1 = c1
    c2 = c2
    Markets <- OneMarket
    Tokens <- BothTokens
    Calls <- TwoCalls
    Modes <- AllModes
    MaxBoots = 2
    Faults <- AllFaults
INVARIANTS TypeOK OneEngine QuietAfterStop
PROPERTIES ImplementsStickyHalt
SYMMETRY Symmetric
CHECK_DEADLOCK FALSE
