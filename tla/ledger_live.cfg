SPECIFICATION FairSpec
CONSTANTS
    Outcomes = {"yes", "no"}
    Fills = {"buy"}
    Terms <- MCTerms
    FeeKnown = {"buy"}
    Handlers = {h1}
    Readers = {"monitor"}
    Dollar = 10
    BinaryCap = 10
    CategoricalCap = 5
    Faults = {"crash", "fill", "ack", "mark", "load", "publish", "cancel",
              "fetch", "external", "overwrite"}
    MaxFaults = 1
    MaxTransfers = 1
PROPERTIES
    OverLimitHalts
    DriftHalts
CHECK_DEADLOCK FALSE
