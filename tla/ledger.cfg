SPECIFICATION Spec
CONSTANTS
    Outcomes = {"yes"}
    Fills = {"buy", "sell"}
    Terms <- MCTerms
    FeeKnown = {"buy"}
    Handlers = {h1, h2}
    Readers = {"engine"}
    Dollar = 10
    BinaryCap = 10
    CategoricalCap = 7
    Faults = {"crash", "fill", "ack", "mark", "load", "publish", "cancel",
              "fetch", "external", "overwrite"}
    MaxFaults = 1
    MaxTransfers = 1
INVARIANTS
    TypeOK
    BooksReplay
    IncompleteBooksBlock
    MirrorCurrent
CHECK_DEADLOCK FALSE
SYMMETRY Symmetric
