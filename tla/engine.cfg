SPECIFICATION Spec
CONSTANTS
    MaxOrders = 2
    Prices <- OneFair
    Levels = 1
    Threshold = 1
    Lot = 2
    Extreme = 4
    MaxInventory = 4
    MaxInbox = 1
    MaxStarts = 2
    Commands <- AllCommands
    Faults <- AllFaults
INVARIANTS TypeOK IdleKnowsQuotes SuspendedIsQuiet CleanExit
CHECK_DEADLOCK FALSE
