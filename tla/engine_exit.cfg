SPECIFICATION FairSpec
CONSTANTS
    MaxOrders = 2
    Prices <- TwoFairs
    Levels = 1
    Threshold = 1
    Lot = 1
    Extreme = 2
    MaxInventory = 2
    MaxInbox = 1
    MaxStarts = 1
    Commands <- ExitOnly
    Faults <- VenueFaults
INVARIANTS OneQuotePerLevel PendingCoversBuys
PROPERTIES ExitRemovesBuys
CHECK_DEADLOCK FALSE
