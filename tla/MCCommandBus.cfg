\* Two commands (one does not decode) compete for one prefetch slot, three faults.
CONSTANTS
    c1 = c1
    cBad = cBad
    g1 = g1
    g2 = g2
    g3 = g3
    NoCommand = NoCommand
    Commands <- TwoCommands
    Malformed <- OnlyBad
    Goroutines <- ThreeGoroutines
    Prefetch = 1
    MaxRetries = 2
    MaxFaults = 3
SPECIFICATION FairSpec
INVARIANTS
    TypeOK
    NoCommandLost
    OneOwnerPerDelivery
    ParkedAfterMaxRetries
    DuplicatesNeedFaults
PROPERTIES
    ImplementsAtLeastOnce
    CommandsSettle
CHECK_DEADLOCK FALSE
