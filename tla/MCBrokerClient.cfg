\* Boot, recovery and consumption through three outages.
CONSTANTS
    Conns <- Dials
    NoConn = NoConn
    MaxOutages = 3
SPECIFICATION FairSpec
INVARIANTS
    TypeOK
    NoLeakedConnection
    HandlersAreCurrent
    NoLostWakeup
PROPERTIES
    LinkMovesLikeCommandBus
    ConsumesAgain
CHECK_DEADLOCK FALSE
