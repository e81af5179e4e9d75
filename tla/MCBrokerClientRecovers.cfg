\* The broker comes back, the client does not.
CONSTANTS
    Conns <- Dials
    NoConn = NoConn
    MaxOutages = 1
SPECIFICATION FairSpec
PROPERTY RecoversWithBroker
CHECK_DEADLOCK FALSE
