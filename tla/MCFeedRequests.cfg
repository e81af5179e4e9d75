\* Two requests that share a new feed, one failure of any kind.
CONSTANTS
    r1 = r1
    r2 = r2
    t1 = t1
    t2 = t2
    f1 = f1
    NoTask = NoTask
    Requests <- TwoRequests
    Threads <- TwoThreads
    Feeds <- OneFeed
    UrlsOf <- AllFeeds
    MaxFaults = 1
SYMMETRY ActorSymmetry
SPECIFICATION Spec
INVARIANTS
    TypeOK
    OneClaimUnlessReopened
    MissingItemsHaveReason
    StuckHasReason
PROPERTIES
    ThreadsKeepFinalStatus
    ImplementsFeedService
CHECK_DEADLOCK FALSE
