\* Liveness: one request, two failures (publish and fallback may both fail).
CONSTANTS
    r1 = r1
    r2 = r2
    t1 = t1
    t2 = t2
    f1 = f1
    NoTask = NoTask
    Requests <- OneRequest
    Threads <- TwoThreads
    Feeds <- OneFeed
    UrlsOf <- AllFeeds
    MaxFaults = 2
SPECIFICATION FairSpec
PROPERTY RequestsFinish
CHECK_DEADLOCK FALSE
