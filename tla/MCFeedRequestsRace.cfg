\* Two threads meet at a new feed; nothing fails.
CONSTANTS
    r1 = r1
    r2 = r2
    t1 = t1
    t2 = t2
    f1 = f1
    NoTask = NoTask
    Requests <- TwoRequests
    Threads <- TwoThreads
    Feeds <- OneFeed
    UrlsOf <- AllFeeds
    MaxFaults = 0
SPECIFICATION Spec
INVARIANT FinishedIsSaved
CHECK_DEADLOCK FALSE
