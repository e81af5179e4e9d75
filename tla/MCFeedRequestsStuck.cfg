\* Nothing fails, and the request stays in processing.
CONSTANTS
    r1 = r1
    r2 = r2
    t1 = t1
    t2 = t2
    f1 = f1
    NoTask = NoTask
    Requests <- OneRequest
    Threads <- OneThread
    Feeds <- OneFeed
    UrlsOf <- AllFeeds
    MaxFaults = 0
SPECIFICATION FairSpec
PROPERTY EveryRequestFinishes
CHECK_DEADLOCK FALSE
