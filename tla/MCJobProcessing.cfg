\* Two jobs that share a feed and a link, one failure of any kind.
CONSTANTS
    j1 = j1
    j2 = j2
    w1 = w1
    w2 = w2
    u1 = u1
    u2 = u2
    a = a
    b = b
    NoLink = NoLink
    Nothing = Nothing
    Urls <- TwoUrls
    FeedOf <- Feeds
    Jobs <- TwoJobs
    Posted <- OnlyJ2
    Workers <- TwoWorkers
    UrlsOf <- Lists
    MaxRetries = 1
    MaxFaults = 1
SYMMETRY WorkerSymmetry
SPECIFICATION Spec
INVARIANTS
    TypeOK
    CacheHoldsOwnItems
    ResultsAccountForUrls
    StuckPollHasReason
    PollShowsResult
CHECK_DEADLOCK FALSE
