\* Three goroutines, two places in the semaphore.
CONSTANTS
    u1 = u1
    u2 = u2
    a = a
    NoLink = NoLink
    Urls <- TwoUrls
    FeedOf <- Feeds
    UrlList <- List
    Limit = 2
SPECIFICATION FairSpec
INVARIANTS
    TypeOK
    ChannelAndLimitAreSafe
    ReturnsAnOutcome
    NewestFirst
PROPERTIES
    ReturnsWhenCancelled
    ReturnsWhenAnswered
CHECK_DEADLOCK FALSE
