\* An earlier request and one submission, two broadcasts, one loss of the connection.
CONSTANTS
    f1 = f1
    f2 = f2
    f3 = f3
    NoUrl = NoUrl
    Feeds <- TwoFeeds
    ItemsOf <- SampleItems
    Typed <- JustF1
    EarlierUrls <- JustF2
    Loads <- JustMount
    MaxRequests = 2
    MaxFields = 2
    MaxTells = 2
    MaxDrops = 1
SPECIFICATION FairSpec
INVARIANTS
    TypeOK
    MissingHasReason
    LiveMatchesReload
    StuckRowHasReason
PROPERTY RowsSettle
CHECK_DEADLOCK FALSE
