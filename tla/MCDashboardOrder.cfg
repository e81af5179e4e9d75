\* A feed with an undated item is submitted.
CONSTANTS
    f1 = f1
    f2 = f2
    f3 = f3
    NoUrl = NoUrl
    Feeds <- ThreeFeeds
    ItemsOf <- SampleItems
    Typed <- JustF3
    EarlierUrls <- JustF2
    Loads <- BothLoads
    MaxRequests = 2
    MaxFields = 1
    MaxTells = 2
    MaxDrops = 1
SPECIFICATION Spec
INVARIANT NewestFirst
CHECK_DEADLOCK FALSE
