SPECIFICATION FairSpec
CONSTANTS
    Workers = {w1, w2}
    Items <- MCItems
    Urls <- MCUrls
    Hashes <- MCHashes
    UrlOf <- MCUrlOf
    HashOf <- MCHashOf
    Feeds <- MCFeeds
    FeedLimit = 2
    Rounds <- MCRounds
INVARIANTS
    TypeOK
    OncePerWorker
    NothingSkipped
    LogsNeverOverstate
    AnnouncedOrExcused
    TroubleStaysLocal
PROPERTY
    RunsEnd
