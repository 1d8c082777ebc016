SPECIFICATION FairSpec
CONSTANTS
    Clients = {c1, c2}
    Workers = {w1}
    Stories = {1}
    Langs = {"en", "fr"}
    Queries <- MCQueries
    SlugOf <- MCSlugOf
    Matches <- MCMatches
    Requests <- SettleRequests
INVARIANT
    SummariesOnly
PROPERTY
    CachesSettle
