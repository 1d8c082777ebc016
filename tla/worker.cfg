SPECIFICATION FairSpec
CONSTANTS
    Workers = {w1}
    Messages = {m1, m2}
    NoMessage = NoMessage
    Sent = {"fetch", "summarize", "cleanup"}
    MaxBatch = 2
    MaxDeaths = 1
INVARIANTS
    TypeOK
    HealsWithin
    OneArticleStale
PROPERTY
    Settles
