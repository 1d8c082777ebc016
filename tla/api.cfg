SPECIFICATION FairApiSpec
CONSTANTS
    Admins = {a1, a2}
    Flags <- MCFlags
    Values = {0, 1}
    Defaults <- MCDefaults
    Clients = {c1, c2}
    First = First
    MaxAttempts = 2
    MaxInFlight = 2
    MaxDeaths = 1
INVARIANTS
    TypeOK
    SubscribersOK
    AnswersHold
    OnlyCrossedAreStale
PROPERTIES
    OnlyOverlapReverts
    ComesBack
