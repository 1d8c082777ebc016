SPECIFICATION Spec
CONSTANTS
    a1 = a1
    a2 = a2
    a3 = a3
    Articles = {a1, a2, a3}
    Workers = {w1}
    Titles <- MCTitles
    Keys <- MCKeys
    TitleOf <- MCTitleOf
    KeyOf <- MCKeyOf
    Words <- MCWords
    Fetched <- MCFetched
    Alike <- MCAlike
    SemAlike <- MCSemAlike
    BreakingNews = {a1}
    Poison = {}
    FlagChoices <- SoloFlags
    Provider = "groq"
    BatchLimit = 2
    MaxDay = 1
    MaxOrphans = 1
    NoArticle = NoArticle
    NoText = NoText
INVARIANTS
    TypeOK
    PaidOnce
    Grounded
    StaleListsExplained
PROPERTY
    LedgerSpec
