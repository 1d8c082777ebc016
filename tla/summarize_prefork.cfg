SPECIFICATION Spec
CONSTANTS
    a1 = a1
    a2 = a2
    a3 = a3
    Articles = {a1, a3}
    Workers = {w1, w2}
    Titles <- MCTitles
    Keys <- MCKeys
    TitleOf <- MCTitleOf
    KeyOf <- MCKeyOf
    Words <- MCWords
    Fetched <- MCFetched
    Alike <- MCAlike
    SemAlike <- MCSemAlike
    BreakingNews = {a1}
    Poison = {}
    FlagChoices <- PreforkFlags
    Provider = "bedrock"
    BatchLimit = 100
    MaxDay = 0
    MaxOrphans = 0
    NoArticle = NoArticle
    NoText = NoText
SYMMETRY WorkerSymmetry
INVARIANTS
    BudgetOvershootBounded
    Grounded
    StaleListsExplained
PROPERTY
    NothingWithdrawn
