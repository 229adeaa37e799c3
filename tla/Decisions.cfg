\* Two estimators, runs and a price edit, one after the other or overlapping; every
\* calculation over its cases.
SPECIFICATION MCSpec
CONSTANTS
    Null = Null
    Malformed = Malformed
    Invalid = Invalid
    l1 = l1
    l2 = l2
    a = a
    b = b
    u1 = u1
    u2 = u2
    Brick = Brick
    Parts = {"lines", "calc"}
    Lines = {l1, l2}
    Skus = {a, b}
    Users = {u1, u2}
    Candidates <- MCCandidates
    Cost <- MCCost
    Currency <- MCCurrency
    InitialPrices <- MCInitialPrices
    BasePrices = {100, 90}
    RuleSets <- MCRuleSets
    Thresholds <- MCThresholds
    InitialLines <- MCInitialLines
    Quantities = {0}
    ManualPrices = {70}
    Budgets <- MCBudgets
    Questions <- MCQuestions
    K = 60
    MatchThreshold = 70
    AutoThreshold = 95
    CloseTieMargin = 5
SYMMETRY MCUsersAlike
CHECK_DEADLOCK FALSE
INVARIANTS
    QuoteMatchesLines
    EngineQuotesAreWhole
    FusionRespectsBothLists
    RoutingIsExplained
    FiguresHold
PROPERTIES
    ManualPriceKept
    AutoEligibleIsSound
