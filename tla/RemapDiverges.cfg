\* Two estimators re-map two lines that nothing has matched; no run, no edit.
SPECIFICATION MCSpec
CONSTANTS
    Null = Null
    Malformed = Malformed
    Invalid = Invalid
    l1 = l1
    l2 = l2
    a = a
    b = b
    u1 = u1
    u2 = u2
    Brick = Brick
    Parts = {"lines"}
    Lines = {l1, l2}
    Skus = {a, b}
    Users = {u1, u2}
    Candidates <- MCCandidates
    Cost <- MCCost
    Currency <- MCCurrency
    InitialPrices <- MCInitialPrices
    BasePrices = {100, 90}
    RuleSets <- MCRuleSets
    Thresholds <- MCThresholds
    InitialLines <- MCInitialLines
    Quantities = {}
    ManualPrices = {}
    Budgets <- MCRemapsOnly
    Questions <- MCQuestions
    K = 60
    MatchThreshold = 70
    AutoThreshold = 95
    CloseTieMargin = 5
CHECK_DEADLOCK FALSE
INVARIANTS
    RemapsNeverDiverge
