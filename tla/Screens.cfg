\* Each page alone, with the calls, polls and colleagues that overtake it.
SPECIFICATION MCScreensSpec
CONSTANTS
    Parts = {"trace", "letter", "remap", "inbox", "dialog", "admin", "org", "rules", "ask", "quote"}
    TraceNodes <- MCTraceNodes
    OwnExits = {"extract", "match"}
    MaxTraceRuns = 2
    MaxLostEvents = 1
    MaxOnWire = 2
    Writers = {w1, w2}
    Texts = {"a", "b"}
    MaxClarifyCalls = 3
    RemapLines = {"l1", "l2"}
    RemapPrices = {1, 3}
    Ranked <- MCRanked
    Searches <- MCSearches
    MaxRemaps = 2
    InboxFiles = {"good", "bad"}
    GoodFiles = {"good"}
    MaxPosts = 2
    MaxDialogCalls = 3
    TabsOf <- MCTabsOf
    Takes <- MCTakes
    PatchBodies <- MCPatchBodies
    MaxSaves = 2
    Null = Null
    SeededOrgs = {"avac", "caix"}
    DefaultOrg = "avac"
    NewOrg = "new"
    MaxOrgCalls = 4
    Readers = {r1, r2}
    PolicyOf <- MCPolicyOf
    PricingOf <- MCPricingOf
    RuleOrder <- MCRuleOrder
    MaxRuleEdits = 1
    MaxRuleCalls = 3
    Questions = {"", "q1", "q2"}
    AgentMaxSteps = 3
    MaxTurnCalls = 2
    MaxQuestions = 2
    Emails = {TRUE}
    MaxPricings = 2
    MaxQuoteCalls = 1
VIEW PartView
CHECK_DEADLOCK FALSE
INVARIANTS
    TraceTellsTruth
    AnswersFitWhatWasAsked
    RuleStaysValid
PROPERTIES
    SentIsFinal
    ScreensMoveForward
