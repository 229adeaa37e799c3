\* Two calls and a pool of three or five; a product and its job; two screens and
\* one cached explanation; two tasks of the LLM.
SPECIFICATION ServicesSpec
CONSTANTS
    Parts = {"http", "catalog", "copilot", "llm"}
    HttpCalls = {c1, c2}
    PoolSizes = {3, 5}
    Files = 1
    MaxDbFaults = 1
    Wordings = {"a", "b"}
    Editors = {"e1"}
    MaxCatalogEdits = 3
    MaxEmbedAttempts = 2
    MaxEmbedFaults = 2
    Askers = {a1, a2}
    FullTtl = 2
    ShortTtl = 1
    MaxChanges = 2
    MaxAsks = 2
    DemoCorpus <- MCDemoCorpus
    SourceTexts <- MCSourceTexts
    ExtractAttempts = 2
    LlmMaxRetries = 2
    MaxLlmTasks = 2
CHECK_DEADLOCK FALSE
INVARIANTS
    CommitFollowsAnswer
PROPERTIES
    NothingHangs
    PendingIsEmbedded
    StaleExplanationExpires
