\* Crashes, failed enqueues, thrown errors, sweeps and manual resumes; every
\* enqueue uses the stable jobId. Settled and idle is a legal end.
SPECIFICATION FairSpec
CONSTANTS
    Workers = {w1, w2}
    KeyedJob = keyed
    PasteJobs = {}
    Decliners = {}
    Registered <- AllNodes
    MaxStalled = 1
    MaxCrashes = 2
    MaxFaults = 1
    MaxLockLosses = 0
    MaxRemaps = 1
INVARIANTS
    TypeOK
    RunFindsRow
    SoleRun
    NodeAtItsCheckpoint
    VerdictMatchesCheckpoint
PROPERTIES
    CheckpointForward
    ValidExtractionKept
    ParsingResolved
    ImplementsResumableGraph
CHECK_DEADLOCK FALSE
