\* One job, two workers, retries, crashes, lost locks and a cancellation.
SPECIFICATION FairSpec
CONSTANTS
    Jobs = {j1}
    Strangers = {}
    Workers = {w1, w2}
    Failing = {}
    Cancellable = {j1}
    Recurring = {j1}
    NoJob = NoJob
    MaxAttempts = 2
    MaxStalled = 1
    MaxTrouble = 1
INVARIANTS
    SoleDispatch
    FailedIsVisible
    SeriesNotForked
PROPERTIES
    JobsResolve
