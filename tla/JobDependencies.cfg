\* Two rows, of which one may depend on, retry or follow the other, or on no row;
\* the second always fails.
SPECIFICATION Spec
CONSTANTS
    Jobs = {j1, j2}
    Strangers = {u}
    Workers = {w1}
    Failing = {j2}
    Cancellable = {}
    Recurring = {j1}
    NoJob = NoJob
    MaxAttempts = 1
    MaxStalled = 0
    MaxTrouble = 1
INVARIANTS
    DependenciesFirst
