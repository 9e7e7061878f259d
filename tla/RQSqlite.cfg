SPECIFICATION Spec
CONSTANTS
    Jobs = {j1}
    Workers = {w1, w2}
    Servers = {api}
    NoWorker = NoWorker
    NoRow = NoRow
    NoJob = NoJob
    Dialect = "sqlite"
    MaxRetries = 1
    MaxStarts = 1
    MaxFaults = 1
SYMMETRY WorkerSymmetry
INVARIANTS
    JobsOwnTheirObjects
PROPERTIES
    ImplementsLifecycle
    ObjectOfLiveJobIsKept
