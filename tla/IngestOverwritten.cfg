SPECIFICATION Spec
CONSTANTS
    Jobs = {j1, j2}
    Workers = {w1, w2}
    NoJob = NoJob
    NoWorker = NoWorker
    MaxRetries = 0
    MaxCancels = 1
    MaxAbandons = 0
    MaxDeaths = 0
    MaxFaults = 0
CHECK_DEADLOCK FALSE
PROPERTIES
    ReadyIsNotOverwritten
