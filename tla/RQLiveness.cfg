SPECIFICATION FairSpec
CONSTANTS
    Jobs = {j1}
    Workers = {w1}
    Servers = {api}
    NoWorker = NoWorker
    NoRow = NoRow
    NoJob = NoJob
    Dialect = "postgresql"
    MaxRetries = 1
    MaxStarts = 0
    MaxFaults = 1
PROPERTIES
    JobSettles
    OutboxDrains
