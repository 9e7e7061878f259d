SPECIFICATION Spec
CONSTANTS
    Jobs = {j1}
    Workers = {w1}
    Servers = {api}
    NoWorker = NoWorker
    NoRow = NoRow
    NoJob = NoJob
    Dialect = "postgresql"
    MaxRetries = 0
    MaxStarts = 0
    MaxFaults = 0
PROPERTIES
    SuccessIsNotRevoked
