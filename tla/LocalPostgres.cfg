SPECIFICATION FairSpec
CONSTANTS
    Jobs = {j1}
    Workers = {t1}
    Servers = {api}
    NoWorker = NoWorker
    NoRow = NoRow
    NoJob = NoJob
    Dialect = "postgresql"
    MaxFaults = 2
PROPERTIES
    RefusalIsHonest
    JobSettles
