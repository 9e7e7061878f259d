SPECIFICATION FairSpec
CONSTANTS
    Jobs = {j1}
    Workers = {w1}
    NoJob = NoJob
    NoWorker = NoWorker
    MaxRetries = 0
    MaxCancels = 1
    MaxAbandons = 0
    MaxDeaths = 1
    MaxFaults = 0
CHECK_DEADLOCK FALSE
PROPERTIES
    ReservationEnds
