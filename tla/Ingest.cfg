SPECIFICATION EitherSpec
CONSTANTS
    Jobs = {j1, j2, j3}
    Workers = {w1, w2}
    NoJob = NoJob
    NoWorker = NoWorker
    MaxRetries = 1
    MaxCancels = 2
    MaxAbandons = 1
    MaxDeaths = 2
    MaxFaults = 2
CHECK_DEADLOCK FALSE
INVARIANTS
    ReservationHasOwner
    IngestsExclude
PROPERTIES
    ReadyIsKept
    ReservationEnds
