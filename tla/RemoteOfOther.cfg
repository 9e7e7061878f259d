SPECIFICATION Spec
CONSTANTS
    a = a
    b = b
    p = p
    q = q
    d1 = d1
    d2 = d2
    Bases = {a}
    NoBase = NoBase
    DevBase = a
    Environments <- ServerPage
    StoredBases = {NoBase}
    MaxAttempts = 1
    Projects = {p, q}
    NoProject = NoProject
    Datasets = {d1, d2}
    LocalDatasets = {}
    NoDataset = NoDataset
    BaseOf <- MCBaseOf
    ProjectOf <- MCProjectOf
    MaxCalls = 2
    Kinds = {"export"}
    Handlers = {"remote"}
    DeepLink <- NoLink
CHECK_DEADLOCK FALSE
INVARIANTS
    RemoteOfSelection
