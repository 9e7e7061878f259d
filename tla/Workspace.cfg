SPECIFICATION Spec
CONSTANTS
    a = a
    b = b
    p = p
    q = q
    d1 = d1
    d2 = d2
    Bases = {a, b}
    NoBase = NoBase
    DevBase = a
    Environments <- ServerPage
    StoredBases = {NoBase}
    MaxAttempts = 2
    Projects = {p, q}
    NoProject = NoProject
    Datasets = {d1}
    LocalDatasets = {l1}
    NoDataset = NoDataset
    BaseOf <- MCBaseOf
    ProjectOf <- MCProjectOf
    MaxCalls = 2
    Kinds = {"export"}
    Handlers = {"local", "edit", "mistype", "remote", "create"}
    DeepLink <- NoLink
CHECK_DEADLOCK FALSE
INVARIANTS
    ConnectionSettles
    PageOfProject
    RemoteOfProject
