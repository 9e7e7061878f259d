SPECIFICATION Spec
CONSTANTS
    a = a
    b = b
    p = p
    q = q
    d1 = d1
    d2 = d2
    Bases = {a}
    NoBase = NoBase
    DevBase = a
    Environments <- StaticPage
    StoredBases = {NoBase}
    MaxAttempts = 1
    Projects = {p, q}
    NoProject = NoProject
    Datasets = {d1, d2}
    LocalDatasets = {}
    NoDataset = NoDataset
    BaseOf <- MCBaseOf
    ProjectOf <- MCProjectOf
    MaxCalls = 2
    Kinds = {"export"}
    Handlers = {"jobs", "artifacts", "members", "pipelines", "upload"}
    DeepLink <- PipelineLink
CHECK_DEADLOCK FALSE
INVARIANTS
    PendingHasHandler
    ArtifactsOfSelection
PROPERTIES
    LatestChoiceWins
