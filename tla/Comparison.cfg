CONSTANTS
    coll = coll
    image = image
    Primary = Primary
    Secondary = Secondary
    Panes = {Primary, Secondary}
    Datasets = {coll, image}
    NoDataset = NoDataset
    Collections = {coll}
    LastStep = 1
    Files <- MCFiles
    Surfaces <- MCSurfaces
    NoFile = NoFile
    Unmounted = Unmounted
    NoCamera = NoCamera
    Turned = Turned
    Tools = {"probe", "distance"}
    MaxContexts = 2
    MaxScenes = 3
    MaxClicks = 1
    Uses <- MCUses
SPECIFICATION Spec
CHECK_DEADLOCK FALSE
INVARIANTS
    PanesOfScenes
    NoPaneRefused
PROPERTIES
    ComparedPanes
    ProbeAnswersLastClick
    ScenesReport
