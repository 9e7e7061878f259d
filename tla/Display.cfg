CONSTANTS
    c = c
    i = i
    cv = cv
    iv = iv
    plain = plain
    wire = wire
    Datasets <- MCDatasets
    NoDataset = NoDataset
    Collections <- MCCollections
    Images <- MCImages
    Looks = {plain, wire}
    FirstLook = plain
    Views <- MCViews
    FirstView <- MCFirstView
    Blank = Blank
    LastStep = 1
    Pipelines <- MCPipelines
    Limit = 2
SPECIFICATION Spec
CHECK_DEADLOCK FALSE
INVARIANTS
    HistoryFollows
PROPERTIES
    EditsAreEntries
    NoFrameSkipped
    PlaybackGoesOn
