CONSTANTS
    aVtu = aVtu
    bVtu = bVtu
    hiddenVtu = hiddenVtu
    cVti = cVti
    tCsv = tCsv
    eCsv = eCsv
    mExo = mExo
    nTxt = nTxt
    runPvd = runPvd
    twoPvd = twoPvd
    upPvd = upPvd
    badPvd = badPvd
    x = x
    y = y
    old = old
    new = new
    data = data
    Extents <- MCExtents
    Meshes <- MCMeshes
    Arrays <- MCArrays
    MaxSourcePoints = 30
    MaxPieces = 2
    Documents <- MCDocuments
    BlockSize = 4
    Formats = {"ascii", "binary", "appended"}
    Types = {"UInt8", "Int16", "Float64"}
    Tuples = {0, 1, 2, 4}
    MaxArrays = 2
    Failed = Failed
    Segments <- MCSegments
    Selections <- MCSelections
    Hidden = {hiddenVtu}
    EmptyTables = {eCsv}
    FormatOf <- MCFormatOf
    StepsOf <- MCStepsOf
    NoTime = NoTime
    NotACollection = NotACollection
    MaxSources = 2
    MaxUrls = 5
    heat = heat
    rust = rust
    moss = moss
    sand = sand
    dusk = dusk
    viridis = viridis
    Viewers = {view}
    BuiltIn = {viridis}
    Customs = {heat, rust, moss, sand, dusk}
    NoMap = NoMap
    MaxMaps = 4
    MaxStops = 3
    Limit = 1
    Presets <- MCPresets
    SavedViews <- MCSavedViews
    one = one
    two = two
    word = word
    speed = speed
    depth = depth
    wind = wind
    flow = flow
    Quote = Quote
    Comma = Comma
    Newline = Newline
    Return = Return
    EndOfText = EndOfText
    NaN = NaN
    NoVectors = NoVectors
    Numbers = {one, two}
    Words = {word, speed, depth}
    Headers <- MCHeaders
    DataRows <- MCDataRows
    SampleBytes = 14
    SampleRows = 1
    TableLimits = {1, 2}
    MaxRows = 3
    VectorArrays = {wind, flow}
    ValidPoints <- MCValidPoints
    PointLimits = {1, 2, 3, 5}
    Scales = {1, 2}
SPECIFICATION Spec
CHECK_DEADLOCK FALSE
INVARIANTS
    ValuesFollow
    BoundaryOfSolids
    ReadAsWritten
    LocalStepsPlay
    TableIsDrawn
    ArrowsOfArray
PROPERTIES
    RegistryServesScreen
