------------------------------ MODULE MCFormats ------------------------------
(* What the viewer makes of files, one topic at a time: surfaces of one and*)
(* two pieces, data arrays, files that are opened from disk, colour maps,  *)
(* tables, and the arrows of vector arrays.                                *)
EXTENDS Surfaces, DataArrays, LocalFiles, Palette, Tables, VectorGlyphs, TLC

CONSTANTS aVtu, bVtu, hiddenVtu, cVti, tCsv, eCsv, mExo, nTxt,
          runPvd, twoPvd, upPvd, badPvd, x, y, old, new, data,
          heat, rust, moss, sand, dusk, viridis,
          one, two, word, speed, depth, wind, flow

VARIABLE topic

-----------------------------------------------------------------------------
(* Surfaces: a point, lines, sheets, slabs and solids; two of a kind share *)
(* faces, so that cells of different types meet.                           *)
MCExtents ==
    {<<1, 1, 1>>, <<1, 3, 1>>, <<2, 3, 1>>, <<2, 1, 2>>, <<2, 2, 2>>, <<3, 2, 2>>, <<2, 2, 3>>, <<3, 3, 3>>}
MCArrays == {<<>>, "T" :> 1, "T" :> 2}

CellOf(type, points) == [type |-> type, points |-> points]
Left == CellOf(Hexahedron, <<0, 1, 4, 3, 6, 7, 10, 9>>)
Right == CellOf(Hexahedron, <<1, 2, 5, 4, 7, 8, 11, 10>>)
RightFront == CellOf(Wedge, <<1, 5, 2, 7, 11, 8>>)
RightBack == CellOf(Wedge, <<1, 4, 5, 7, 10, 11>>)
Roof == CellOf(Pyramid, <<6, 7, 10, 9, 12>>)
Eave == CellOf(Tetra, <<7, 6, 13, 12>>)
Flat == CellOf(5, <<0, 1, 3>>)
Tile == CellOf(Pixel, <<0, 1, 3, 4>>)
Edge == CellOf(3, <<0, 1>>)
Dots == CellOf(2, <<2, 5, 8>>)
Voxel == CellOf(11, <<0, 1, 3, 4, 6, 7, 9, 10>>)
MCMeshes ==
    {[points |-> 14, cells |-> cells] : cells \in
        {<<>>, <<Left, RightFront, RightBack>>, <<RightBack, Left, Roof>>, <<Eave, Right, Roof, Left>>,
         <<Edge, Left, Flat, Dots>>, <<Tile, Dots, Edge, Flat>>, <<Left, Voxel>>}}

-----------------------------------------------------------------------------
(* Data arrays: blocks of four bytes, so that arrays have none, one that   *)
(* is short, one that is full, and several.                                *)
Doc(headerType, compressor, appendedData, byteOrder) ==
    [headerType |-> headerType, compressor |-> compressor,
     appendedData |-> appendedData, byteOrder |-> byteOrder]
MCDocuments ==
    {Doc(headerType, compressor, appendedData, "LittleEndian") :
        headerType \in {"UInt32", "UInt64"}, compressor \in {"", "vtkZLibDataCompressor"},
        appendedData \in {"none", "raw"}}
    \union {Doc("UInt32", "", "none", "BigEndian"), Doc("UInt64", "", "base64", "LittleEndian"),
            Doc("UInt32", "vtkLZ4DataCompressor", "raw", "LittleEndian")}

-----------------------------------------------------------------------------
(* Files: collections in a directory, with steps out of order, without     *)
(* times, above their directory, and with names that two files have.       *)
At(time, file) == [time |-> time, file |-> file]
MCFormatOf ==
    [name \in {aVtu, bVtu, hiddenVtu} |-> ".vtu"] @@ cVti :> ".vti"
    @@ [name \in {tCsv, eCsv} |-> ".csv"] @@ mExo :> ".exo" @@ nTxt :> ".txt"
    @@ [name \in {runPvd, twoPvd, upPvd, badPvd} |-> ".pvd"]
MCStepsOf ==
    runPvd :> <<At(2, <<bVtu>>), At(1, <<aVtu>>), At(2, <<aVtu>>)>>
    @@ twoPvd :> <<At(NoTime, <<data, aVtu>>), At(NoTime, <<data, bVtu>>), At(1, <<cVti>>)>>
    @@ upPvd :> <<At(5, <<"..", old, aVtu>>), At(3, <<mExo>>)>>
    @@ badPvd :> NotACollection
MCSegments == DOMAIN MCFormatOf \union {x, y, old, new, data, ".."}
MCSelections ==
    {<<>>, <<<<aVtu>>>>, <<<<hiddenVtu>>>>, <<<<eCsv>>>>, <<<<tCsv>>>>, <<<<nTxt>>>>, <<<<mExo>>>>,
     <<<<aVtu>>, <<bVtu>>>>, <<<<badPvd>>, <<aVtu>>>>,
     <<<<runPvd>>, <<bVtu>>, <<aVtu>>>>, <<<<runPvd>>, <<bVtu>>>>,
     <<<<x, runPvd>>, <<x, old, aVtu>>, <<x, aVtu>>, <<x, old, bVtu>>>>,
     <<<<x, runPvd>>, <<x, old, aVtu>>, <<x, new, aVtu>>, <<x, bVtu>>>>,
     <<<<x, twoPvd>>, <<x, old, aVtu>>, <<x, data, aVtu>>, <<x, data, bVtu>>>>,
     <<<<x, twoPvd>>, <<x, data, aVtu>>, <<cVti>>>>,
     <<<<x, y, upPvd>>, <<x, old, aVtu>>, <<x, mExo>>>>}

-----------------------------------------------------------------------------
(* Colour maps: five custom maps and room for four. Dusk is only known from*)
(* saved views, two of which disagree about it; heat is saved without its  *)
(* stops, and rust with other ones than its preset has, once in a pipeline *)
(* that has no reader.                                                     *)
Preset(id, indexed, scalars) == [id |-> id, named |-> TRUE, indexed |-> indexed, scalars |-> scalars]
View(map, embedded, stops, fields, reader) ==
    [map |-> map, embedded |-> embedded, embeddedId |-> map, stops |-> stops, fields |-> fields,
     reader |-> reader]
TwoStops == <<<<0, 1>>, <<1, 1>>>>
ThreeStops == <<<<0, 2>>, <<1, 2>>, <<2, 2>>>>

MCPresets ==
    {Preset(heat, FALSE, <<3, 1>>), Preset(rust, TRUE, <<7, 7, 7>>), Preset(moss, FALSE, <<2, 5, 4>>),
     Preset(sand, TRUE, <<1, 2>>), Preset(sand, FALSE, <<1, 1>>)}
MCSavedViews ==
    {View(heat, FALSE, <<>>, TRUE, TRUE), View(dusk, TRUE, TwoStops, TRUE, TRUE),
     View(dusk, TRUE, ThreeStops, TRUE, TRUE), View(dusk, TRUE, TwoStops, FALSE, TRUE),
     View(rust, TRUE, TwoStops, TRUE, FALSE), View(rust, TRUE, TwoStops, TRUE, TRUE),
     View(viridis, FALSE, <<>>, TRUE, TRUE)}

-----------------------------------------------------------------------------
(* Tables: names that two columns have, that are empty or hold a comma,    *)
(* rows that are short, blank or say the same of two columns, numbers on   *)
(* the second line of a cell, and a limit that cuts the first or second.   *)
MCHeaders ==
    {<<<<speed>>, <<depth>>, <<word>>>>, <<<<speed>>, <<depth>>, <<speed>>>>,
     <<<<speed, Comma>>, <<depth>>, <<word>>>>, <<<<>>, <<depth>>, <<word>>>>}
MCDataRows ==
    {<<first, second, third>> : first \in {<<one>>, <<word, Comma>>},
                                second \in {<<two>>, <<Newline, two>>, <<Quote, two>>},
                                third \in {<<>>, <<one>>, <<two>>}}
    \union {<<<<>>>>, <<<<one>>>>, <<<<one>>, <<two>>>>, <<<<>>, <<>>, <<>>>>, <<<<two>>, <<one>>, <<one>>, <<two>>>>}

(* Arrows: some of six points have a vector, less than the limit or more.  *)
MCValidPoints == {{}, {3}, {0, 5}, {1, 2, 4}, {0, 1, 3, 4}, {0, 1, 2, 3, 5}, 0..5}

-----------------------------------------------------------------------------
Init ==
    /\ topic \in {"surfaces", "arrays", "files", "colors", "tables", "glyphs"}
    /\ SurfaceInit /\ ArraysInit /\ LocalInit /\ PaletteInit /\ TablesInit /\ GlyphsInit
    /\ topic # "surfaces" => fileType = "grid"
    /\ topic # "arrays" => document = Doc("UInt32", "", "none", "LittleEndian")
    /\ topic # "tables" => lineEnd = <<Newline>>
    /\ topic # "glyphs" => limit = 2 /\ valid = [array \in VectorArrays |-> {}]

Next ==
    /\ UNCHANGED topic
    /\ \/ topic = "surfaces" /\ SurfaceNext
             /\ UNCHANGED <<arrayVars, localVars, paletteVars, tableVars, glyphVars>>
       \/ topic = "arrays" /\ ArraysNext
             /\ UNCHANGED <<surfaceVars, localVars, paletteVars, tableVars, glyphVars>>
       \/ topic = "files" /\ LocalNext
             /\ UNCHANGED <<surfaceVars, arrayVars, paletteVars, tableVars, glyphVars>>
       \/ topic = "colors" /\ PaletteNext
             /\ UNCHANGED <<surfaceVars, arrayVars, localVars, tableVars, glyphVars>>
       \/ topic = "tables" /\ TablesNext
             /\ UNCHANGED <<surfaceVars, arrayVars, localVars, paletteVars, glyphVars>>
       \/ topic = "glyphs" /\ GlyphsNext
             /\ UNCHANGED <<surfaceVars, arrayVars, localVars, paletteVars, tableVars>>

vars == <<topic, surfaceVars, arrayVars, localVars, paletteVars, tableVars, glyphVars>>

Spec == Init /\ [][Next]_vars
=============================================================================
