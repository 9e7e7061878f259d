------------------------------- MODULE Surfaces -------------------------------
(***************************************************************************)
(* What the browser draws of a VTS, VTR or VTU file: structuredGrid.ts and *)
(* vtu.ts reduce each Piece of the file to vertices, lines and polygons,   *)
(* and append the pieces, with the values of their points and cells, to    *)
(* one vtkPolyData (scenes.ts). Points and cells are numbered from 0.      *)
(*                                                                         *)
(* A value is known by where it was read: <<piece, tuple, component>>. The *)
(* order in which the faces of one piece are emitted is left open (Listed):*)
(* what matters is that a face and its cell are at the same place.         *)
(***************************************************************************)
EXTENDS Integers, Sequences, FiniteSets, SequencesExt, FiniteSetsExt

CONSTANTS
    Extents,            \* the dimensions that a structured piece may have
    Meshes,             \* what an unstructured piece may have: [points, cells]
    Arrays,             \* the arrays of a piece: NumberOfComponents by name
    MaxSourcePoints,    \* MAX_STRUCTURED_SOURCE_POINTS
    MaxPieces           \* bound: the pieces of a file

ASSUME SurfacesAssumption ==
    /\ Extents \subseteq [1..3 -> Nat \ {0}]
    /\ \A arrays \in Arrays : \A name \in DOMAIN arrays : arrays[name] \in Nat \ {0}
    /\ MaxSourcePoints \in Nat /\ MaxPieces \in Nat

VARIABLES
    fileType,       \* "grid" for VTS and VTR, "mesh" for VTU
    pieces,         \* the pieces read so far
    rejected        \* the parser has thrown

surfaceVars == <<fileType, pieces, rejected>>

Total(numbers) == FoldSeq(LAMBDA a, b : a + b, 0, numbers)
Listed(set) == FoldSet(LAMBDA x, listed : Append(listed, x), <<>>, set)

-----------------------------------------------------------------------------
(* The topology of a structured piece *)

Axes == 1..3
After(axis) == (axis % 3) + 1
Before(axis) == ((axis + 1) % 3) + 1

PointCount(dims) == dims[1] * dims[2] * dims[3]
CellDims(dims) == [a \in Axes |-> IF dims[a] > 1 THEN dims[a] - 1 ELSE 1]
CellCount(dims) == PointCount(CellDims(dims))
IdIn(dims, index) == (index[3] * dims[2] + index[2]) * dims[1] + index[1]
Indexes(dims) == {<<i, j, k>> : i \in 0..dims[1] - 1, j \in 0..dims[2] - 1, k \in 0..dims[3] - 1}

Plus(index, axis) == [index EXCEPT ![axis] = @ + 1]
Quad(base, first, second) ==
    <<base, Plus(base, first), Plus(Plus(base, first), second), Plus(base, second)>>

Primitive(dims, corners, cell) ==
    [ids |-> [n \in DOMAIN corners |-> IdIn(dims, corners[n])], cell |-> IdIn(CellDims(dims), cell)]

\* The six boundary planes, wound so that their normals point outwards.
BoundaryUnwound(dims) ==
    LET cells == Indexes(CellDims(dims)) IN
    UNION {{Primitive(dims, Quad(c, Before(a), After(a)), c) : c \in {x \in cells : x[a] = 0}}
           \union {Primitive(dims, Quad(Plus(c, a), Before(a), After(a)), c) :
                   c \in {x \in cells : x[a] = dims[a] - 2}} : a \in Axes}
Boundary(dims) ==
    LET cells == Indexes(CellDims(dims)) IN
    UNION {{Primitive(dims, Quad(c, Before(a), After(a)), c) : c \in {x \in cells : x[a] = 0}}
           \union {Primitive(dims, Quad(Plus(c, a), After(a), Before(a)), c) :
                   c \in {x \in cells : x[a] = dims[a] - 2}} : a \in Axes}

ActiveAxes(dims) == {a \in Axes : dims[a] > 1}
GridVerts(dims) ==
    IF ActiveAxes(dims) = {} THEN {Primitive(dims, <<<<0, 0, 0>>>>, <<0, 0, 0>>)} ELSE {}
GridLines(dims) ==
    {Primitive(dims, <<c, Plus(c, a)>>, c) :
        c \in Indexes(CellDims(dims)),
        a \in IF Cardinality(ActiveAxes(dims)) = 1 THEN ActiveAxes(dims) ELSE {}}
GridPolys(dims) ==
    CASE Cardinality(ActiveAxes(dims)) = 3 -> Boundary(dims)
      [] Cardinality(ActiveAxes(dims)) = 2 ->
            {Primitive(dims, Quad(c, ab[1], ab[2]), c) : c \in Indexes(CellDims(dims)),
                ab \in {x \in ActiveAxes(dims) \X ActiveAxes(dims) : x[1] < x[2]}}
      [] OTHER -> {}

-----------------------------------------------------------------------------
(* The external faces of an unstructured piece *)

Tetra == 10
Hexahedron == 12
Wedge == 13
Pyramid == 14
Pixel == 8
CellFaces ==
    [t \in {Tetra, Hexahedron, Wedge, Pyramid} |->
        CASE t = Tetra -> {<<0, 1, 3>>, <<1, 2, 3>>, <<2, 0, 3>>, <<0, 2, 1>>}
          [] t = Hexahedron -> {<<0, 4, 7, 3>>, <<1, 2, 6, 5>>, <<0, 1, 5, 4>>,
                                <<3, 7, 6, 2>>, <<0, 3, 2, 1>>, <<4, 5, 6, 7>>}
          [] t = Wedge -> {<<0, 1, 2>>, <<3, 5, 4>>, <<0, 3, 4, 1>>, <<1, 4, 5, 2>>, <<2, 5, 3, 0>>}
          [] t = Pyramid -> {<<0, 3, 2, 1>>, <<0, 1, 4>>, <<1, 2, 4>>, <<2, 3, 4>>, <<3, 0, 4>>}]
FlatTypes == {5, 7, Pixel, 9}
LineTypes == {3, 4}
VertexTypes == {1, 2}
Supported(type) == type \in DOMAIN CellFaces \union FlatTypes \union LineTypes \union VertexTypes

Corners(cell, order) == [n \in DOMAIN order |-> cell.points[order[n] + 1]]

\* The sorted ids of a face, whatever corner and direction it starts with.
FaceKey(ids) == [id \in Range(ids) |-> Cardinality({n \in DOMAIN ids : ids[n] = id})]

Faces(mesh) ==
    UNION {{[ids |-> Corners(mesh[n], face), cell |-> n - 1] : face \in CellFaces[mesh[n].type]} :
            n \in {m \in DOMAIN mesh : mesh[m].type \in DOMAIN CellFaces}}
External(mesh) ==
    {face \in Faces(mesh) : \A other \in Faces(mesh) : FaceKey(other.ids) = FaceKey(face.ids) => other = face}

MeshCells(mesh, types) == SelectSeq([n \in DOMAIN mesh |-> n], LAMBDA n : mesh[n].type \in types)
Passed(mesh, types) ==
    LET chosen == MeshCells(mesh, types) IN
    [m \in DOMAIN chosen |->
        [ids |-> IF mesh[chosen[m]].type = Pixel THEN Corners(mesh[chosen[m]], <<0, 1, 3, 2>>)
                 ELSE mesh[chosen[m]].points,
         cell |-> chosen[m] - 1]]

-----------------------------------------------------------------------------
(* One piece, and the arrays that are read with it *)

Kinds == {"verts", "lines", "polys"}

GridPiece(dims, pointArrays, cellArrays) ==
    [points |-> PointCount(dims), cells |-> CellCount(dims),
     verts |-> Listed(GridVerts(dims)), lines |-> Listed(GridLines(dims)),
     polys |-> Listed(GridPolys(dims)),
     pointArrays |-> pointArrays, cellArrays |-> cellArrays, source |-> dims]

MeshPiece(mesh, pointArrays, cellArrays) ==
    [points |-> mesh.points, cells |-> Len(mesh.cells),
     verts |-> Passed(mesh.cells, VertexTypes), lines |-> Passed(mesh.cells, LineTypes),
     polys |-> Passed(mesh.cells, FlatTypes) \o Listed(External(mesh.cells)),
     pointArrays |-> pointArrays, cellArrays |-> cellArrays, source |-> mesh]

\* The n-th piece's tuples of an array, one component after the other.
ValuesOf(n, tuples, components) ==
    [k \in 1..tuples * components |-> <<n, (k - 1) \div components, (k - 1) % components>>]

-----------------------------------------------------------------------------
(* The pieces appended to one surface *)

Preceding(n, field) == Total([m \in 1..n - 1 |-> pieces[m][field]])

Appended(kind) ==
    FlattenSeq([n \in DOMAIN pieces |->
        [m \in DOMAIN pieces[n][kind] |->
            [i \in DOMAIN pieces[n][kind][m].ids |->
                pieces[n][kind][m].ids[i] + Preceding(n, "points")]]])

\* The cell of every primitive that is drawn, in the order of vtk.js.
CellsOfKind(kind) ==
    FlattenSeq([n \in DOMAIN pieces |->
        [m \in DOMAIN pieces[n][kind] |-> [piece |-> n, cell |-> pieces[n][kind][m].cell]]])
EmittedPolysFirst == CellsOfKind("polys") \o CellsOfKind("verts") \o CellsOfKind("lines")
Emitted == CellsOfKind("verts") \o CellsOfKind("lines") \o CellsOfKind("polys")

\* VTU numbers the cells of all pieces, and looks for the piece again.
Located(cell) ==
    LET n == CHOOSE n \in DOMAIN pieces :
                /\ Preceding(n, "cells") <= cell
                /\ \A m \in n + 1..Len(pieces) : cell < Preceding(m, "cells")
    IN [piece |-> n, cell |-> cell - Preceding(n, "cells")]
SourceOf(from) ==
    IF fileType = "mesh" THEN Located(Preceding(from.piece, "cells") + from.cell) ELSE from

HasArray(n, association, name) == name \in DOMAIN pieces[n][association]
NamesIn(association) == UNION {DOMAIN pieces[n][association] : n \in DOMAIN pieces}
FirstWith(association, name) ==
    CHOOSE n \in DOMAIN pieces :
        HasArray(n, association, name) /\ \A m \in 1..n - 1 : ~HasArray(m, association, name)
ComponentsOf(association, name) == pieces[FirstWith(association, name)][association][name]

\* compatibleArrayNames of a grid; a mesh drops cell arrays that a drawn cell lacks.
Kept(association) ==
    IF fileType = "grid"
    THEN {name \in DOMAIN pieces[1][association] : \A n \in DOMAIN pieces :
            /\ HasArray(n, association, name)
            /\ pieces[n][association][name] = pieces[1][association][name]}
    ELSE {name \in NamesIn(association) : association = "cellArrays" =>
            \A m \in DOMAIN Emitted : HasArray(SourceOf(Emitted[m]).piece, association, name)}

PointValues(name) ==
    FlattenSeq([n \in DOMAIN pieces |->
        IF HasArray(n, "pointArrays", name)
        THEN ValuesOf(n, pieces[n].points, pieces[n].pointArrays[name]) ELSE <<>>])

CellValues(name) ==
    LET count == ComponentsOf("cellArrays", name)
        Value(from, component) ==
            ValuesOf(from.piece, pieces[from.piece].cells, pieces[from.piece].cellArrays[name])
                [from.cell * count + component + 1]
    IN [k \in 1..Len(Emitted) * count |->
            Value(SourceOf(Emitted[((k - 1) \div count) + 1]), (k - 1) % count)]

-----------------------------------------------------------------------------
(* Reading a file, piece by piece *)

SurfaceInit == fileType \in {"grid", "mesh"} /\ pieces = <<>> /\ rejected = FALSE

Reading == ~rejected /\ Len(pieces) < MaxPieces

ReadGridPiece(dims, pointArrays, cellArrays) ==
    /\ Reading /\ fileType = "grid"
    /\ IF Preceding(Len(pieces) + 1, "points") + PointCount(dims) > MaxSourcePoints
       THEN rejected' = TRUE /\ UNCHANGED pieces
       ELSE /\ pieces' = Append(pieces, GridPiece(dims, pointArrays, cellArrays))
            /\ UNCHANGED rejected
    /\ UNCHANGED fileType

\* The pieces of a VTU file have the same arrays, except that a piece may lack
\* cell data; the reader takes that from the files and does not look.
ReadMeshPiece(mesh, pointArrays, cellArrays) ==
    /\ Reading /\ fileType = "mesh"
    /\ \A n \in DOMAIN pieces :
        /\ pieces[n].pointArrays = pointArrays
        /\ \A name \in DOMAIN cellArrays :
            HasArray(n, "cellArrays", name) => pieces[n].cellArrays[name] = cellArrays[name]
    /\ IF \A n \in DOMAIN mesh.cells : Supported(mesh.cells[n].type)
       THEN /\ pieces' = Append(pieces, MeshPiece(mesh, pointArrays, cellArrays))
            /\ UNCHANGED rejected
       ELSE rejected' = TRUE /\ UNCHANGED pieces
    /\ UNCHANGED fileType

SurfaceNext ==
    \E pointArrays, cellArrays \in Arrays :
        \/ \E dims \in Extents : ReadGridPiece(dims, pointArrays, cellArrays)
        \/ \E mesh \in Meshes : ReadMeshPiece(mesh, pointArrays, cellArrays)

-----------------------------------------------------------------------------
(* Properties *)

Points == Preceding(Len(pieces) + 1, "points")
Rendered == Appended("verts") \o Appended("lines") \o Appended("polys")

\* The points of a cell, as the file gives them.
PointsOfCell(n, cell) ==
    IF fileType = "mesh" THEN Range(pieces[n].source.cells[cell + 1].points)
    ELSE LET dims == pieces[n].source
             at == CHOOSE index \in Indexes(CellDims(dims)) : IdIn(CellDims(dims), index) = cell
         IN {IdIn(dims, index) : index \in
                {x \in Indexes(dims) : \A a \in Axes : x[a] \in {at[a], at[a] + 1}}}

Solid(n) ==
    IF fileType = "grid" THEN ActiveAxes(pieces[n].source) = Axes
    ELSE \A m \in DOMAIN pieces[n].source.cells : pieces[n].source.cells[m].type \in DOMAIN CellFaces

\* The directed edges of a polygon; they say its corners and how it is wound.
Edges(ids) == {<<ids[i], ids[(i % Len(ids)) + 1]>> : i \in DOMAIN ids}
Uses(n, edge) == Cardinality({m \in DOMAIN pieces[n].polys : edge \in Edges(pieces[n].polys[m].ids)})

\* The same solid grid, as a mesh of hexahedra.
Hexahedra(dims) ==
    [n \in 1..CellCount(dims) |->
        LET low == CHOOSE index \in Indexes(CellDims(dims)) : IdIn(CellDims(dims), index) = n - 1
            high == Plus(low, 3)
            corners == Quad(low, 1, 2) \o Quad(high, 1, 2)
        IN [type |-> Hexahedron, points |-> [i \in 1..8 |-> IdIn(dims, corners[i])]]]
Oriented(faces) == {<<Edges(face.ids), face.cell>> : face \in faces}

(* A vtkPolyData colours its n-th cell with the n-th tuple of a cell array,*)
(* where vertices come before lines and lines before polygons. In grids of *)
(* whatever dimensions and arrays, and in VTU pieces of whatever cell types*)
(* that have the arrays the format asks for, every tuple is the one of a   *)
(* cell that has all corners of what is drawn with it (combinePieces,      *)
(* parseVtuSurface).                                                       *)
CellValuesFollow ==
    \A name \in IF pieces = <<>> THEN {} ELSE Kept("cellArrays") :
        LET count == ComponentsOf("cellArrays", name)
            values == CellValues(name)
            drawn == Rendered
        IN /\ Len(values) = count * Len(drawn)
           /\ \A m \in DOMAIN drawn, component \in 0..count - 1 :
                LET value == values[(m - 1) * count + component + 1] IN
                /\ value[3] = component
                /\ {id - Preceding(value[1], "points") : id \in Range(drawn[m])}
                        \subseteq PointsOfCell(value[1], value[2])

(* Point arrays stay aligned with the points when pieces are appended: the *)
(* tuple at a point is the one that its own piece gave it, also where the  *)
(* pieces of a grid disagree about their arrays. Those of a VTU file do not*)
(* (ReadMeshPiece).                                                        *)
PointValuesFollow ==
    \A name \in IF pieces = <<>> THEN {} ELSE Kept("pointArrays") :
        LET count == ComponentsOf("pointArrays", name)
            values == PointValues(name)
        IN /\ Len(values) = count * Points
           /\ \A id \in 0..Points - 1, component \in 0..count - 1 :
                LET value == values[id * count + component + 1] IN
                /\ value[3] = component
                /\ value[2] + Preceding(value[1], "points") = id

(* The surface of solid cells has no hole and no crease: each edge is used *)
(* as often in one direction as in the other. A wrong corner in a face     *)
(* table, a face that is not recognised as shared, or one boundary plane   *)
(* wound inwards shows here (CELL_FACES, faceKey, buildPieceTopology).     *)
SurfaceClosed ==
    \A n \in DOMAIN pieces : Solid(n) =>
        \A m \in DOMAIN pieces[n].polys : \A edge \in Edges(pieces[n].polys[m].ids) :
            Uses(n, edge) = Uses(n, <<edge[2], edge[1]>>)

(* The two readers agree: the six planes that the grid reader visits are,  *)
(* with their winding and their cells, the external faces that the mesh    *)
(* reader finds when the same grid is written as hexahedra, also where the *)
(* grid is one cell thick.                                                 *)
GridIsItsHexahedra ==
    \A n \in DOMAIN pieces : fileType = "grid" /\ Solid(n) =>
        LET hexahedra == External(Hexahedra(pieces[n].source)) IN
        /\ Oriented(Range(pieces[n].polys)) = Oriented(hexahedra)
        /\ Len(pieces[n].polys) = Cardinality(hexahedra)

(* Together: every value stays with its cell or point.                     *)
ValuesFollow == CellValuesFollow /\ PointValuesFollow

(* Together: the boundary of solid cells is closed, whichever reader finds *)
(* it.                                                                     *)
BoundaryOfSolids == SurfaceClosed /\ GridIsItsHexahedra
=============================================================================
