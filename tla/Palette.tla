------------------------------- MODULE Palette -------------------------------
(***************************************************************************)
(* The registry of custom colour maps: colormap.ts, the presets that are   *)
(* imported (paraviewPreset.ts, ScalarColorSection), the maps embedded in  *)
(* saved views (viewState.ts, usePipelineActions), the viewers that hold   *)
(* the map they draw with, and the undo stacks that remember earlier maps. *)
(*                                                                         *)
(* Stops are their positions, as pairs <<numerator, denominator>>, one pair*)
(* for each position. An imported map's id is made from a hash of its label*)
(* and stops, an embedded map brings its id with it: nothing recomputes it,*)
(* so an id may come with several definitions. Rendering a map that is not *)
(* registered throws, and the error boundary takes the viewers off.        *)
(***************************************************************************)
EXTENDS DisplayHistory, FiniteSets, SequencesExt, FiniteSetsExt

CONSTANTS
    Viewers,
    BuiltIn, Customs, NoMap,
    MaxMaps,            \* MAX_REGISTERED_CUSTOM_COLOR_MAPS
    MaxStops,           \* MAX_CUSTOM_COLOR_MAP_STOPS
    Presets,            \* the files that are imported: [id, named, indexed, scalars]
    SavedViews          \* what is restored: [map, embedded, embeddedId, stops, fields, reader]

ASSUME PaletteAssumption ==
    /\ BuiltIn \intersect Customs = {} /\ NoMap \notin BuiltIn \union Customs
    /\ MaxMaps \in Nat \ {0} /\ MaxStops \in Nat
    /\ \A preset \in Presets : preset.id \in Customs

VARIABLES
    registry,       \* CUSTOM_LABELS with MAPS: [id, stops], the oldest first
    shown,          \* display.colorMap
    mounted,        \* the viewers that are rendered
    holds,          \* RETAINED_CUSTOM_COLOR_MAPS, by the viewer that retains
    past, future,   \* the colour maps of the undo stacks
    waiting         \* the map of the restored view that waits for its dataset, or NoMap

paletteVars == <<registry, shown, mounted, holds, past, future, waiting>>

-----------------------------------------------------------------------------
(* Stops *)

Less(p, q) == p[1] * q[2] < q[1] * p[2]

ValidStops(stops) ==
    /\ Len(stops) \in 2..MaxStops
    /\ stops[1][1] = 0 /\ Last(stops)[1] = Last(stops)[2]
    /\ \A n \in 2..Len(stops) : Less(stops[n - 1], stops[n])

\* RGBPoints are sorted by scalar and scaled to 0..1, IndexedColors are spread evenly.
RgbPointStops(scalars) ==
    LET sorted == SortSeq(scalars, <)
    IN [n \in DOMAIN sorted |-> <<sorted[n] - sorted[1], Last(sorted) - sorted[1]>>]
IndexedColorStops(scalars) == [n \in DOMAIN scalars |-> <<n - 1, Len(scalars) - 1>>]

ParsedPreset(preset) ==
    IF preset.indexed THEN IndexedColorStops(preset.scalars) ELSE RgbPointStops(preset.scalars)
PresetIsValid(preset) ==
    /\ preset.named
    /\ Len(preset.scalars) \in 2..MaxStops
    /\ preset.indexed \/ IsInjective(preset.scalars)

-----------------------------------------------------------------------------
(* The registry *)

Ids(reg) == {reg[n].id : n \in DOMAIN reg}
Registered(id, reg) == id \in Ids(reg)
Available(id, reg) == id \in BuiltIn \/ Registered(id, reg)
Position(id, reg) == CHOOSE n \in DOMAIN reg : reg[n].id = id
StopsOf(id, reg) == reg[Position(id, reg)].stops
Without(id, reg) == IF Registered(id, reg) THEN RemoveAt(reg, Position(id, reg)) ELSE reg
Held == {holds[v] : v \in Viewers} \ {NoMap}

\* Registered again, a map becomes the newest; when there is no room for another
\* one, the oldest that no viewer holds makes it, and if all are held nothing changes.
RegisterOldest(reg, id, stops) ==
    LET others == Without(id, reg) IN
    IF Len(others) < MaxMaps THEN Append(others, [id |-> id, stops |-> stops])
    ELSE Append(Tail(others), [id |-> id, stops |-> stops])
Register(reg, id, stops) ==
    LET others == Without(id, reg)
        unused == {n \in DOMAIN others : others[n].id \notin Held}
    IN CASE Len(others) < MaxMaps -> Append(others, [id |-> id, stops |-> stops])
         [] Len(others) >= MaxMaps /\ unused # {} ->
                Append(RemoveAt(others, Min(unused)), [id |-> id, stops |-> stops])
         [] OTHER -> reg
-----------------------------------------------------------------------------
(* What the display shows, and who holds it *)

Show(map) ==
    /\ shown' = map
    /\ IF map = shown THEN UNCHANGED <<past, future>>
       ELSE past' = AppendBounded(past, shown) /\ future' = <<>>

\* The retaining effects of the viewers, which the error boundary unmounts.
HoldsOf(viewers, map, reg) ==
    [v \in Viewers |-> IF v \in viewers /\ map \in Customs /\ Available(map, reg) THEN map ELSE NoMap]

Effects ==
    /\ holds' = HoldsOf(mounted, shown, registry)
    /\ UNCHANGED <<registry, shown, mounted, past, future, waiting>>

\* A click renders and runs the effects at once; what a promise sets, later.
Choose(map) ==
    /\ Available(map, registry)
    /\ Show(map)
    /\ holds' = HoldsOf(mounted, map, registry)
    /\ UNCHANGED <<registry, mounted, waiting>>

Undo ==
    /\ past # <<>>
    /\ shown' = LastOf(past) /\ past' = ButLast(past) /\ future' = AppendBounded(future, shown)
    /\ holds' = HoldsOf(mounted, shown', registry)
    /\ UNCHANGED <<registry, mounted, waiting>>
Redo ==
    /\ future # <<>>
    /\ shown' = LastOf(future) /\ future' = ButLast(future) /\ past' = AppendBounded(past, shown)
    /\ holds' = HoldsOf(mounted, shown', registry)
    /\ UNCHANGED <<registry, mounted, waiting>>

\* Another dataset, a comparison or the remote mode mounts and unmounts viewers.
Mount(viewers) ==
    /\ viewers # mounted /\ mounted' = viewers
    /\ holds' = HoldsOf(viewers, shown, registry)
    /\ UNCHANGED <<registry, shown, past, future, waiting>>

\* The text of a preset has been read. The import shows what it registered.
Import(preset) ==
    /\ PresetIsValid(preset) /\ ValidStops(ParsedPreset(preset))
    /\ registry' = Register(registry, preset.id, ParsedPreset(preset))
    /\ IF Registered(preset.id, registry') THEN Show(preset.id) ELSE UNCHANGED <<shown, past, future>>
    /\ UNCHANGED <<mounted, holds, waiting>>

-----------------------------------------------------------------------------
(* Saved views *)

Readable(view) ==
    /\ view.fields
    /\ IF view.embedded
       THEN /\ view.map \in Customs /\ view.embeddedId = view.map /\ ValidStops(view.stops)
            /\ Registered(view.map, registry) => StopsOf(view.map, registry) = view.stops
       ELSE Available(view.map, registry)

\* parseViewState registers after everything else, if there is room.
ParseViewState(view) ==
    LET registered == Register(registry, view.map, view.stops) IN
    IF Readable(view) /\ view.embedded
    THEN [ok |-> Registered(view.map, registered), registry |-> registered]
    ELSE [ok |-> Readable(view), registry |-> registry]

\* restorePipeline parses first, and then looks for the reader that the pipeline
\* starts from: without one, or without its dataset, the view is refused with its
\* map registered already. A view that has one selects the dataset, and overtakes
\* the view that was restored before. The user has seen the page that the click is
\* made on: its effects have run.
RestorePipeline(view) ==
    LET parsed == ParseViewState(view) IN
    /\ holds = HoldsOf(mounted, shown, registry)
    /\ registry' = parsed.registry
    /\ waiting' = IF parsed.ok /\ view.reader THEN view.map ELSE waiting
    /\ UNCHANGED <<shown, mounted, holds, past, future>>

\* The dataset is selected, which empties the stacks, and the view replaces what
\* is shown; or the dataset cannot be had.
DatasetSelected ==
    /\ waiting # NoMap
    /\ shown' = waiting
    /\ past' = IF waiting = shown THEN <<>> ELSE <<shown>>
    /\ future' = <<>> /\ waiting' = NoMap
    /\ UNCHANGED <<registry, mounted, holds>>
DatasetFails ==
    /\ waiting # NoMap /\ waiting' = NoMap
    /\ UNCHANGED <<registry, shown, mounted, holds, past, future>>

-----------------------------------------------------------------------------
PaletteInit ==
    /\ registry = <<>> /\ shown \in BuiltIn
    /\ mounted = {} /\ holds = [v \in Viewers |-> NoMap]
    /\ past = <<>> /\ future = <<>> /\ waiting = NoMap

PaletteNext ==
    \/ Effects \/ Undo \/ Redo \/ DatasetSelected \/ DatasetFails
    \/ \E map \in BuiltIn \union Customs : Choose(map)
    \/ \E viewers \in SUBSET Viewers : Mount(viewers)
    \/ \E preset \in Presets : Import(preset)
    \/ \E view \in SavedViews : RestorePipeline(view)

PaletteSpec == PaletteInit /\ [][PaletteNext]_paletteVars

\* A preset with the map's own id has been imported, which shows it at once.
Redefined(map) ==
    shown' = map /\ \E preset \in Presets :
        preset.id = map /\ StopsOf(map, registry') = ParsedPreset(preset)
HeldStays ==
    \A map \in Held : Registered(map, registry) =>
        /\ Registered(map, registry')
        /\ StopsOf(map, registry') = StopsOf(map, registry) \/ Redefined(map)

(* The colour map that a viewer draws with stays registered, whatever is   *)
(* imported or restored meanwhile: it is not evicted, and only a preset of *)
(* its own id gives it other stops. A saved view that brings another       *)
(* definition of it is refused (registerCustomColorMap, retainColorMap,    *)
(* parseViewState).                                                        *)
HeldMapStays == [][HeldStays]_paletteVars

\* It is shown, or comes with a readable view, which waits if it has a dataset.
MayEnter(map) ==
    \/ map = shown' \/ map = waiting'
    \/ \E view \in SavedViews : view.map = map /\ Readable(view) /\ ~view.reader
NewIsShown == \A map \in Ids(registry') \ Ids(registry) : MayEnter(map)

(* A map enters the registry with a preset, which is shown, or with a saved*)
(* view of which nothing is unreadable: it waits for its dataset, unless   *)
(* its pipeline has none. A view that parseViewState refuses leaves nothing*)
(* behind, and a dataset that fails or an undo brings nothing back.        *)
RegisteredToBeShown == [][NewIsShown]_paletteVars

(* Together: what is drawn with stays registered, and what is refused as   *)
(* unreadable does not enter.                                              *)
RegistryServesScreen == HeldMapStays /\ RegisteredToBeShown
=============================================================================
