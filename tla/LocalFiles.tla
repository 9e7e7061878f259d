------------------------------ MODULE LocalFiles ------------------------------
(***************************************************************************)
(* Files that the user opens from disk: localDataset.ts classifies them,   *)
(* reads a .pvd collection and finds the files of its timesteps, and       *)
(* useLocalDatasets keeps the datasets with their blob URLs.               *)
(*                                                                         *)
(* A path is a sequence of segments, the last of which is the name; "." is *)
(* dropped by the code and left out here. A blob URL is a number.          *)
(***************************************************************************)
EXTENDS Integers, Sequences, FiniteSets, SequencesExt, FiniteSetsExt

CONSTANTS
    Segments,       \* the names of files and directories, and ".."
    Selections,     \* what a user may open: sequences of paths
    Hidden,         \* the names that begin with a dot
    EmptyTables,    \* the names of .csv files without a row
    FormatOf,       \* the extension of each name
    StepsOf,        \* what a collection lists: sequences of [time, file]
    NoTime, NotACollection,
    MaxSources, MaxUrls         \* bounds: datasets that are open, URLs ever made

VARIABLES
    sources,        \* the open datasets, the newest first
    urls,           \* the blob URLs that have not been revoked
    made,           \* how many URLs were made
    lastError

localVars == <<sources, urls, made, lastError>>

BrowserFormats == {".vtp", ".vtu", ".vts", ".vtr", ".vti", ".csv"}
ServerOnlyFormats == {".cgns", ".exo", ".e", ".case", ".xdmf", ".xmf", ".h5", ".hdf5"}
KindOf(name) ==
    CASE FormatOf[name] \in BrowserFormats -> "browser"
      [] FormatOf[name] = ".pvd" -> "collection"
      [] FormatOf[name] \in ServerOnlyFormats -> "server"
      [] OTHER -> "unknown"

NameOf(path) == Last(path)
DirectoryOf(path) == Front(path)

\* A path of a file ends with its name; a collection lists what it likes.
ASSUME LocalAssumption ==
    /\ \A selection \in Selections :
        /\ selection \in Seq(Seq(Segments))
        /\ \A n \in DOMAIN selection :
            /\ selection[n] # <<>> /\ NameOf(selection[n]) # ".."
            /\ NameOf(selection[n]) \in DOMAIN FormatOf
    /\ NoTime \notin Int
    /\ \A name \in DOMAIN FormatOf : FormatOf[name] = ".pvd" => name \in DOMAIN StepsOf
    /\ \A name \in DOMAIN StepsOf :
        \/ StepsOf[name] = NotACollection
        \/ StepsOf[name] \in Seq([time : Int \union {NoTime}, file : Seq(Segments)])

\* ".." drops the segment before it, if there is one.
Entered(parts, segment) ==
    IF segment # ".." THEN Append(parts, segment)
    ELSE IF parts = <<>> THEN <<>> ELSE Front(parts)
Normalized(path) ==
    LET parts[n \in 0..Len(path)] == IF n = 0 THEN <<>> ELSE Entered(parts[n - 1], path[n])
    IN parts[Len(path)]

-----------------------------------------------------------------------------
(* A collection *)

\* The first part of every timestep; one without a time counts the steps so far.
FirstKept(steps, entry) ==
    LET time == IF entry.time = NoTime THEN Len(steps) ELSE entry.time IN
    IF \E n \in DOMAIN steps : steps[n].time = time THEN steps
    ELSE Append(steps, [time |-> time, file |-> entry.file])
FirstParts(list) ==
    LET steps[n \in 0..Len(list)] == IF n = 0 THEN <<>> ELSE FirstKept(steps[n - 1], list[n])
    IN steps[Len(list)]
ByTime(list) ==
    LET steps == FirstParts(list) IN
    CHOOSE sorted \in [DOMAIN steps -> Range(steps)] :
        \A m, n \in DOMAIN steps : m < n => sorted[m].time < sorted[n].time

\* The exact relative path first, then a name that only one file has.
FirstOfName(descriptor, reference, files) ==
    LET named == {n \in DOMAIN files : NameOf(files[n]) = NameOf(reference)}
    IN IF named = {} THEN {} ELSE {files[Min(named)]}
Resolved(descriptor, reference, files) ==
    LET wanted == Normalized(DirectoryOf(Normalized(descriptor)) \o reference)
        exact == {n \in DOMAIN files : Normalized(files[n]) = wanted}
        named == {n \in DOMAIN files : wanted # <<>> /\ NameOf(files[n]) = NameOf(wanted)}
    IN CASE exact # {} -> {files[Min(exact)]}
         [] exact = {} /\ Cardinality(named) = 1 -> {files[n] : n \in named}
         [] OTHER -> {}

-----------------------------------------------------------------------------
(* createLocalDataset: an error, or the files that become URLs *)

Error(code) == [error |-> code]
Shown(collection, steps, files) ==
    [error |-> "none", collection |-> collection, steps |-> steps, files |-> files]

\* The files that are opened, by their places in the selection.
Visible(selection) ==
    Restrict(selection, {n \in DOMAIN selection : NameOf(selection[n]) \notin Hidden})
OfKind(files, kind) == {n \in DOMAIN files : KindOf(NameOf(files[n])) = kind}

Single(files) ==
    LET file == files[Min(DOMAIN files)]
        onServer == OfKind(files, "server") = DOMAIN files
    IN CASE onServer -> Error("server-only")
         [] ~onServer /\ Cardinality(DOMAIN files) > 1 -> Error("needs-descriptor")
         [] ~onServer /\ Cardinality(DOMAIN files) = 1 /\ KindOf(NameOf(file)) = "unknown" -> Error("unsupported")
         [] Cardinality(DOMAIN files) = 1 /\ NameOf(file) \in EmptyTables -> Error("empty-csv")
         [] OTHER -> Shown(FALSE, <<>>, <<file>>)

Collection(descriptor, files) ==
    LET steps == ByTime(StepsOf[NameOf(descriptor)])
        found == [n \in DOMAIN steps |-> Resolved(descriptor, steps[n].file, files)]
        resolved == [n \in DOMAIN steps |-> CHOOSE path \in found[n] : TRUE]
    IN CASE StepsOf[NameOf(descriptor)] = NotACollection \/ steps = <<>> -> Error("invalid-pvd")
         [] \E n \in DOMAIN steps : found[n] = {} -> Error("missing-files")
         [] \E n \in DOMAIN steps : KindOf(NameOf(resolved[n])) # "browser" -> Error("server-only")
         [] Cardinality({FormatOf[NameOf(resolved[n])] : n \in DOMAIN steps}) > 1 -> Error("unsupported")
         [] OTHER -> Shown(TRUE, steps, <<descriptor>> \o resolved)

CreateLocalDataset(selection) ==
    LET files == Visible(selection)
        descriptors == OfKind(files, "collection")
    IN CASE DOMAIN files = {} -> Error("no-files")
         [] DOMAIN files # {} /\ descriptors = {} -> Single(files)
         [] OTHER -> Collection(files[Min(descriptors)], files)

ShownFiles(opened) == IF opened.collection THEN Tail(opened.files) ELSE opened.files

-----------------------------------------------------------------------------
(* useLocalDatasets *)

LocalInit == sources = <<>> /\ urls = {} /\ made = 0 /\ lastError = "none"

NewUrls(count) == made + 1..made + count

\* The dataset goes first; selected is what it was chosen from, for the properties.
AddedFirst(opened, selection) ==
    sources' = <<[collection |-> opened.collection, steps |-> opened.steps, files |-> opened.files,
                  urls |-> [n \in DOMAIN ShownFiles(opened) |-> made + n],
                  selected |-> Range(Visible(selection))]>> \o sources

OpenFiles(selection) ==
    LET opened == CreateLocalDataset(selection)
        count == Len(ShownFiles(opened))
    IN /\ Len(sources) < MaxSources
       /\ lastError' = opened.error
       /\ IF opened.error = "none"
          THEN /\ made + count <= MaxUrls
               /\ made' = made + count
               /\ urls' = urls \union NewUrls(count)
               /\ AddedFirst(opened, selection)
          ELSE UNCHANGED <<sources, urls, made>>

RemoveLocal(n) ==
    /\ sources' = RemoveAt(sources, n)
    /\ urls' = urls \ Range(sources[n].urls)
    /\ UNCHANGED <<made, lastError>>

LocalNext ==
    \/ \E selection \in Selections : OpenFiles(selection)
    \/ \E n \in DOMAIN sources : RemoveLocal(n)

LocalSpec == LocalInit /\ [][LocalNext]_localVars

\* localDatasetUrl and fileFor: what the viewer loads and what is uploaded.
UrlOf(source, step) ==
    source.urls[IF step + 1 < Len(source.urls) THEN step + 1 ELSE Len(source.urls)]
FileFor(source, step) ==
    LET offset == IF source.collection THEN 1 ELSE 0 IN
    IF offset + step + 1 <= Len(source.files) THEN source.files[offset + step + 1] ELSE source.files[1]

-----------------------------------------------------------------------------
(* Properties *)

LastStepOf(source) == IF source.collection THEN Len(source.steps) - 1 ELSE 0

(* A blob URL lives exactly as long as the dataset that shows it: what     *)
(* fails to open leaves none behind, and what is removed takes all of its  *)
(* timesteps with it (createLocalDataset, removeLocal).                    *)
UrlsOfSources ==
    /\ urls = UNION {Range(sources[n].urls) : n \in DOMAIN sources}
    /\ \A n, m \in DOMAIN sources : n # m => Range(sources[n].urls) \intersect Range(sources[m].urls) = {}

(* Every timestep of a collection is played in the order of time and shows *)
(* a file that the collection lists for that time, never one of the same   *)
(* name from another directory; and what is uploaded is what is shown      *)
(* (parsePvdCollection, resolveReferencedFile, fileFor).                   *)
PlaysListedFile(source, step) ==
    LET listed == StepsOf[NameOf(source.files[1])]
        played == ShownFiles(source)[step + 1]
    IN \E n \in DOMAIN listed :
        LET target == Normalized(DirectoryOf(source.files[1]) \o listed[n].file) IN
        /\ listed[n].time \in {source.steps[step + 1].time, NoTime}
        /\ NameOf(played) = NameOf(target)
        /\ \A path \in source.selected :
            NameOf(path) = NameOf(played) /\ path # played => Normalized(played) = target
ShowsItsFiles(source) ==
    \A step \in 0..LastStepOf(source) :
        /\ FileFor(source, step) = ShownFiles(source)[step + 1]
        /\ UrlOf(source, step) = source.urls[step + 1]
        /\ source.collection =>
            /\ step > 0 => source.steps[step].time < source.steps[step + 1].time
            /\ PlaysListedFile(source, step)
StepsShowTheirFiles == \A source \in Range(sources) : ShowsItsFiles(source)

(* Together: each timestep plays a file of its own that stays loadable.    *)
LocalStepsPlay == UrlsOfSources /\ StepsShowTheirFiles
=============================================================================
