------------------------------- MODULE Viewer -------------------------------
(***************************************************************************)
(* VtkViewer.tsx, in as many panes as the page has: the scene effect, its  *)
(* lease of a WebGL context, the load that finishes later, and the probe,  *)
(* plane and measurement controllers that a finished surface gets.         *)
(*                                                                         *)
(* A render leaves effects behind. They run before the next render (hence  *)
(* the guard ~pending of every action that renders), but loads, picks and  *)
(* widgets may come first; that a click's effects run at once only takes   *)
(* some of these orders away. A file stands for all that the scene effect  *)
(* depends on: the URL, the type, the image mode and the table's columns.  *)
(***************************************************************************)
EXTENDS Integers, FiniteSets

CONSTANTS
    Panes,
    Files, Surfaces,        \* what a pane can render; the files the tools work on
    NoFile,                 \* a pane that has nothing to render
    Unmounted,              \* a pane that is not on the page
    Tools,                  \* of "probe", "plane", "distance" and "angle"
    MaxContexts,            \* viewerContextPool.maximum
    MaxScenes, MaxClicks    \* bounds: scenes and clicks that something still refers to

ASSUME ViewerAssumption ==
    /\ Surfaces \subseteq Files /\ {NoFile, Unmounted} \intersect Files = {}
    /\ MaxContexts \in Nat /\ MaxScenes \in Nat /\ MaxClicks \in Nat
    /\ Cardinality(Panes) <= MaxContexts

VARIABLES
    want,           \* what each pane was last rendered with
    pending,        \* the effects of the last render have not run
    scene,          \* by pane: the scene effect's scene
    leases,         \* the scenes that hold a context
    loads,          \* the loads that have not ended, aborted or not
    tool,           \* by pane: the tool that is on, as rendered
    controllers,    \* by pane: the scene of the controllers, and the tool they are set to
    lastClick,      \* by pane: the click of the probe that still counts
    picks,          \* the picks that have not been answered
    probeResult, measurementResult

toolVars == <<tool, controllers, lastClick, picks, probeResult, measurementResult>>
viewerVars == <<want, pending, scene, leases, loads, toolVars>>

Measuring == Tools \intersect {"distance", "angle"}
NoTool == "none"
NoScene == [id |-> 0, file |-> NoFile, state |-> "none"]
Ids == 0..MaxScenes
NoControllers == [of |-> 0, tool |-> NoTool]
NoResult == [of |-> 0, by |-> 0]
NoMeasurement == [of |-> 0, by |-> NoTool]

ViewerTypeOK ==
    /\ want \in [Panes -> Files \union {NoFile, Unmounted}] /\ pending \in BOOLEAN
    /\ scene \in [Panes -> [id : Ids, file : Files \union {NoFile},
                            state : {"none", "loading", "ready", "error", "broken", "refused"}]]
    /\ leases \subseteq Ids /\ loads \subseteq Panes \X Ids
    /\ tool \in [Panes -> Tools \union {NoTool}]
    /\ controllers \in [Panes -> [of : Ids, tool : Tools \union {NoTool}]]
    /\ lastClick \in [Panes -> 0..MaxClicks]
    /\ picks \subseteq [pane : Panes, of : Ids, by : 1..MaxClicks]
    /\ probeResult \in [Panes -> [of : Ids, by : 0..MaxClicks]]
    /\ measurementResult \in [Panes -> [of : Ids, by : Measuring \union {NoTool}]]

ViewerInit ==
    /\ want = [p \in Panes |-> Unmounted] /\ pending = FALSE
    /\ scene = [p \in Panes |-> NoScene] /\ leases = {} /\ loads = {}
    /\ tool = [p \in Panes |-> NoTool] /\ controllers = [p \in Panes |-> NoControllers]
    /\ lastClick = [p \in Panes |-> 0] /\ picks = {}
    /\ probeResult = [p \in Panes |-> NoResult]
    /\ measurementResult = [p \in Panes |-> NoMeasurement]

\* What a pane's scene is built for; nothing, if there is nothing to render.
Rendered(p) == IF want[p] \in Files THEN want[p] ELSE NoFile
HasWindow(p) == scene[p].state \in {"loading", "ready", "error"}

-----------------------------------------------------------------------------
(* Renders and effects *)

\* The panes get new props. A pane that leaves the page takes its tools along.
Render(new) ==
    /\ ~pending
    /\ want' = new /\ pending' = TRUE
    /\ tool' = [p \in Panes |-> IF new[p] = Unmounted THEN NoTool ELSE tool[p]]
    /\ probeResult' = [p \in Panes |-> IF new[p] = Unmounted THEN NoResult ELSE probeResult[p]]
    /\ measurementResult' =
        [p \in Panes |-> IF new[p] = Unmounted THEN NoMeasurement ELSE measurementResult[p]]
    /\ UNCHANGED <<scene, leases, loads, controllers, lastClick, picks>>

\* The panes whose scene is not the one to show, and those of them that get another.
Changed == {p \in Panes : scene[p].file # Rendered(p)}
Started == {p \in Changed : Rendered(p) # NoFile}

\* New scenes take numbers that nothing refers to any more.
FreeIds ==
    (1..MaxScenes) \ (leases \union {l[2] : l \in loads} \union {pick.of : pick \in picks}
        \union UNION {{scene[p].id, controllers[p].of, probeResult[p].of, measurementResult[p].of} :
                        p \in Panes})
NumbersOf(panes) ==
    CHOOSE n \in [panes -> FreeIds] : \A p, q \in panes : p # q => n[p] # n[q]

\* All cleanups come before the first new scene.
KeptAll == leases
Kept == leases \ {scene[p].id : p \in {q \in Changed : HasWindow(q)}}
LeftOver == MaxContexts - Cardinality(Kept)

\* The first of them get the contexts that are left. In broken no window can be made.
NewScenes(number, broken) ==
    [p \in Panes |->
        IF p \notin Changed THEN scene[p]
        ELSE IF p \notin Started THEN NoScene
        ELSE [id |-> number[p], file |-> Rendered(p),
              state |-> IF Cardinality({q \in Started : number[q] <= number[p]}) > LeftOver THEN "refused"
                        ELSE IF p \in broken THEN "broken" ELSE "loading"]]

\* A window that cannot be made gives its lease back.
LeasedKeepingBroken(news) == Kept \union {news[p].id : p \in {q \in Started : news[q].state # "refused"}}
Leased(news) == Kept \union {news[p].id : p \in {q \in Started : news[q].state = "loading"}}

\* The light effects set the controllers of a surface to the tool that is on; a change
\* of the probe makes every pick before it old. What the effects change in the state
\* of the page is rendered again.
MeasurementKept(p) ==
    tool[p] \in Measuring /\ ~(p \in Changed /\ controllers[p] # NoControllers)
SetTo(p) == [controllers[p] EXCEPT !.tool = tool[p]]
EffectsRun(new, again) ==
    /\ pending /\ pending' = again /\ want' = new
    /\ Cardinality(Started) <= Cardinality(FreeIds)
    /\ \E broken \in SUBSET Started :
        LET number == NumbersOf(Started)
            news == NewScenes(number, broken)
        IN
        /\ scene' = news
        /\ leases' = Leased(news)
        /\ loads' = loads \union {<<p, number[p]>> : p \in {q \in Started : news[q].state = "loading"}}
    /\ controllers' = [p \in Panes |->
            IF p \in Changed \/ controllers[p] = NoControllers THEN NoControllers ELSE SetTo(p)]
    /\ lastClick' = [p \in Panes |->
            IF p \in Changed \/ (tool[p] = "probe") # (controllers[p].tool = "probe")
            THEN 0 ELSE lastClick[p]]
    /\ probeResult' = [p \in Panes |-> IF tool[p] # "probe" THEN NoResult ELSE probeResult[p]]
    /\ measurementResult' = [p \in Panes |->
            IF MeasurementKept(p) THEN measurementResult[p] ELSE NoMeasurement]
    /\ UNCHANGED <<tool, picks>>

-----------------------------------------------------------------------------
(* Loads *)

\* finish() creates the controllers and sets them to what the last render has on.
ControllersOf(p) == [of |-> scene[p].id, tool |-> tool[p]]

AnyLoad(p, id) == TRUE
Undisposed(p, id) == scene[p].id = id /\ scene[p].state = "loading"

LoadFinishes(p, id, emits) ==
    /\ pending' = (pending \/ emits)
    /\ <<p, id>> \in loads /\ loads' = loads \ {<<p, id>>}
    /\ IF Undisposed(p, id)
       THEN /\ scene' = [scene EXCEPT ![p].state = "ready"]
            /\ IF scene[p].file \in Surfaces
               THEN controllers' = [controllers EXCEPT ![p] = ControllersOf(p)]
               ELSE UNCHANGED controllers
       ELSE UNCHANGED <<scene, controllers>>
    /\ UNCHANGED <<want, leases, tool, lastClick, picks,
                   probeResult, measurementResult>>

LoadFails(p, id) ==
    /\ <<p, id>> \in loads /\ loads' = loads \ {<<p, id>>}
    /\ scene' = IF Undisposed(p, id) THEN [scene EXCEPT ![p].state = "error"] ELSE scene
    /\ UNCHANGED <<want, pending, leases, toolVars>>

-----------------------------------------------------------------------------
(* Tools *)

\* Any tool switches the others off; the tool that is on switches itself off.
ChooseTool(p, t) ==
    /\ ~pending /\ want[p] \in Surfaces
    /\ tool' = [tool EXCEPT ![p] = IF @ = t THEN NoTool ELSE t]
    /\ pending' = TRUE
    /\ UNCHANGED <<want, scene, leases, loads, controllers, lastClick, picks,
                   probeResult, measurementResult>>

ProbeClick(p) ==
    /\ controllers[p].tool = "probe"
    /\ \E click \in (1..MaxClicks) \ ({pick.by : pick \in picks} \union {probeResult[q].by : q \in Panes}) :
        /\ lastClick' = [lastClick EXCEPT ![p] = click]
        /\ picks' = picks \union {[pane |-> p, of |-> controllers[p].of, by |-> click]}
    /\ UNCHANGED <<want, pending, scene, leases, loads, tool, controllers,
                   probeResult, measurementResult>>

\* Selection in two asynchronous passes, then ray pickers for what they missed.
CountsWhileProbing(pick) ==
    controllers[pick.pane].of = pick.of /\ controllers[pick.pane].tool = "probe"
Counts(pick) ==
    /\ controllers[pick.pane].of = pick.of /\ controllers[pick.pane].tool = "probe"
    /\ lastClick[pick.pane] = pick.by
PickAnswers(pick, hit) ==
    /\ pick \in picks /\ picks' = picks \ {pick}
    /\ probeResult' =
        IF Counts(pick)
        THEN [probeResult EXCEPT ![pick.pane] = IF hit THEN [of |-> pick.of, by |-> pick.by] ELSE NoResult]
        ELSE probeResult
    /\ UNCHANGED <<want, pending, scene, leases, loads, tool, controllers,
                   lastClick, measurementResult>>

CloseProbe(p) ==
    /\ tool[p] = "probe" /\ probeResult[p] # NoResult
    /\ probeResult' = [probeResult EXCEPT ![p] = NoResult]
    /\ UNCHANGED <<want, pending, scene, leases, loads, tool, controllers,
                   lastClick, picks, measurementResult>>

\* The widget reports a measure; Reset builds a new widget.
Measure(p) ==
    /\ controllers[p].tool \in Measuring
    /\ \E by \in {controllers[p].tool, NoTool} :
        measurementResult' = [measurementResult EXCEPT ![p] =
            IF by = NoTool THEN NoMeasurement ELSE [of |-> controllers[p].of, by |-> by]]
    /\ UNCHANGED <<want, pending, scene, leases, loads, tool, controllers,
                   lastClick, picks, probeResult>>

-----------------------------------------------------------------------------

\* Everything but renders, their effects, and finished loads, which the page adds to.
FailNext == \E l \in loads : LoadFails(l[1], l[2])

ToolNext(panes) ==
    \/ \E p \in panes : \/ \E t \in Tools : ChooseTool(p, t)
                        \/ ProbeClick(p) \/ CloseProbe(p) \/ Measure(p)
    \/ \E pick \in picks, hit \in BOOLEAN : PickAnswers(pick, hit)

-----------------------------------------------------------------------------
(* Properties *)

\* However panes come, go and rebuild in one render, none is refused a context.
NoPaneRefused == \A p \in Panes : scene[p].state # "refused"

\* Every context that is held belongs to a scene on the page.
LeasesOfScenes ==
    /\ Cardinality(leases) <= MaxContexts
    /\ leases \subseteq {scene[p].id : p \in {q \in Panes : HasWindow(q)}}
    /\ \A p \in Panes : scene[p].state \in {"loading", "ready"} => scene[p].id \in leases

\* Whatever was clicked while a surface was loading, its controllers do what the
\* toolbar shows.
ToolIsApplied ==
    \A p \in Panes :
        ~pending /\ scene[p].state = "ready" /\ scene[p].file \in Surfaces
            => controllers[p] = [of |-> scene[p].id, tool |-> tool[p]]

\* A measure on the screen was taken in the scene on the screen.
MeasurementOfScene ==
    \A p \in Panes :
        ~pending /\ measurementResult[p] # NoMeasurement
            => measurementResult[p].of = scene[p].id /\ tool[p] \in Measuring

\* What the probe tells is told of the scene on the screen, and of the last click.
ProbeAnswersLastClick ==
    [][\A p \in Panes :
          probeResult'[p] \notin {probeResult[p], NoResult}
              => probeResult'[p] = [of |-> scene[p].id, by |-> lastClick[p]]]_viewerVars

\* What a pane reports to the rest of the page.
ReportOf(p) ==
    [frame |-> scene[p].file,
     state |-> IF scene[p].state \in {"refused", "broken"} THEN "error" ELSE scene[p].state]

=============================================================================
