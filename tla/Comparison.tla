----------------------------- MODULE Comparison -----------------------------
(***************************************************************************)
(* ComparisonViewport.tsx and lib/comparison.ts: the primary pane, with    *)
(* the display's dataset, timestep and camera, and beside it, when the     *)
(* comparison is on, a secondary pane with a dataset and timestep of its   *)
(* own and, unless the cameras are in step, a camera of its own. A file is *)
(* a dataset and its timestep; a camera is known by the dataset it was     *)
(* fitted to, or as turned by the user. (A remote session takes the whole  *)
(* viewport off the page: see Workspace.)                                  *)
(***************************************************************************)
EXTENDS Viewer

CONSTANTS
    Primary, Secondary,
    Datasets, NoDataset,
    Collections, LastStep,
    NoCamera, Turned,
    Uses            \* bound: what one behaviour uses: the choice of what is compared,
                    \* the cameras, or the tools of a pane

ASSUME ComparisonAssumption ==
    /\ Panes = {Primary, Secondary} /\ Primary # Secondary
    /\ Collections \subseteq Datasets /\ NoDataset \notin Datasets /\ LastStep \in Nat
    /\ Files = [of : Collections, step : 0..LastStep] \union [of : Datasets \ Collections, step : {0}]

VARIABLES
    available,      \* the datasets that are ready
    primary,        \* primaryDataset and primaryTimestepIndex
    enabled,        \* comparisonEnabled
    chosen,         \* secondaryDatasetId
    secondaryStep,  \* secondaryTimestepIndex
    previous,       \* previousSecondaryIdRef
    cameraSync,
    camera,         \* display.cameraState
    secondaryCamera,
    aim,            \* by pane: the camera of its scene
    uses            \* of Uses: never changes

choiceVars == <<available, primary, enabled, chosen, secondaryStep, previous>>
cameraVars == <<cameraSync, camera, secondaryCamera, aim>>
vars == <<viewerVars, choiceVars, cameraVars, uses>>

MaybeDatasets == Datasets \union {NoDataset}
Cameras == Datasets \union {NoCamera, Turned}
Nothing == [of |-> NoDataset, step |-> 0]

TypeOK ==
    /\ ViewerTypeOK
    /\ available \subseteq Datasets /\ primary \in Files \union {Nothing}
    /\ enabled \in BOOLEAN /\ cameraSync \in BOOLEAN
    /\ chosen \in MaybeDatasets /\ previous \in MaybeDatasets
    /\ secondaryStep \in 0..LastStep
    /\ uses \in Uses
    /\ camera \in Cameras /\ secondaryCamera \in Cameras /\ aim \in [Panes -> Cameras]

-----------------------------------------------------------------------------
(* What is compared: functions of the state, as they are in a render *)

\* The dataset chosen, while it is there; or the primary's; or any other.
SecondaryIds ==
    IF chosen \in available THEN {chosen}
    ELSE IF primary.of \in available THEN {primary.of}
    ELSE IF available # {} THEN {CHOOSE d \in available : TRUE} ELSE {NoDataset}
SecondaryId == CHOOSE d \in SecondaryIds : TRUE

\* clampComparisonTimestep
StepOf(d, step) == IF d \in Collections THEN step ELSE 0

\* nextComparisonTimestep: the next one, or at the end the one before.
NextStepSame(d, step) == StepOf(d, step)
NextStep(d, step) ==
    IF d \notin Collections \/ LastStep = 0 THEN 0
    ELSE IF step + 1 <= LastStep THEN step + 1 ELSE step - 1

Wanted ==
    [p \in Panes |->
        IF p = Primary THEN IF primary = Nothing THEN NoFile ELSE primary
        ELSE IF ~enabled \/ SecondaryId = NoDataset THEN Unmounted
        ELSE [of |-> SecondaryId, step |-> StepOf(SecondaryId, secondaryStep)]]

\* The camera a pane is given.
CameraOf(p) == IF p = Primary \/ cameraSync THEN camera ELSE secondaryCamera

-----------------------------------------------------------------------------

Init ==
    /\ ViewerInit
    /\ available \in {{}, Datasets} /\ primary = Nothing /\ enabled = FALSE
    /\ chosen = NoDataset /\ secondaryStep = 0 /\ previous = NoDataset
    /\ cameraSync = TRUE /\ camera = NoCamera /\ secondaryCamera = NoCamera
    /\ aim = [p \in Panes |-> NoCamera]
    /\ uses \in Uses

\* Datasets come (an upload, a local file) and go (removed, or a server lost).
DatasetsChange(d) ==
    /\ available' = IF d \in available THEN available \ {d} ELSE available \union {d}
    /\ primary' = IF primary.of \in available' THEN primary ELSE Nothing
    /\ UNCHANGED <<enabled, chosen, secondaryStep, previous, cameraVars>>
    /\ Render(Wanted')

\* A selection resets the display, and with it the camera.
SelectDataset(d) ==
    /\ d \in available
    /\ primary' = [of |-> d, step |-> 0] /\ camera' = NoCamera
    /\ UNCHANGED <<available, enabled, chosen, secondaryStep, previous, cameraSync,
                   secondaryCamera, aim>>
    /\ Render(Wanted')

Seek(step) ==
    /\ primary.of \in Collections /\ step # primary.step
    /\ primary' = [primary EXCEPT !.step = step]
    /\ UNCHANGED <<available, enabled, chosen, secondaryStep, previous, cameraVars>>
    /\ Render(Wanted')

ToggleComparison ==
    /\ primary # Nothing
    /\ enabled' = ~enabled
    /\ UNCHANGED <<available, primary, chosen, secondaryStep, previous, cameraVars>>
    /\ Render(Wanted')

\* switchProject: other datasets, none of them selected, and no comparison.
SwitchProject ==
    /\ available' = {} /\ primary' = Nothing /\ enabled' = FALSE /\ camera' = NoCamera
    /\ UNCHANGED <<chosen, secondaryStep, previous, cameraSync, secondaryCamera, aim>>
    /\ Render(Wanted')

ChooseSecondary(d) ==
    /\ enabled /\ d \in available /\ d # SecondaryId
    /\ chosen' = d
    /\ UNCHANGED <<available, primary, enabled, secondaryStep, previous, cameraVars>>
    /\ Render(Wanted')

ChooseStep(step) ==
    /\ enabled /\ SecondaryId \in Collections /\ step # secondaryStep
    /\ secondaryStep' = step
    /\ UNCHANGED <<available, primary, enabled, chosen, previous, cameraVars>>
    /\ Render(Wanted')

ToggleSync ==
    /\ enabled
    /\ cameraSync' = ~cameraSync
    /\ secondaryCamera' = IF cameraSync THEN camera ELSE secondaryCamera
    /\ UNCHANGED <<choiceVars, camera, aim>>
    /\ Render(Wanted')

-----------------------------------------------------------------------------
(* Cameras *)

\* onCameraChange of the primary pane, onSecondaryCameraChange of the other.
Emits(p, c) ==
    IF p = Primary \/ cameraSync THEN camera' = c /\ UNCHANGED secondaryCamera
    ELSE secondaryCamera' = c /\ UNCHANGED camera

\* finish() fits the camera unless one is given, and emits what it has.
SceneFinishes(p, id) ==
    LET c == IF CameraOf(p) = NoCamera THEN scene[p].file.of ELSE CameraOf(p) IN
    /\ LoadFinishes(p, id, Undisposed(p, id) /\ c # CameraOf(p))
    /\ IF Undisposed(p, id)
       THEN aim' = [aim EXCEPT ![p] = c] /\ Emits(p, c)
       ELSE UNCHANGED <<aim, camera, secondaryCamera>>
    /\ UNCHANGED <<choiceVars, cameraSync>>

\* The end of a turn, a preset, the projection or Reset.
TurnCamera(p) ==
    /\ scene[p].state = "ready" /\ aim[p] # Turned
    /\ aim' = [aim EXCEPT ![p] = Turned] /\ Emits(p, Turned)
    /\ pending' = TRUE
    /\ UNCHANGED <<want, scene, leases, loads, toolVars, choiceVars, cameraSync>>

\* The viewport's effect starts another secondary dataset at another step than the
\* primary's; the camera effects of the panes turn each scene to what it is given.
AllEffectsRun ==
    LET other == SecondaryId # previous IN
    /\ previous' = SecondaryId
    /\ secondaryStep' = IF ~other THEN secondaryStep
                        ELSE IF SecondaryId = primary.of /\ SecondaryId # NoDataset
                        THEN NextStep(SecondaryId, primary.step) ELSE 0
    /\ secondaryCamera' = IF other THEN NoCamera ELSE secondaryCamera
    /\ aim' = [p \in Panes |->
                IF ~HasWindow(p) \/ p \in Changed THEN NoCamera
                ELSE IF CameraOf(p) = NoCamera THEN aim[p] ELSE CameraOf(p)]
    /\ UNCHANGED <<available, primary, enabled, chosen, cameraSync, camera>>
    /\ EffectsRun(Wanted', other)

-----------------------------------------------------------------------------

PaneNext ==
    \/ \E d \in Datasets : SelectDataset(d)
    \/ \E step \in 0..LastStep : Seek(step)
    \/ ToggleComparison
    \/ AllEffectsRun
    \/ \E l \in loads : SceneFinishes(l[1], l[2])

ChoiceNext ==
    \/ \E d \in Datasets : DatasetsChange(d) \/ ChooseSecondary(d)
    \/ \E step \in 0..LastStep : ChooseStep(step)
    \/ SwitchProject

CameraNext == ToggleSync \/ \E p \in Panes : TurnCamera(p)

Next ==
    /\ UNCHANGED uses
    /\ \/ PaneNext
       \/ "choice" \in uses /\ ChoiceNext
       \/ "cameras" \in uses /\ CameraNext
       \/ FailNext /\ UNCHANGED <<choiceVars, cameraVars>>
       \/ ToolNext(uses \intersect Panes) /\ UNCHANGED <<choiceVars, cameraVars>>

Spec == Init /\ [][Next]_vars

-----------------------------------------------------------------------------
(* Properties *)

\* Together: leases, controllers and readouts are those of the scenes of the panes.
PanesOfScenes == TypeOK /\ LeasesOfScenes /\ ToolIsApplied /\ MeasurementOfScene

\* Two panes in step look from the same camera, whichever of them was turned, was
\* rebuilt, or finished last.
CamerasAgree ==
    ~pending /\ cameraSync /\ camera # NoCamera
        => \A p \in Panes : scene[p].state = "ready" => aim[p] = camera

\* The comparison of a collection with itself starts with two different timesteps.
ComparesTwoSteps ==
    [][previous' # previous /\ previous' = primary.of /\ enabled
            /\ previous' \in Collections /\ LastStep > 0
          => want'[Secondary] # want'[Primary]]_vars

\* Together: what is compared differs in the step, and never in the camera.
ComparedPanes == []CamerasAgree /\ ComparesTwoSteps

\* The primary pane reports to the display and the playback as they expect.
Reports == INSTANCE SceneReports WITH
    Frames <- Files, NoFrame <- NoFile, scene <- ReportOf(Primary)
ScenesReport == Reports!Spec

=============================================================================
