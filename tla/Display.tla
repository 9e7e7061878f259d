------------------------------- MODULE Display -------------------------------
(***************************************************************************)
(* What the viewer shows of the selected dataset: useDisplayState with its *)
(* undo history, useTimestepPlayback, the panels that drive them and the   *)
(* scene effect of VtkViewer, which tells them how far a frame has loaded. *)
(*                                                                         *)
(* React state is the page; refs is what lives between renders. A handler  *)
(* leaves refs and the next page behind, and the page is rendered. The     *)
(* passive effects of a render run at once when a click or a key caused    *)
(* it, and otherwise some time later: until then pending holds, and timer  *)
(* callbacks, answers and events may come first. Effects that are pending  *)
(* when another render starts run just before it.                          *)
(***************************************************************************)
EXTENDS DisplayHistory

CONSTANTS
    Datasets, NoDataset,
    Collections,    \* the datasets with timesteps
    Images,         \* the datasets with a default colour array
    Looks,
    FirstLook,      \* the look of a page that has just been opened
    Views,          \* what a user can make the view of each dataset: [Datasets -> SUBSET ...]
    FirstView,      \* the default colour and the fitted camera of each dataset
    Blank,          \* the view after reset()
    LastStep,
    Pipelines       \* the saved states: [dataset, look, view, step]

ASSUME DisplayAssumption ==
    /\ NoDataset \notin Datasets
    /\ Collections \subseteq Datasets /\ Images \subseteq Datasets
    /\ Views \in [Datasets -> SUBSET UNION {Views[d] : d \in Datasets}]
    \* A view of a dataset has a colour array or a camera, the blank one neither.
    /\ \A d \in Datasets : FirstView[d] \in Views[d] /\ Blank \notin Views[d]
    /\ FirstLook \in Looks /\ LastStep \in Nat \ {0}
    /\ Pipelines \subseteq [dataset : Datasets, look : Looks, view : UNION {Views[d] : d \in Datasets},
                            step : FirstStep..LastStep]
    /\ \A pipeline \in Pipelines : pipeline.view \in Views[pipeline.dataset]

VARIABLES
    page,           \* React state, as rendered
    refs,           \* refs, the stacks, the scene and the playback's timer
    pending         \* the effects of the rendered page have not run yet

vars == <<page, refs, pending>>

AnyView == {Blank} \union UNION {Views[d] : d \in Datasets}
Steps == FirstStep..LastStep
Snapshots == [look : Looks, view : AnyView, step : Steps]

\* What viewerUrl names: a dataset, and for a collection the timestep as well.
NoFrame == [of |-> NoDataset, step |-> FirstStep]
FrameOf(p) ==
    [of |-> p.dataset, step |-> IF p.dataset \in Collections THEN p.step ELSE FirstStep]
Frames == {NoFrame} \union [of : Datasets, step : Steps]

Report(frame, state) == [frame |-> frame, state |-> state]
NothingLoaded == Report(NoFrame, "none")

SnapshotOf(p) == [look |-> p.look, view |-> p.view, step |-> p.step]
Showing(p, snapshot) ==
    [p EXCEPT !.look = snapshot.look, !.view = snapshot.view, !.step = snapshot.step,
              !.playing = FALSE]

TypeOK ==
    /\ page \in [dataset : Datasets \union {NoDataset}, look : Looks, view : AnyView,
                 step : Steps, playing : BOOLEAN, loop : BOOLEAN,
                 loaded : [frame : Frames, state : {"none", "loading", "ready", "error"}]]
    /\ refs \in [history : [past : Seq(Snapshots), future : Seq(Snapshots),
                            recorded : Snapshots, automatic : Steps \union {NoStep}],
                 scene : [frame : Frames, state : {"none", "loading", "ready", "error"}],
                 seen : Datasets \union {NoDataset}, timer : Steps \union {NoStep}]
    /\ pending \in BOOLEAN

-----------------------------------------------------------------------------
(* The playback *)

CanPlay(p) == p.dataset \in Collections
LoadFailed(p) == p.loaded = Report(FrameOf(p), "error")
AtEnd(p) == p.step >= LastStep
NextFrame(step) == IF step >= LastStep THEN FirstStep ELSE step + 1

\* The timer is set only once the frame on the screen has loaded.
TimerRunsLoading(p) == p.playing /\ CanPlay(p) /\ p.loaded.frame = FrameOf(p)
TimerRuns(p) == p.playing /\ CanPlay(p) /\ p.loaded = Report(FrameOf(p), "ready")

\* onLoadStateChange, in a page that shows p.
LoadStateChanged(p, frame, state) ==
    IF frame # FrameOf(p) THEN p
    ELSE [p EXCEPT !.loaded = Report(frame, state), !.playing = @ /\ state # "error"]

-----------------------------------------------------------------------------
(* Renders and their effects *)

\* The effects of the rendered page p, while q is the page to come: cleanups, then
\* the viewer's scene, the recording, the defaults and the playback.
EffectsWhen(rebuilt, r, p, q) ==
    LET frame == FrameOf(p)
        loads == rebuilt /\ frame # NoFrame
        ends == TimerRuns(p) /\ AtEnd(p) /\ ~p.loop
        stops == r.seen # p.dataset \/ ~CanPlay(p) \/ ends
    IN  [refs |-> [history |-> Record(r.history, SnapshotOf(p)),
                   scene |-> IF rebuilt
                             THEN Report(frame, IF loads THEN "loading" ELSE "none") ELSE r.scene,
                   seen |-> p.dataset,
                   timer |-> IF TimerRuns(p) /\ ~ends THEN NextFrame(p.step) ELSE NoStep],
         page |-> [q EXCEPT !.loaded = IF loads THEN Report(frame, "loading") ELSE @,
                            !.view = IF p.dataset \in Images /\ p.view = Blank
                                     THEN FirstView[p.dataset] ELSE @,
                            !.playing = @ /\ ~stops]]
EffectsOfDataset(r, p, q) == EffectsWhen(r.scene.frame.of # FrameOf(p).of, r, p, q)
Effects(r, p, q) == EffectsWhen(r.scene.frame # FrameOf(p), r, p, q)

\* A handler has left r and q. Effects that change the page render it again.
Handled(r, q, atOnce) ==
    \E before \in {IF pending THEN Effects(r, page, q) ELSE [refs |-> r, page |-> q]} :
    \E after \in {IF atOnce THEN Effects(before.refs, before.page, before.page) ELSE before} :
        /\ refs' = after.refs /\ page' = after.page
        /\ pending' = (~atOnce \/ after.page # before.page)

WithHistory(h) == [refs EXCEPT !.history = h]
Unautomatic == [refs.history EXCEPT !.automatic = NoStep]

EffectsRun ==
    /\ pending
    /\ LET after == Effects(refs, page, page) IN
       /\ refs' = after.refs /\ page' = after.page
       /\ pending' = (after.page # page)

-----------------------------------------------------------------------------
(* What the user does: each is a click or a key *)

EditLook(look) ==
    /\ look # page.look
    /\ Handled(refs, [page EXCEPT !.look = look], TRUE)

\* Turning the wheel moves the camera too, and is no discrete event.
EditView(view, atOnce) ==
    /\ page.dataset # NoDataset /\ view \in Views[page.dataset] \ {page.view}
    /\ Handled(refs, [page EXCEPT !.view = view], atOnce)

Seek(step) ==
    /\ page.dataset \in Collections
    /\ Handled(WithHistory(Unautomatic),
               [page EXCEPT !.step = step, !.playing = FALSE,
                            !.loaded = IF step # page.step THEN NothingLoaded ELSE @], TRUE)

\* Play, at the end of a playback that does not loop, starts from the first frame.
TogglePlayback ==
    /\ CanPlay(page) /\ ~LoadFailed(page)
    /\ IF ~page.playing /\ ~page.loop /\ AtEnd(page)
       THEN Handled(WithHistory([refs.history EXCEPT !.automatic = FirstStep]),
                    [page EXCEPT !.step = FirstStep, !.playing = TRUE, !.loaded = NothingLoaded], TRUE)
       ELSE Handled(refs, [page EXCEPT !.playing = ~@], TRUE)

SetLoop ==
    /\ page.dataset \in Collections
    /\ Handled(refs, [page EXCEPT !.loop = ~@], TRUE)

\* By the button, or by Ctrl+Z and Ctrl+Y outside a form control.
Undo ==
    /\ CanUndo(refs.history)
    /\ Handled(WithHistory(Undone(refs.history, SnapshotOf(page))),
               Showing(page, LastOf(refs.history.past)), TRUE)

Redo ==
    /\ CanRedo(refs.history)
    /\ Handled(WithHistory(Redone(refs.history, SnapshotOf(page))),
               Showing(page, LastOf(refs.history.future)), TRUE)

\* A project or a local dataset is chosen by a click; a server's dataset when its
\* row has come, outside any event.
Select(d, atOnce) ==
    LET target == ResetSnapshot(SnapshotOf(page), Blank) IN
    Handled(WithHistory(ResetHistory(refs.history, target)),
            [Showing(page, target) EXCEPT !.dataset = d], atOnce)

\* restorePipeline goes on from the selection it awaits before anything is rendered.
RestorePipeline(pipeline) ==
    LET blank == ResetSnapshot(SnapshotOf(page), Blank)
        target == SnapshotOf(pipeline)
    IN  Handled(WithHistory(Restored(ResetHistory(refs.history, blank), blank, target)),
                [Showing(page, target) EXCEPT !.dataset = pipeline.dataset], FALSE)

-----------------------------------------------------------------------------
(* What the viewer and the timer do, outside any event *)

\* finish(): the camera is read from the scene, saved or fitted, and emitted.
SceneFinishes ==
    LET of == refs.scene.frame.of IN
    /\ refs.scene.state = "loading"
    /\ Handled([refs EXCEPT !.scene.state = "ready"],
               [LoadStateChanged(page, refs.scene.frame, "ready") EXCEPT
                    !.view = IF @ = Blank THEN FirstView[of] ELSE @], FALSE)

SceneFails ==
    /\ refs.scene.state = "loading"
    /\ Handled([refs EXCEPT !.scene.state = "error"],
               LoadStateChanged(page, refs.scene.frame, "error"), FALSE)

TimerFires ==
    /\ refs.timer # NoStep
    /\ Handled([refs EXCEPT !.timer = NoStep, !.history.automatic = refs.timer],
               [page EXCEPT !.step = refs.timer, !.loaded = NothingLoaded], FALSE)

-----------------------------------------------------------------------------

Init ==
    /\ page = [dataset |-> NoDataset, look |-> FirstLook, view |-> Blank, step |-> FirstStep,
               playing |-> FALSE, loop |-> TRUE, loaded |-> NothingLoaded]
    /\ refs = [history |-> EmptyHistory(SnapshotOf(page)), scene |-> NothingLoaded,
               seen |-> NoDataset, timer |-> NoStep]
    /\ pending = FALSE

Edit ==
    \/ \E look \in Looks : EditLook(look)
    \/ \E view \in AnyView, atOnce \in BOOLEAN : EditView(view, atOnce)

UserNext ==
    \/ Edit
    \/ \E step \in Steps : Seek(step)
    \/ TogglePlayback \/ SetLoop
    \/ Undo \/ Redo
    \/ Select(NoDataset, TRUE)
    \/ \E d \in Datasets, atOnce \in BOOLEAN : Select(d, atOnce)
    \/ \E pipeline \in Pipelines : RestorePipeline(pipeline)

Next == UserNext \/ EffectsRun \/ SceneFinishes \/ SceneFails \/ TimerFires

\* Effects are run, fetches are answered or refused, and timers fire.
Fairness == WF_vars(EffectsRun) /\ WF_vars(SceneFinishes \/ SceneFails) /\ WF_vars(TimerFires)

Spec == Init /\ [][Next]_vars /\ Fairness

-----------------------------------------------------------------------------
(* Properties *)

\* What the next edit will be compared with is what is on the screen.
RecordedIsShown == ~pending => refs.history.recorded = SnapshotOf(page)

\* An hour of edits, undone and redone, keeps at most Limit snapshots.
HistoryBounded == Len(refs.history.past) + Len(refs.history.future) <= Limit

\* What was shown is the last entry of the history, or what the effect still to run
\* will make the next one.
ShownIsKept ==
    LET h == refs'.history IN
    IF pending' /\ h.recorded # SnapshotOf(page') THEN h.recorded = SnapshotOf(page)
    ELSE h.past # <<>> /\ LastOf(h.past) = SnapshotOf(page)

\* Whatever was on the screen when the user edited it is what undo brings back: a
\* step that changes the page and does not keep what it showed is no edit.
EditIsUndoable == [][page' = page \/ ShownIsKept \/ ~Edit]_vars

\* Undo moves one snapshot from one stack to the other: its own render, whose effect
\* sees everything change at once, is not taken for one more edit.
UndoIsNoEdit ==
    [][~pending /\ Undo =>
          /\ refs'.history.past = ButLast(refs.history.past)
          /\ refs'.history.future = Append(refs.history.future, SnapshotOf(page))]_vars

\* Together: the history is that of the screen, however it was edited and undone.
HistoryFollows == TypeOK /\ RecordedIsShown /\ HistoryBounded

\* Together: each edit is one entry, and undoing or redoing is none.
EditsAreEntries == EditIsUndoable /\ UndoIsNoEdit

\* The playback leaves a frame only after it was rendered, however slow it loads.
NoFrameSkipped ==
    [][~pending /\ TimerFires => refs.scene = Report(FrameOf(page), "ready")]_vars

\* A playback goes on, or has stopped.
PlaybackGoesOn ==
    \A step \in Steps : (page.playing /\ page.step = step) ~> (page.step # step \/ ~page.playing)

\* useDisplayState: "clear both stacks so undo never crosses a dataset/project boundary".
HistoryOfDataset ==
    \A i \in DOMAIN refs.history.past :
        refs.history.past[i].view \in
            {Blank} \union (IF page.dataset = NoDataset THEN {} ELSE Views[page.dataset])

=============================================================================
