---------------------------- MODULE DisplayProofs ----------------------------
(***************************************************************************)
(* The undo history follows the screen, and the playback skips no frame,   *)
(* for any datasets, views, timesteps and limit. Every handler leaves refs *)
(* and a page in order (LeftOK); the effects of a render keep them so, and *)
(* once a render changes nothing more they agree with it (Settled).        *)
(* The arrows of a scene are those of the array that is chosen, for any    *)
(* points and limit: each ordinal that is sampled is that of one point.    *)
(* The files of a collection play in the order of time, each with its own  *)
(* URL, for any paths and lists of timesteps (LocalInv).                   *)
(***************************************************************************)
EXTENDS Display, VectorGlyphs, LocalFiles, FiniteSetTheorems, SequenceTheorems,
        WellFoundedInduction, TLAPS

Histories == [past : Seq(Snapshots), future : Seq(Snapshots),
              recorded : Snapshots, automatic : Steps \union {NoStep}]
LoadStates == {"none", "loading", "ready", "error"}
Reports == [frame : Frames, state : LoadStates]
MaybeDatasets == Datasets \union {NoDataset}
Pages == [dataset : MaybeDatasets, look : Looks, view : AnyView, step : Steps,
          playing : BOOLEAN, loop : BOOLEAN, loaded : Reports]
AllRefs == [history : Histories, scene : Reports, seen : MaybeDatasets,
            timer : Steps \union {NoStep}]

HistoryOK(h) == h \in Histories /\ Len(h.past) + Len(h.future) <= Limit

\* The page never counts a frame as loaded that the scene is still loading.
SceneOK(scene, loaded) ==
    /\ scene.state # "none" => scene.frame # NoFrame
    /\ loaded.state # "none" => loaded.frame # NoFrame
    /\ loaded.state = "ready" /\ loaded.frame = scene.frame => scene.state = "ready"

LeftOK(r, q) ==
    /\ r \in AllRefs /\ q \in Pages
    /\ HistoryOK(r.history)
    /\ SceneOK(r.scene, q.loaded)

HasDefaults(p) == p.dataset \in Images => p.view # Blank

Settled(r, p) ==
    /\ r.history.recorded = SnapshotOf(p) /\ r.history.automatic = NoStep
    /\ HasDefaults(p)
    /\ r.scene.frame = FrameOf(p)
    /\ r.timer # NoStep => TimerRuns(p)

Inv == LeftOK(refs, page) /\ pending \in BOOLEAN /\ (~pending => Settled(refs, page))

USE LimitAssumption

-----------------------------------------------------------------------------
(* The stacks *)

LEMMA StepsAreNumbers ==
    Steps \subseteq Nat /\ NoStep \notin Steps /\ FirstStep \in Steps /\ LastStep \in Steps
BY DisplayAssumption DEF Steps, NoStep, FirstStep

LEMMA AppendBoundedOK ==
    ASSUME NEW s \in Seq(Snapshots), Len(s) <= Limit, NEW x \in Snapshots,
           NEW t, t = AppendBounded(s, x)
    PROVE  /\ t \in Seq(Snapshots) /\ t # <<>>
           /\ LastOf(t) = x
           /\ Len(t) = IF Len(s) < Limit THEN Len(s) + 1 ELSE Limit
<1>1. Len(s) \in Nat
  BY LenProperties
<1>2. CASE Len(s) < Limit
  <2>1. t = Append(s, x)
    BY <1>2 DEF AppendBounded
  <2> QED
    BY <1>1, <1>2, <2>1, AppendProperties DEF LastOf
<1>3. CASE Len(s) = Limit
  <2>1. t = Append(Tail(s), x) /\ s # <<>>
    BY <1>3 DEF AppendBounded
  <2>2. Tail(s) \in Seq(Snapshots) /\ Len(Tail(s)) = Limit - 1
    BY <1>3, <2>1, HeadTailProperties
  <2> QED
    BY <1>3, <2>1, <2>2, AppendProperties DEF LastOf
<1> QED
  BY <1>1, <1>2, <1>3

LEMMA ButLastOK ==
    ASSUME NEW s \in Seq(Snapshots), s # <<>>
    PROVE  /\ ButLast(s) \in Seq(Snapshots)
           /\ Len(ButLast(s)) = Len(s) - 1
           /\ LastOf(s) \in Snapshots
           /\ Len(s) \in Nat \ {0}
<1>1. Len(s) \in Nat \ {0}
  BY EmptySeq
<1>2. \A i \in 1 .. Len(s) : s[i] \in Snapshots
  BY ElementOfSeq
<1>3. /\ SubSeq(s, 1, Len(s) - 1) \in Seq(Snapshots)
      /\ Len(SubSeq(s, 1, Len(s) - 1)) = IF 1 <= Len(s) - 1 THEN Len(s) - 1 - 1 + 1 ELSE 0
  BY <1>1, <1>2, SubSeqProperties
<1>4. Len(SubSeq(s, 1, Len(s) - 1)) = Len(s) - 1
  <2>1. PICK n \in Nat \ {0} : n = Len(s)
    BY <1>1
  <2>2. PICK m : m = Len(SubSeq(s, 1, Len(s) - 1))
    OBVIOUS
  <2>3. m = IF 1 <= n - 1 THEN n - 1 - 1 + 1 ELSE 0
    BY <1>3, <2>1, <2>2
  <2>4. m = n - 1
    BY <2>3
  <2> QED
    BY <2>1, <2>2, <2>4
<1>5. s[Len(s)] \in Snapshots
  BY <1>1, <1>2
<1> QED
  BY <1>1, <1>3, <1>4, <1>5 DEF ButLast, LastOf

\* A history, taken apart and put together.
LEMMA HistoryFields ==
    ASSUME NEW h, HistoryOK(h)
    PROVE  /\ h.past \in Seq(Snapshots) /\ h.future \in Seq(Snapshots)
           /\ h.recorded \in Snapshots /\ h.automatic \in Steps \union {NoStep}
           /\ Len(h.past) \in Nat /\ Len(h.future) \in Nat
           /\ Len(h.past) <= Limit /\ Len(h.future) <= Limit
           /\ h = [past |-> h.past, future |-> h.future,
                   recorded |-> h.recorded, automatic |-> h.automatic]
<1>1. /\ h.past \in Seq(Snapshots) /\ h.future \in Seq(Snapshots)
      /\ h.recorded \in Snapshots /\ h.automatic \in Steps \union {NoStep}
      /\ h = [past |-> h.past, future |-> h.future,
              recorded |-> h.recorded, automatic |-> h.automatic]
  BY DEF HistoryOK, Histories
<1>2. Len(h.past) \in Nat /\ Len(h.future) \in Nat
  BY <1>1, LenProperties
<1> QED
  BY <1>1, <1>2 DEF HistoryOK

LEMMA PushedOK ==
    ASSUME NEW h, HistoryOK(h), NEW x \in Snapshots, NEW t, t = Pushed(h, x)
    PROVE  /\ HistoryOK(t)
           /\ t.recorded = h.recorded /\ t.automatic = h.automatic
           /\ t.past # <<>> /\ LastOf(t.past) = x
<1>1. /\ h.past \in Seq(Snapshots) /\ Len(h.past) <= Limit
      /\ h.recorded \in Snapshots /\ h.automatic \in Steps \union {NoStep}
      /\ h = [past |-> h.past, future |-> h.future,
              recorded |-> h.recorded, automatic |-> h.automatic]
  BY HistoryFields
<1>2. t = [past |-> AppendBounded(h.past, x), future |-> <<>>,
           recorded |-> h.recorded, automatic |-> h.automatic]
  BY <1>1 DEF Pushed
<1>3. /\ t.past \in Seq(Snapshots) /\ t.past # <<>>
      /\ LastOf(t.past) = x
      /\ Len(t.past) = IF Len(h.past) < Limit THEN Len(h.past) + 1 ELSE Limit
  BY <1>1, <1>2, AppendBoundedOK
<1>4. Len(h.past) \in Nat /\ <<>> \in Seq(Snapshots) /\ Len(<<>>) = 0
  BY HistoryFields, EmptySeq
<1>5. t \in Histories
  BY <1>1, <1>2, <1>3, <1>4 DEF Histories
<1>6. Len(t.past) + Len(t.future) <= Limit
  BY <1>2, <1>3, <1>4
<1> QED
  BY <1>2, <1>3, <1>5, <1>6 DEF HistoryOK

\* What an entry of the history says of the screen, after one more render.
LEMMA RecordOK ==
    ASSUME NEW h, HistoryOK(h), NEW s \in Snapshots, NEW t, t = Record(h, s)
    PROVE  /\ HistoryOK(t)
           /\ t.recorded = s /\ t.automatic = NoStep
           /\ h.recorded = s => t.past = h.past /\ t.future = h.future
           /\ h.automatic = NoStep /\ h.recorded # s
                => t.past # <<>> /\ LastOf(t.past) = h.recorded
<1>1. /\ h.past \in Seq(Snapshots) /\ h.future \in Seq(Snapshots)
      /\ h.recorded \in Snapshots
      /\ h = [past |-> h.past, future |-> h.future,
              recorded |-> h.recorded, automatic |-> h.automatic]
  BY HistoryFields
<1>2. PICK g : g = [h EXCEPT !.recorded = s, !.automatic = NoStep]
  OBVIOUS
<1>3. g = [past |-> h.past, future |-> h.future, recorded |-> s, automatic |-> NoStep]
  BY <1>1, <1>2
<1>4. HistoryOK(g)
  BY <1>1, <1>3 DEF HistoryOK, Histories
<1>5. PICK o : o = Observed(h, s)
  OBVIOUS
<1>6. PICK x : x = h.recorded
  OBVIOUS
<1>7. /\ x = [look |-> x.look, view |-> x.view, step |-> x.step]
      /\ s = [look |-> s.look, view |-> s.view, step |-> s.step]
      /\ x.look \in Looks /\ x.view \in AnyView
      /\ s.step \in Steps /\ s.step # NoStep
  BY <1>1, <1>6, StepsAreNumbers DEF Snapshots
<1>8. o = IF h.automatic = s.step THEN [look |-> x.look, view |-> x.view, step |-> s.step] ELSE x
  BY <1>5, <1>6, <1>7 DEF Observed
<1>9. /\ o \in Snapshots
      /\ h.recorded = s => o = s
      /\ h.automatic = NoStep => o = h.recorded
  BY <1>1, <1>6, <1>7, <1>8 DEF Snapshots
<1>10. t = IF o = s THEN g ELSE Pushed(g, o)
  BY <1>2, <1>5 DEF Record
<1>11. CASE o = s
  BY <1>3, <1>4, <1>9, <1>10, <1>11
<1>12. CASE o # s
  <2>1. /\ HistoryOK(t) /\ t.recorded = g.recorded /\ t.automatic = g.automatic
        /\ t.past # <<>> /\ LastOf(t.past) = o
    BY <1>4, <1>9, <1>10, <1>12, PushedOK
  <2> QED
    BY <1>3, <1>9, <1>12, <2>1
<1> QED
  BY <1>11, <1>12

LEMMA AppliedOK ==
    ASSUME NEW h, HistoryOK(h), NEW s \in Snapshots, NEW t, t = Applied(h, s)
    PROVE  /\ HistoryOK(t) /\ t.recorded = s /\ t.automatic = NoStep
           /\ t.past = h.past /\ t.future = h.future
<1>1. h = [past |-> h.past, future |-> h.future,
           recorded |-> h.recorded, automatic |-> h.automatic]
  BY HistoryFields
<1>2. t = [past |-> h.past, future |-> h.future, recorded |-> s, automatic |-> NoStep]
  BY <1>1 DEF Applied
<1> QED
  BY <1>2, HistoryFields DEF HistoryOK, Histories

LEMMA UndoneOK ==
    ASSUME NEW h, HistoryOK(h), CanUndo(h), NEW s \in Snapshots, NEW t, t = Undone(h, s)
    PROVE  /\ HistoryOK(t) /\ LastOf(h.past) \in Snapshots
           /\ t.recorded = LastOf(h.past)
           /\ t.past = ButLast(h.past) /\ t.future = Append(h.future, s)
<1>1. /\ h.past \in Seq(Snapshots) /\ h.future \in Seq(Snapshots)
      /\ h.recorded \in Snapshots /\ h.automatic \in Steps \union {NoStep}
      /\ Len(h.past) \in Nat /\ Len(h.future) \in Nat
      /\ Len(h.future) <= Limit
      /\ h = [past |-> h.past, future |-> h.future,
              recorded |-> h.recorded, automatic |-> h.automatic]
  BY HistoryFields
<1>2. /\ ButLast(h.past) \in Seq(Snapshots) /\ LastOf(h.past) \in Snapshots
      /\ Len(ButLast(h.past)) = Len(h.past) - 1 /\ Len(h.past) \in Nat \ {0}
  BY <1>1, ButLastOK DEF CanUndo
<1>3. Len(h.future) < Limit
  BY <1>1, <1>2 DEF HistoryOK
<1>4. PICK f : f = AppendBounded(h.future, s)
  OBVIOUS
<1>5. f \in Seq(Snapshots) /\ Len(f) = Len(h.future) + 1 /\ f = Append(h.future, s)
  BY <1>1, <1>3, <1>4, AppendBoundedOK DEF AppendBounded
<1>6. PICK p : p = ButLast(h.past)
  OBVIOUS
<1>7. PICK g : g = [h EXCEPT !.past = p, !.future = f]
  OBVIOUS
<1>8. g = [past |-> p, future |-> f, recorded |-> h.recorded, automatic |-> h.automatic]
  BY <1>1, <1>7
<1>9. HistoryOK(g)
  BY <1>1, <1>2, <1>5, <1>6, <1>8 DEF HistoryOK, Histories
<1>10. t = Applied(g, LastOf(h.past))
  BY <1>4, <1>6, <1>7 DEF Undone
<1>11. /\ HistoryOK(t) /\ t.recorded = LastOf(h.past)
      /\ t.past = g.past /\ t.future = g.future
  BY <1>2, <1>9, <1>10, AppliedOK
<1> QED
  BY <1>2, <1>5, <1>6, <1>8, <1>11

LEMMA RedoneOK ==
    ASSUME NEW h, HistoryOK(h), CanRedo(h), NEW s \in Snapshots, NEW t, t = Redone(h, s)
    PROVE  HistoryOK(t) /\ LastOf(h.future) \in Snapshots
<1>1. /\ h.past \in Seq(Snapshots) /\ h.future \in Seq(Snapshots)
      /\ h.recorded \in Snapshots /\ h.automatic \in Steps \union {NoStep}
      /\ Len(h.past) \in Nat /\ Len(h.future) \in Nat
      /\ Len(h.past) <= Limit
      /\ h = [past |-> h.past, future |-> h.future,
              recorded |-> h.recorded, automatic |-> h.automatic]
  BY HistoryFields
<1>2. /\ ButLast(h.future) \in Seq(Snapshots) /\ LastOf(h.future) \in Snapshots
      /\ Len(ButLast(h.future)) = Len(h.future) - 1 /\ Len(h.future) \in Nat \ {0}
  BY <1>1, ButLastOK DEF CanRedo
<1>3. Len(h.past) < Limit
  BY <1>1, <1>2 DEF HistoryOK
<1>4. PICK f : f = AppendBounded(h.past, s)
  OBVIOUS
<1>5. f \in Seq(Snapshots) /\ Len(f) = Len(h.past) + 1
  BY <1>1, <1>3, <1>4, AppendBoundedOK
<1>6. PICK p : p = ButLast(h.future)
  OBVIOUS
<1>7. PICK g : g = [h EXCEPT !.past = f, !.future = p]
  OBVIOUS
<1>8. g = [past |-> f, future |-> p, recorded |-> h.recorded, automatic |-> h.automatic]
  BY <1>1, <1>7
<1>9. HistoryOK(g)
  BY <1>1, <1>2, <1>5, <1>6, <1>8 DEF HistoryOK, Histories
<1>10. t = Applied(g, LastOf(h.future))
  BY <1>4, <1>6, <1>7 DEF Redone
<1> QED
  BY <1>2, <1>9, <1>10, AppliedOK

LEMMA ResetHistoryOK ==
    ASSUME NEW h, HistoryOK(h), NEW s \in Snapshots
    PROVE  HistoryOK(ResetHistory(h, s))
<1>1. /\ h.recorded \in Snapshots /\ h.automatic \in Steps \union {NoStep}
      /\ h = [past |-> h.past, future |-> h.future,
              recorded |-> h.recorded, automatic |-> h.automatic]
  BY HistoryFields
<1>2. PICK g : g = [h EXCEPT !.past = <<>>, !.future = <<>>]
  OBVIOUS
<1>3. g = [past |-> <<>>, future |-> <<>>, recorded |-> h.recorded, automatic |-> h.automatic]
  BY <1>1, <1>2
<1>4. <<>> \in Seq(Snapshots) /\ Len(<<>>) = 0
  BY EmptySeq
<1>5. HistoryOK(g)
  BY <1>1, <1>3, <1>4 DEF HistoryOK, Histories
<1> QED
  BY <1>2, <1>5, AppliedOK DEF ResetHistory

LEMMA RestoredOK ==
    ASSUME NEW h, HistoryOK(h), NEW s \in Snapshots, NEW x \in Snapshots
    PROVE  HistoryOK(Restored(h, s, x))
<1>1. PICK g : g = IF s = x THEN h ELSE Pushed(h, s)
  OBVIOUS
<1>2. HistoryOK(g)
  BY <1>1, PushedOK
<1> QED
  BY <1>1, <1>2, AppliedOK DEF Restored

-----------------------------------------------------------------------------
(* Pages and the effects of a render *)

LEMMA PageFields ==
    ASSUME NEW p \in Pages
    PROVE  /\ p.dataset \in MaybeDatasets /\ p.look \in Looks /\ p.view \in AnyView
           /\ p.step \in Steps /\ p.playing \in BOOLEAN /\ p.loop \in BOOLEAN
           /\ p.loaded \in Reports
           /\ p = [dataset |-> p.dataset, look |-> p.look, view |-> p.view, step |-> p.step,
                   playing |-> p.playing, loop |-> p.loop, loaded |-> p.loaded]
BY DEF Pages

LEMMA RefsFields ==
    ASSUME NEW r \in AllRefs
    PROVE  /\ r.history \in Histories /\ r.scene \in Reports
           /\ r.seen \in MaybeDatasets /\ r.timer \in Steps \union {NoStep}
           /\ r = [history |-> r.history, scene |-> r.scene, seen |-> r.seen, timer |-> r.timer]
BY DEF AllRefs

LEMMA SnapshotOfPage ==
    ASSUME NEW p \in Pages
    PROVE  /\ SnapshotOf(p) \in Snapshots
           /\ SnapshotOf(p) = [look |-> p.look, view |-> p.view, step |-> p.step]
BY PageFields DEF SnapshotOf, Snapshots

LEMMA FrameOfPage ==
    ASSUME NEW p \in Pages
    PROVE  FrameOf(p) \in Frames
<1>1. p.dataset \in MaybeDatasets /\ p.step \in Steps /\ FirstStep \in Steps
  BY PageFields, StepsAreNumbers
<1>2. CASE p.dataset = NoDataset
  BY <1>2, DisplayAssumption DEF FrameOf, NoFrame, Frames
<1>3. CASE p.dataset \in Datasets
  BY <1>1, <1>3 DEF FrameOf, Frames
<1> QED
  BY <1>1, <1>2, <1>3 DEF MaybeDatasets

LEMMA FirstViews ==
    ASSUME NEW d \in Datasets
    PROVE  FirstView[d] \in AnyView /\ FirstView[d] # Blank /\ Views[d] \subseteq AnyView
BY DisplayAssumption DEF AnyView

\* The next frame of a playback is one.
LEMMA NextFrameType ==
    ASSUME NEW step \in Steps
    PROVE  NextFrame(step) \in Steps
BY DisplayAssumption DEF NextFrame, Steps, FirstStep

LEMMA EffectsOK ==
    ASSUME NEW r, NEW p \in Pages, NEW q, LeftOK(r, q),
           NEW e, e = Effects(r, p, q)
    PROVE  /\ LeftOK(e.refs, e.page)
           /\ e.refs.history = Record(r.history, SnapshotOf(p))
           /\ e.refs.scene.frame = FrameOf(p)
           /\ e.refs.timer # NoStep => TimerRuns(p)
           /\ e.page.dataset = q.dataset /\ e.page.look = q.look /\ e.page.step = q.step
           /\ e.page.view = IF p.dataset \in Images /\ p.view = Blank
                            THEN FirstView[p.dataset] ELSE q.view
<1> DEFINE frame == FrameOf(p)
           rebuilt == r.scene.frame # frame
           loads == rebuilt /\ frame # NoFrame
           ends == TimerRuns(p) /\ AtEnd(p) /\ ~p.loop
           stops == r.seen # p.dataset \/ ~CanPlay(p) \/ ends
           history == Record(r.history, SnapshotOf(p))
           scene == IF rebuilt THEN Report(frame, IF loads THEN "loading" ELSE "none") ELSE r.scene
           timer == IF TimerRuns(p) /\ ~ends THEN NextFrame(p.step) ELSE NoStep
           loaded == IF loads THEN Report(frame, "loading") ELSE q.loaded
           view == IF p.dataset \in Images /\ p.view = Blank THEN FirstView[p.dataset] ELSE q.view
           playing == q.playing /\ ~stops
<1>1. /\ r \in AllRefs /\ q \in Pages /\ HistoryOK(r.history) /\ SceneOK(r.scene, q.loaded)
  BY DEF LeftOK
<1>2. e = [refs |-> [history |-> history, scene |-> scene, seen |-> p.dataset, timer |-> timer],
           page |-> [q EXCEPT !.loaded = loaded, !.view = view, !.playing = playing]]
  BY DEF Effects, EffectsWhen
<1>3. frame \in Frames /\ p.dataset \in MaybeDatasets /\ p.step \in Steps
  BY FrameOfPage, PageFields
<1>4. HistoryOK(history)
  BY <1>1, SnapshotOfPage, RecordOK
<1>5. timer \in Steps \union {NoStep} /\ (timer # NoStep => TimerRuns(p))
  BY <1>3, NextFrameType
<1>6. r.scene \in Reports /\ q.loaded \in Reports /\ q.view \in AnyView
      /\ q.playing \in BOOLEAN
  BY <1>1, RefsFields, PageFields
<1>7. view \in AnyView
  BY <1>6, FirstViews, DisplayAssumption
<1>8. scene \in Reports /\ loaded \in Reports
      /\ scene.frame = frame /\ SceneOK(scene, loaded)
  <2>1. CASE loads
    BY <1>1, <1>3, <1>6, <2>1 DEF Report, Reports, LoadStates, SceneOK
  <2>2. CASE rebuilt /\ ~loads
    <3>1. scene = [frame |-> NoFrame, state |-> "none"] /\ loaded = q.loaded /\ frame = NoFrame
      BY <2>2 DEF Report
    <3> QED
      BY <1>1, <1>3, <1>6, <3>1 DEF Reports, LoadStates, SceneOK
  <2>3. CASE ~rebuilt
    <3>1. scene = r.scene /\ loaded = q.loaded
      BY <2>3
    <3> QED
      BY <1>1, <1>6, <2>3, <3>1
  <2> QED
    BY <2>1, <2>2, <2>3
<1>9. playing \in BOOLEAN
  BY <1>6
<1> HIDE DEF history, scene, timer, loaded, view, playing, frame, rebuilt, loads, ends, stops
<1>10. e.page = [dataset |-> q.dataset, look |-> q.look, view |-> view, step |-> q.step,
                 playing |-> playing, loop |-> q.loop, loaded |-> loaded]
  <2>1. e.page = [q EXCEPT !.loaded = loaded, !.view = view, !.playing = playing]
    BY <1>2
  <2>2. q = [dataset |-> q.dataset, look |-> q.look, view |-> q.view, step |-> q.step,
             playing |-> q.playing, loop |-> q.loop, loaded |-> q.loaded]
    BY <1>1, PageFields
  <2> QED
    BY <2>1, <2>2
<1>11. e.refs = [history |-> history, scene |-> scene, seen |-> p.dataset, timer |-> timer]
  BY <1>2
<1>12. e.page \in Pages
  BY <1>1, <1>7, <1>8, <1>9, <1>10, PageFields DEF Pages
<1>13. e.refs \in AllRefs
  BY <1>3, <1>4, <1>5, <1>8, <1>11 DEF AllRefs, HistoryOK
<1>14. LeftOK(e.refs, e.page)
  BY <1>4, <1>8, <1>10, <1>11, <1>12, <1>13 DEF LeftOK
<1>15. /\ e.refs.history = Record(r.history, SnapshotOf(p))
       /\ e.page.view = IF p.dataset \in Images /\ p.view = Blank
                        THEN FirstView[p.dataset] ELSE q.view
       /\ e.refs.scene.frame = FrameOf(p)
  BY <1>8, <1>10, <1>11 DEF history, view, frame
<1> QED
  BY <1>5, <1>10, <1>11, <1>14, <1>15

\* When its effects leave the rendered page as it is, they agree with it.
LEMMA EffectsSettle ==
    ASSUME NEW r, NEW p, LeftOK(r, p), NEW e, e = Effects(r, p, p), e.page = p
    PROVE  Settled(e.refs, p)
<1>1. p \in Pages /\ HistoryOK(r.history)
  BY DEF LeftOK
<1>2. /\ e.refs.history = Record(r.history, SnapshotOf(p))
      /\ e.refs.scene.frame = FrameOf(p)
      /\ e.refs.timer # NoStep => TimerRuns(p)
      /\ p.view = IF p.dataset \in Images /\ p.view = Blank
                  THEN FirstView[p.dataset] ELSE p.view
  BY <1>1, EffectsOK
<1>3. e.refs.history.recorded = SnapshotOf(p) /\ e.refs.history.automatic = NoStep
  BY <1>1, <1>2, SnapshotOfPage, RecordOK
<1>4. HasDefaults(p)
  BY <1>2, FirstViews, DisplayAssumption DEF HasDefaults
<1> QED
  BY <1>2, <1>3, <1>4 DEF Settled

LEMMA EffectsRunInv == ASSUME Inv, EffectsRun PROVE Inv'
<1>1. PICK e : e = Effects(refs, page, page)
  OBVIOUS
<1>2. refs' = e.refs /\ page' = e.page /\ pending' = (e.page # page)
  BY <1>1 DEF EffectsRun
<1>3. LeftOK(e.refs, e.page)
  BY <1>1, EffectsOK DEF Inv, LeftOK
<1>4. e.page = page => Settled(e.refs, e.page)
  BY <1>1, EffectsSettle DEF Inv
<1>5. pending' \in BOOLEAN
  BY <1>2
<1> QED
  BY <1>2, <1>3, <1>4, <1>5 DEF Inv

\* What a handler leaves in order, the renders after it keep in order.
LEMMA HandledInv ==
    ASSUME Inv, NEW r, NEW q, LeftOK(r, q), NEW atOnce \in BOOLEAN, Handled(r, q, atOnce)
    PROVE  Inv'
<1>1. PICK before :
        /\ before = IF pending THEN Effects(r, page, q) ELSE [refs |-> r, page |-> q]
        /\ \E after \in {IF atOnce THEN Effects(before.refs, before.page, before.page) ELSE before} :
              /\ refs' = after.refs /\ page' = after.page
              /\ pending' = (~atOnce \/ after.page # before.page)
  BY DEF Handled
<1>2. PICK after :
        /\ after = IF atOnce THEN Effects(before.refs, before.page, before.page) ELSE before
        /\ refs' = after.refs /\ page' = after.page
        /\ pending' = (~atOnce \/ after.page # before.page)
  BY <1>1
<1>3. LeftOK(before.refs, before.page)
  <2>1. CASE pending
    BY <1>1, <2>1, EffectsOK DEF Inv, LeftOK
  <2>2. CASE ~pending
    BY <1>1, <2>2
  <2> QED
    BY <2>1, <2>2
<1>4. LeftOK(after.refs, after.page)
  <2>1. CASE atOnce
    BY <1>2, <1>3, <2>1, EffectsOK DEF LeftOK
  <2>2. CASE ~atOnce
    BY <1>2, <1>3, <2>2
  <2> QED
    BY <2>1, <2>2
<1>5. ASSUME ~pending' PROVE Settled(after.refs, after.page)
  <2>1. atOnce /\ after.page = before.page
    BY <1>2, <1>5
  <2> QED
    BY <1>2, <1>3, <2>1, EffectsSettle
<1>6. pending' \in BOOLEAN
  BY <1>2
<1> QED
  BY <1>2, <1>4, <1>5, <1>6 DEF Inv

-----------------------------------------------------------------------------
(* What each handler leaves *)

LEMMA LeftPage ==
    ASSUME Inv, NEW q \in Pages, q.loaded \in {page.loaded, NothingLoaded}
    PROVE  LeftOK(refs, q)
<1>1. LeftOK(refs, page)
  BY DEF Inv
<1>2. SceneOK(refs.scene, q.loaded)
  <2>1. CASE q.loaded = page.loaded
    BY <1>1, <2>1 DEF LeftOK
  <2>2. CASE q.loaded = NothingLoaded
    BY <1>1, <2>2 DEF LeftOK, SceneOK, NothingLoaded, Report
  <2> QED
    BY <2>1, <2>2
<1> QED
  BY <1>1, <1>2 DEF LeftOK

LEMMA LeftHistory ==
    ASSUME Inv, NEW h, HistoryOK(h), NEW q \in Pages, q.loaded \in {page.loaded, NothingLoaded}
    PROVE  LeftOK(WithHistory(h), q) /\ WithHistory(h).history = h
<1>1. LeftOK(refs, q)
  BY LeftPage
<1>2. WithHistory(h) = [history |-> h, scene |-> refs.scene, seen |-> refs.seen, timer |-> refs.timer]
  BY <1>1, RefsFields DEF LeftOK, WithHistory
<1>3. WithHistory(h) \in AllRefs
  BY <1>1, <1>2, RefsFields DEF LeftOK, AllRefs, HistoryOK
<1> QED
  BY <1>1, <1>2, <1>3 DEF LeftOK

LEMMA AutomaticOK ==
    ASSUME NEW h, HistoryOK(h), NEW step \in Steps \union {NoStep}
    PROVE  HistoryOK([h EXCEPT !.automatic = step])
<1>1. PICK g : g = [h EXCEPT !.automatic = step]
  OBVIOUS
<1>2. h = [past |-> h.past, future |-> h.future,
           recorded |-> h.recorded, automatic |-> h.automatic]
  BY HistoryFields
<1>3. g = [past |-> h.past, future |-> h.future, recorded |-> h.recorded, automatic |-> step]
  BY <1>1, <1>2
<1>4. HistoryOK(g)
  BY <1>3, HistoryFields DEF HistoryOK, Histories
<1> QED
  BY <1>1, <1>4

LEMMA ShowingOK ==
    ASSUME NEW p \in Pages, NEW s \in Snapshots, NEW q, q = Showing(p, s)
    PROVE  /\ q \in Pages /\ q.loaded = p.loaded /\ q.dataset = p.dataset
           /\ SnapshotOf(q) = s
<1>1. /\ s = [look |-> s.look, view |-> s.view, step |-> s.step]
      /\ s.look \in Looks /\ s.view \in AnyView /\ s.step \in Steps
  BY DEF Snapshots
<1>2. p = [dataset |-> p.dataset, look |-> p.look, view |-> p.view, step |-> p.step,
           playing |-> p.playing, loop |-> p.loop, loaded |-> p.loaded]
  BY PageFields
<1>3. q = [p EXCEPT !.look = s.look, !.view = s.view, !.step = s.step, !.playing = FALSE]
  BY DEF Showing
<1>4. q = [dataset |-> p.dataset, look |-> s.look, view |-> s.view, step |-> s.step,
           playing |-> FALSE, loop |-> p.loop, loaded |-> p.loaded]
  BY <1>2, <1>3
<1>5. q \in Pages
  BY <1>1, <1>4, PageFields DEF Pages
<1> QED
  BY <1>1, <1>4, <1>5 DEF SnapshotOf

LEMMA PageInv ==
    ASSUME Inv
    PROVE  /\ page \in Pages /\ refs \in AllRefs /\ HistoryOK(refs.history)
           /\ SnapshotOf(page) \in Snapshots
BY SnapshotOfPage DEF Inv, LeftOK

LEMMA EditLookInv == ASSUME Inv, NEW look \in Looks, EditLook(look) PROVE Inv'
<1>1. PICK q : q = [page EXCEPT !.look = look]
  OBVIOUS
<1>2. q \in Pages /\ q.loaded = page.loaded
  BY <1>1, PageInv DEF Pages
<1>3. Handled(refs, q, TRUE)
  BY <1>1 DEF EditLook
<1> QED
  BY <1>2, <1>3, LeftPage, HandledInv

LEMMA EditViewInv ==
    ASSUME Inv, NEW view \in AnyView, NEW atOnce \in BOOLEAN, EditView(view, atOnce)
    PROVE  Inv'
<1>1. PICK q : q = [page EXCEPT !.view = view]
  OBVIOUS
<1>2. q \in Pages /\ q.loaded = page.loaded
  BY <1>1, PageInv DEF Pages
<1>3. Handled(refs, q, atOnce)
  BY <1>1 DEF EditView
<1> QED
  BY <1>2, <1>3, LeftPage, HandledInv

LEMMA SeekInv == ASSUME Inv, NEW step \in Steps, Seek(step) PROVE Inv'
<1>1. PICK q : q = [page EXCEPT !.step = step, !.playing = FALSE,
                                !.loaded = IF step # page.step THEN NothingLoaded ELSE @]
  OBVIOUS
<1>2. q \in Pages /\ q.loaded \in {page.loaded, NothingLoaded}
  BY <1>1, PageInv DEF Pages, Reports, LoadStates, NothingLoaded, Report, Frames
<1>3. HistoryOK(Unautomatic)
  BY PageInv, AutomaticOK DEF Unautomatic
<1>4. Handled(WithHistory(Unautomatic), q, TRUE)
  BY <1>1 DEF Seek
<1> QED
  BY <1>2, <1>3, <1>4, LeftHistory, HandledInv

LEMMA TogglePlaybackInv == ASSUME Inv, TogglePlayback PROVE Inv'
<1>1. CASE ~page.playing /\ ~page.loop /\ AtEnd(page)
  <2>1. PICK q : q = [page EXCEPT !.step = FirstStep, !.playing = TRUE, !.loaded = NothingLoaded]
    OBVIOUS
  <2>2. q \in Pages /\ q.loaded \in {page.loaded, NothingLoaded}
    BY <2>1, PageInv, StepsAreNumbers
       DEF Pages, Reports, LoadStates, NothingLoaded, Report, Frames
  <2>3. PICK h : h = [refs.history EXCEPT !.automatic = FirstStep]
    OBVIOUS
  <2>4. HistoryOK(h)
    BY <2>3, PageInv, StepsAreNumbers, AutomaticOK
  <2>5. Handled(WithHistory(h), q, TRUE)
    BY <1>1, <2>1, <2>3 DEF TogglePlayback
  <2> QED
    BY <2>2, <2>4, <2>5, LeftHistory, HandledInv
<1>2. CASE ~(~page.playing /\ ~page.loop /\ AtEnd(page))
  <2>1. PICK q : q = [page EXCEPT !.playing = ~@]
    OBVIOUS
  <2>2. q \in Pages /\ q.loaded = page.loaded
    BY <2>1, PageInv DEF Pages
  <2>3. Handled(refs, q, TRUE)
    BY <1>2, <2>1 DEF TogglePlayback
  <2> QED
    BY <2>2, <2>3, LeftPage, HandledInv
<1> QED
  BY <1>1, <1>2

LEMMA SetLoopInv == ASSUME Inv, SetLoop PROVE Inv'
<1>1. PICK q : q = [page EXCEPT !.loop = ~@]
  OBVIOUS
<1>2. q \in Pages /\ q.loaded = page.loaded
  BY <1>1, PageInv DEF Pages
<1>3. Handled(refs, q, TRUE)
  BY <1>1 DEF SetLoop
<1> QED
  BY <1>2, <1>3, LeftPage, HandledInv

LEMMA UndoInv == ASSUME Inv, Undo PROVE Inv'
<1>1. PICK h : h = Undone(refs.history, SnapshotOf(page))
  OBVIOUS
<1>2. PICK q : q = Showing(page, LastOf(refs.history.past))
  OBVIOUS
<1>3. HistoryOK(h) /\ LastOf(refs.history.past) \in Snapshots
  BY <1>1, PageInv, UndoneOK DEF Undo
<1>4. q \in Pages /\ q.loaded = page.loaded
  BY <1>2, <1>3, PageInv, ShowingOK
<1>5. Handled(WithHistory(h), q, TRUE)
  BY <1>1, <1>2 DEF Undo
<1> QED
  BY <1>3, <1>4, <1>5, LeftHistory, HandledInv

LEMMA RedoInv == ASSUME Inv, Redo PROVE Inv'
<1>1. PICK h : h = Redone(refs.history, SnapshotOf(page))
  OBVIOUS
<1>2. PICK q : q = Showing(page, LastOf(refs.history.future))
  OBVIOUS
<1>3. HistoryOK(h) /\ LastOf(refs.history.future) \in Snapshots
  BY <1>1, PageInv, RedoneOK DEF Redo
<1>4. q \in Pages /\ q.loaded = page.loaded
  BY <1>2, <1>3, PageInv, ShowingOK
<1>5. Handled(WithHistory(h), q, TRUE)
  BY <1>1, <1>2 DEF Redo
<1> QED
  BY <1>3, <1>4, <1>5, LeftHistory, HandledInv

LEMMA ResetSnapshotType ==
    ASSUME NEW s \in Snapshots
    PROVE  ResetSnapshot(s, Blank) \in Snapshots
BY StepsAreNumbers DEF ResetSnapshot, Snapshots, AnyView

LEMMA SelectInv ==
    ASSUME Inv, NEW d \in MaybeDatasets, NEW atOnce \in BOOLEAN, Select(d, atOnce)
    PROVE  Inv'
<1>1. PICK target : target = ResetSnapshot(SnapshotOf(page), Blank)
  OBVIOUS
<1>2. PICK p : p = Showing(page, target)
  OBVIOUS
<1>3. PICK q : q = [p EXCEPT !.dataset = d]
  OBVIOUS
<1>4. PICK h : h = ResetHistory(refs.history, target)
  OBVIOUS
<1>5. target \in Snapshots
  BY <1>1, PageInv, ResetSnapshotType
<1>6. p \in Pages /\ p.loaded = page.loaded
  BY <1>2, <1>5, PageInv, ShowingOK
<1>7. q \in Pages /\ q.loaded = page.loaded
  BY <1>3, <1>6 DEF Pages
<1>8. HistoryOK(h)
  BY <1>4, <1>5, PageInv, ResetHistoryOK
<1>9. Handled(WithHistory(h), q, atOnce)
  BY <1>1, <1>2, <1>3, <1>4 DEF Select
<1> QED
  BY <1>7, <1>8, <1>9, LeftHistory, HandledInv

LEMMA RestorePipelineInv ==
    ASSUME Inv, NEW pipeline \in Pipelines, RestorePipeline(pipeline)
    PROVE  Inv'
<1>1. PICK blank : blank = ResetSnapshot(SnapshotOf(page), Blank)
  OBVIOUS
<1>2. PICK target : target = SnapshotOf(pipeline)
  OBVIOUS
<1>3. PICK p : p = Showing(page, target)
  OBVIOUS
<1>4. PICK q : q = [p EXCEPT !.dataset = pipeline.dataset]
  OBVIOUS
<1>5. PICK h : h = Restored(ResetHistory(refs.history, blank), blank, target)
  OBVIOUS
<1>6. blank \in Snapshots
  BY <1>1, PageInv, ResetSnapshotType
<1>7. target \in Snapshots /\ pipeline.dataset \in MaybeDatasets
  BY <1>2, DisplayAssumption DEF SnapshotOf, Snapshots, AnyView, Steps, MaybeDatasets
<1>8. p \in Pages /\ p.loaded = page.loaded
  BY <1>3, <1>7, PageInv, ShowingOK
<1>9. q \in Pages /\ q.loaded = page.loaded
  BY <1>4, <1>7, <1>8 DEF Pages
<1>10. HistoryOK(h)
  BY <1>5, <1>6, <1>7, PageInv, ResetHistoryOK, RestoredOK
<1>11. Handled(WithHistory(h), q, FALSE)
  BY <1>1, <1>2, <1>3, <1>4, <1>5 DEF RestorePipeline
<1> QED
  BY <1>9, <1>10, <1>11, LeftHistory, HandledInv

\* A scene that has ended and what the page makes of it.
LEMMA SceneEnds ==
    ASSUME Inv, refs.scene.state = "loading", NEW state \in {"ready", "error"},
           NEW r, r = [refs EXCEPT !.scene.state = state],
           NEW p, p = LoadStateChanged(page, refs.scene.frame, state)
    PROVE  LeftOK(r, p) /\ refs.scene.frame.of \in Datasets
<1>1. /\ refs \in AllRefs /\ page \in Pages /\ HistoryOK(refs.history)
      /\ SceneOK(refs.scene, page.loaded)
  BY DEF Inv, LeftOK
<1>2. PICK scene : scene = refs.scene
  OBVIOUS
<1>3. /\ scene \in Reports /\ scene.state = "loading" /\ scene.frame # NoFrame
      /\ scene.frame \in Frames
      /\ scene = [frame |-> scene.frame, state |-> scene.state]
  BY <1>1, <1>2, RefsFields DEF Reports, SceneOK
<1>4. r = [history |-> refs.history, scene |-> [frame |-> scene.frame, state |-> state],
           seen |-> refs.seen, timer |-> refs.timer]
  BY <1>1, <1>2, <1>3, RefsFields
<1>5. r \in AllRefs
  BY <1>1, <1>3, <1>4, RefsFields DEF AllRefs, Reports, LoadStates
<1>6. scene.frame.of \in Datasets
  BY <1>3 DEF Frames
<1>7. CASE scene.frame # FrameOf(page)
  <2>1. p = page
    BY <1>2, <1>7 DEF LoadStateChanged
  <2>2. SceneOK(r.scene, page.loaded)
    BY <1>1, <1>2, <1>3, <1>4 DEF SceneOK
  <2> QED
    BY <1>1, <1>2, <1>4, <1>5, <1>6, <2>1, <2>2 DEF LeftOK
<1>8. CASE scene.frame = FrameOf(page)
  <2>1. p = [page EXCEPT !.loaded = Report(scene.frame, state),
                         !.playing = @ /\ state # "error"]
    BY <1>2, <1>8 DEF LoadStateChanged
  <2>2. PICK playing \in BOOLEAN : playing = (page.playing /\ state # "error")
    BY <1>1, PageFields
  <2>3. p = [dataset |-> page.dataset, look |-> page.look, view |-> page.view, step |-> page.step,
             playing |-> playing, loop |-> page.loop,
             loaded |-> [frame |-> scene.frame, state |-> state]]
    BY <1>1, <2>1, <2>2, PageFields DEF Report
  <2>4. p \in Pages
    BY <1>1, <1>3, <2>2, <2>3, PageFields DEF Pages, Reports, LoadStates
  <2>5. SceneOK(r.scene, p.loaded)
    BY <1>3, <1>4, <2>3 DEF SceneOK
  <2> QED
    BY <1>1, <1>2, <1>4, <1>5, <1>6, <2>4, <2>5 DEF LeftOK
<1> QED
  BY <1>7, <1>8

LEMMA SceneFinishesInv == ASSUME Inv, SceneFinishes PROVE Inv'
<1>1. PICK r : r = [refs EXCEPT !.scene.state = "ready"]
  OBVIOUS
<1>2. PICK p : p = LoadStateChanged(page, refs.scene.frame, "ready")
  OBVIOUS
<1>3. PICK view : view = FirstView[refs.scene.frame.of]
  OBVIOUS
<1>4. PICK q : q = [p EXCEPT !.view = IF @ = Blank THEN view ELSE @]
  OBVIOUS
<1>5. LeftOK(r, p) /\ refs.scene.frame.of \in Datasets
  BY <1>1, <1>2, SceneEnds DEF SceneFinishes
<1>6. view \in AnyView
  BY <1>3, <1>5, FirstViews
<1>7. q \in Pages /\ q.loaded = p.loaded
  BY <1>4, <1>5, <1>6 DEF LeftOK, Pages
<1>8. LeftOK(r, q)
  BY <1>5, <1>7 DEF LeftOK
<1>9. Handled(r, q, FALSE)
  BY <1>1, <1>2, <1>3, <1>4 DEF SceneFinishes
<1> QED
  BY <1>8, <1>9, HandledInv

LEMMA SceneFailsInv == ASSUME Inv, SceneFails PROVE Inv'
<1>1. PICK r : r = [refs EXCEPT !.scene.state = "error"]
  OBVIOUS
<1>2. PICK p : p = LoadStateChanged(page, refs.scene.frame, "error")
  OBVIOUS
<1>3. LeftOK(r, p)
  BY <1>1, <1>2, SceneEnds DEF SceneFails
<1>4. Handled(r, p, FALSE)
  BY <1>1, <1>2 DEF SceneFails
<1> QED
  BY <1>3, <1>4, HandledInv

LEMMA TimerFiresInv == ASSUME Inv, TimerFires PROVE Inv'
<1>1. PICK step : step = refs.timer
  OBVIOUS
<1>2. PICK h : h = [refs.history EXCEPT !.automatic = step]
  OBVIOUS
<1>3. PICK r : r = [refs EXCEPT !.timer = NoStep, !.history.automatic = step]
  OBVIOUS
<1>4. PICK q : q = [page EXCEPT !.step = step, !.loaded = NothingLoaded]
  OBVIOUS
<1>5. step \in Steps
  BY <1>1, PageInv, RefsFields DEF TimerFires
<1>6. HistoryOK(h)
  BY <1>2, <1>5, PageInv, AutomaticOK
<1>7. q \in Pages /\ q.loaded = NothingLoaded
  BY <1>4, <1>5, PageInv DEF Pages, Reports, LoadStates, NothingLoaded, Report, Frames
<1>8. r = [history |-> h, scene |-> refs.scene, seen |-> refs.seen, timer |-> NoStep]
  <2>1. refs = [history |-> refs.history, scene |-> refs.scene, seen |-> refs.seen,
                timer |-> refs.timer]
    BY PageInv, RefsFields
  <2>2. r = [history |-> [refs.history EXCEPT !.automatic = step], scene |-> refs.scene,
             seen |-> refs.seen, timer |-> NoStep]
    BY <1>3, <2>1
  <2> QED
    BY <1>2, <2>2
<1>9. r \in AllRefs
  BY <1>6, <1>8, PageInv, RefsFields DEF AllRefs, HistoryOK
<1>10. SceneOK(refs.scene, q.loaded)
  BY <1>7, LeftPage DEF LeftOK
<1>11. LeftOK(r, q)
  BY <1>6, <1>7, <1>8, <1>9, <1>10 DEF LeftOK
<1>12. Handled(r, q, FALSE)
  BY <1>1, <1>3, <1>4 DEF TimerFires
<1> QED
  BY <1>11, <1>12, HandledInv

-----------------------------------------------------------------------------
(* Every step *)

LEMMA InitInv == Init => Inv
<1> SUFFICES ASSUME Init PROVE Inv
  OBVIOUS
<1>1. page = [dataset |-> NoDataset, look |-> FirstLook, view |-> Blank, step |-> FirstStep,
              playing |-> FALSE, loop |-> TRUE, loaded |-> NothingLoaded]
  BY DEF Init
<1>2. NothingLoaded \in Reports /\ NothingLoaded.state = "none" /\ NothingLoaded.frame = NoFrame
  BY DEF NothingLoaded, Report, Reports, Frames, LoadStates
<1>3. page \in Pages
  BY <1>1, <1>2, StepsAreNumbers, DisplayAssumption DEF Pages, AnyView, MaybeDatasets
<1>4. refs = [history |-> EmptyHistory(SnapshotOf(page)), scene |-> NothingLoaded,
              seen |-> NoDataset, timer |-> NoStep]
  BY DEF Init
<1>5. HistoryOK(EmptyHistory(SnapshotOf(page)))
  <2>1. <<>> \in Seq(Snapshots) /\ Len(<<>>) = 0
    BY EmptySeq
  <2> QED
    BY <1>3, <2>1, SnapshotOfPage DEF HistoryOK, Histories, EmptyHistory
<1>6. refs \in AllRefs
  BY <1>2, <1>4, <1>5 DEF AllRefs, HistoryOK, MaybeDatasets
<1>7. LeftOK(refs, page)
  BY <1>1, <1>2, <1>3, <1>4, <1>5, <1>6 DEF LeftOK, SceneOK
<1>8. Settled(refs, page)
  <2>1. refs.history.recorded = SnapshotOf(page) /\ refs.history.automatic = NoStep
    BY <1>4 DEF EmptyHistory
  <2>2. HasDefaults(page)
    BY <1>1, DisplayAssumption DEF HasDefaults
  <2>3. FrameOf(page) = NoFrame
    BY <1>1, DisplayAssumption DEF FrameOf, NoFrame
  <2> QED
    BY <1>2, <1>4, <2>1, <2>2, <2>3 DEF Settled
<1> QED
  BY <1>7, <1>8 DEF Inv, Init

LEMMA NextInv == Inv /\ [Next]_vars => Inv'
<1> SUFFICES ASSUME Inv, [Next]_vars PROVE Inv'
  OBVIOUS
<1>1. CASE Edit
  <2>1. CASE \E look \in Looks : EditLook(look)
    BY <2>1, EditLookInv
  <2>2. CASE \E view \in AnyView, atOnce \in BOOLEAN : EditView(view, atOnce)
    BY <2>2, EditViewInv
  <2> QED
    BY <1>1, <2>1, <2>2 DEF Edit
<1>2. CASE \E step \in Steps : Seek(step)
  BY <1>2, SeekInv
<1>3. CASE TogglePlayback \/ SetLoop
  BY <1>3, TogglePlaybackInv, SetLoopInv
<1>4. CASE Undo \/ Redo
  BY <1>4, UndoInv, RedoInv
<1>5. CASE Select(NoDataset, TRUE) \/ \E d \in Datasets, atOnce \in BOOLEAN : Select(d, atOnce)
  BY <1>5, SelectInv DEF MaybeDatasets
<1>6. CASE \E pipeline \in Pipelines : RestorePipeline(pipeline)
  BY <1>6, RestorePipelineInv
<1>7. CASE EffectsRun
  BY <1>7, EffectsRunInv
<1>8. CASE SceneFinishes \/ SceneFails
  BY <1>8, SceneFinishesInv, SceneFailsInv
<1>9. CASE TimerFires
  BY <1>9, TimerFiresInv
<1>10. CASE UNCHANGED vars
  BY <1>10 DEF vars, Inv, Settled, TimerRuns, CanPlay, FrameOf, SnapshotOf, HasDefaults
<1> QED
  BY <1>1, <1>2, <1>3, <1>4, <1>5, <1>6, <1>7, <1>8, <1>9, <1>10 DEF Next, UserNext

\* An edit of the page leaves what was shown before in the history, or as what the
\* effect still to run compares the page with.
LEMMA EditRecords ==
    ASSUME Inv, NEW q, LeftOK(refs, q), NEW atOnce \in BOOLEAN, Handled(refs, q, atOnce),
           q.dataset = page.dataset, q.view = page.view \/ q.view # Blank,
           SnapshotOf(q) # SnapshotOf(page)
    PROVE  ShownIsKept
<1> DEFINE shown == SnapshotOf(page)
<1>1. PICK before :
        /\ before = IF pending THEN Effects(refs, page, q) ELSE [refs |-> refs, page |-> q]
        /\ \E after \in {IF atOnce THEN Effects(before.refs, before.page, before.page) ELSE before} :
              /\ refs' = after.refs /\ page' = after.page
              /\ pending' = (~atOnce \/ after.page # before.page)
  BY DEF Handled
<1>2. PICK after :
        /\ after = IF atOnce THEN Effects(before.refs, before.page, before.page) ELSE before
        /\ refs' = after.refs /\ page' = after.page
        /\ pending' = (~atOnce \/ after.page # before.page)
  BY <1>1
<1>3. page \in Pages /\ q \in Pages /\ shown \in Snapshots /\ HistoryOK(refs.history)
  BY PageInv DEF LeftOK
<1>4. /\ LeftOK(before.refs, before.page)
      /\ before.refs.history.recorded = shown /\ before.refs.history.automatic = NoStep
      /\ SnapshotOf(before.page) # shown
      /\ HasDefaults(before.page)
  <2>1. CASE pending
    <3>1. /\ LeftOK(before.refs, before.page)
          /\ before.refs.history = Record(refs.history, shown)
          /\ before.page.dataset = page.dataset
          /\ before.page.look = q.look /\ before.page.step = q.step
          /\ before.page.view = IF page.dataset \in Images /\ page.view = Blank
                                THEN FirstView[page.dataset] ELSE q.view
      BY <1>1, <1>3, <2>1, EffectsOK
    <3>2. before.refs.history.recorded = shown /\ before.refs.history.automatic = NoStep
      BY <1>3, <3>1, RecordOK
    <3>3. CASE page.dataset \in Images /\ page.view = Blank
      <4>1. before.page.view # Blank
        BY <3>1, <3>3, FirstViews, DisplayAssumption
      <4>2. SnapshotOf(before.page).view # shown.view
        BY <3>3, <4>1 DEF SnapshotOf
      <4> QED
        BY <3>1, <3>2, <4>1, <4>2 DEF HasDefaults
    <3>4. CASE ~(page.dataset \in Images /\ page.view = Blank)
      <4>1. SnapshotOf(before.page) = SnapshotOf(q) /\ before.page.view = q.view
        BY <3>1, <3>4 DEF SnapshotOf
      <4> QED
        BY <3>1, <3>2, <3>4, <4>1 DEF HasDefaults
    <3> QED
      BY <3>3, <3>4
  <2>2. CASE ~pending
    <3>1. before.refs = refs /\ before.page = q
      BY <1>1, <2>2
    <3> QED
      BY <2>2, <3>1 DEF Inv, Settled, HasDefaults
  <2> QED
    BY <2>1, <2>2
<1>5. CASE atOnce
  <2>1. before.page \in Pages /\ HistoryOK(before.refs.history)
    BY <1>4 DEF LeftOK
  <2>2. /\ after.refs.history = Record(before.refs.history, SnapshotOf(before.page))
        /\ after.page.look = before.page.look /\ after.page.step = before.page.step
        /\ after.page.view = IF before.page.dataset \in Images /\ before.page.view = Blank
                             THEN FirstView[before.page.dataset] ELSE before.page.view
    BY <1>2, <1>4, <1>5, <2>1, EffectsOK
  <2>3. SnapshotOf(page') = SnapshotOf(before.page)
    BY <1>2, <1>4, <2>2 DEF SnapshotOf, HasDefaults
  <2>4. /\ refs'.history.recorded = SnapshotOf(before.page)
        /\ refs'.history.past # <<>> /\ LastOf(refs'.history.past) = shown
    BY <1>2, <1>4, <2>1, <2>2, SnapshotOfPage, RecordOK
  <2> QED
    BY <2>3, <2>4 DEF ShownIsKept
<1>6. CASE ~atOnce
  <2>1. refs' = before.refs /\ page' = before.page /\ pending'
    BY <1>2, <1>6
  <2> QED
    BY <1>4, <2>1 DEF ShownIsKept
<1> QED
  BY <1>5, <1>6

LEMMA UndoMovesOne ==
    ASSUME Inv, ~pending, Undo
    PROVE  /\ refs'.history.past = ButLast(refs.history.past)
           /\ refs'.history.future = Append(refs.history.future, SnapshotOf(page))
<1>1. PICK h : h = Undone(refs.history, SnapshotOf(page))
  OBVIOUS
<1>2. PICK q : q = Showing(page, LastOf(refs.history.past))
  OBVIOUS
<1>3. /\ HistoryOK(h) /\ LastOf(refs.history.past) \in Snapshots
      /\ h.recorded = LastOf(refs.history.past)
      /\ h.past = ButLast(refs.history.past)
      /\ h.future = Append(refs.history.future, SnapshotOf(page))
  BY <1>1, PageInv, UndoneOK DEF Undo
<1>4. q \in Pages /\ q.loaded = page.loaded /\ SnapshotOf(q) = LastOf(refs.history.past)
  BY <1>2, <1>3, PageInv, ShowingOK
<1>5. Handled(WithHistory(h), q, TRUE)
  BY <1>1, <1>2 DEF Undo
<1>6. refs' = Effects(WithHistory(h), q, q).refs
  BY <1>5 DEF Handled
<1>7. LeftOK(WithHistory(h), q) /\ WithHistory(h).history = h
  BY <1>3, <1>4, LeftHistory
<1>8. refs'.history = Record(h, SnapshotOf(q))
  BY <1>4, <1>6, <1>7, EffectsOK
<1>9. refs'.history.past = h.past /\ refs'.history.future = h.future
  BY <1>3, <1>4, <1>8, RecordOK
<1> QED
  BY <1>3, <1>9

\* Every reachable state is in order: the history has the types and the bound of
\* useDisplayState, and once the effects have run it compares the next edit with
\* what is on the screen, whose frame the viewer is loading or has loaded.
THEOREM DisplayInvariance == Spec => []Inv
<1> QED
  BY InitInv, NextInv, PTL DEF Spec

\* The types, that the stacks keep at most Limit snapshots, and that what the next
\* edit will be compared with is what the page shows.
THEOREM DisplayHistoryFollows == Spec => []HistoryFollows
<1>1. Inv => HistoryFollows
  <2> SUFFICES ASSUME Inv PROVE HistoryFollows
    OBVIOUS
  <2>1. refs \in AllRefs /\ page \in Pages /\ pending \in BOOLEAN
    BY DEF Inv, LeftOK
  <2>2. TypeOK
    BY <2>1 DEF TypeOK, AllRefs, Pages, Histories, Reports, LoadStates, MaybeDatasets
  <2>3. RecordedIsShown
    BY DEF Inv, Settled, RecordedIsShown
  <2>4. HistoryBounded
    BY DEF Inv, LeftOK, HistoryOK, HistoryBounded
  <2> QED
    BY <2>2, <2>3, <2>4 DEF HistoryFollows
<1> QED
  BY <1>1, DisplayInvariance, PTL

\* A playback leaves a frame only after the scene has it: the timer of a page
\* whose effects have run was set for the frame that was reported as loaded.
THEOREM DisplayNoFrameSkipped == Spec => NoFrameSkipped
<1>1. ASSUME Inv, ~pending, TimerFires PROVE refs.scene = Report(FrameOf(page), "ready")
  <2>1. /\ refs.scene.frame = FrameOf(page)
        /\ page.loaded = Report(FrameOf(page), "ready")
    BY <1>1 DEF Inv, Settled, TimerRuns, TimerFires
  <2>2. refs.scene.state = "ready"
    BY <1>1, <2>1 DEF Inv, LeftOK, SceneOK, Report
  <2>3. refs.scene = [frame |-> refs.scene.frame, state |-> refs.scene.state]
    BY <1>1, PageInv, RefsFields DEF Reports
  <2> QED
    BY <2>1, <2>2, <2>3 DEF Report
<1>2. Inv /\ [Next]_vars
        => [~pending /\ TimerFires => refs.scene = Report(FrameOf(page), "ready")]_vars
  BY <1>1
<1> QED
  BY <1>2, DisplayInvariance, PTL DEF Spec, NoFrameSkipped

\* Whatever the user edits, undo brings back what was shown: each edit is one entry
\* (or is about to be), also when the effects of an earlier render had not run yet;
\* and to undo is no edit.
THEOREM DisplayEditsAreEntries == Spec => EditsAreEntries
<1> DEFINE Undoable == page' = page \/ ShownIsKept \/ ~Edit
           NoEdit ==
             ~pending /\ Undo =>
                 /\ refs'.history.past = ButLast(refs.history.past)
                 /\ refs'.history.future = Append(refs.history.future, SnapshotOf(page))
<1>1. ASSUME Inv, Edit PROVE ShownIsKept
  <2>1. ASSUME NEW look \in Looks, EditLook(look) PROVE ShownIsKept
    <3>1. PICK q : q = [page EXCEPT !.look = look]
      OBVIOUS
    <3>2. /\ q \in Pages /\ q.loaded = page.loaded /\ q.dataset = page.dataset
          /\ q.view = page.view /\ q.look = look
      BY <1>1, <3>1, PageInv DEF Pages
    <3>3. SnapshotOf(q).look # SnapshotOf(page).look
      BY <2>1, <3>2 DEF EditLook, SnapshotOf
    <3>4. Handled(refs, q, TRUE) /\ LeftOK(refs, q)
      BY <1>1, <2>1, <3>1, <3>2, LeftPage DEF EditLook
    <3> QED
      BY <1>1, <3>2, <3>3, <3>4, EditRecords
  <2>2. ASSUME NEW view \in AnyView, NEW atOnce \in BOOLEAN, EditView(view, atOnce)
        PROVE  ShownIsKept
    <3>1. PICK q : q = [page EXCEPT !.view = view]
      OBVIOUS
    <3>2. /\ q \in Pages /\ q.loaded = page.loaded /\ q.dataset = page.dataset
          /\ q.view = view
      BY <1>1, <3>1, PageInv DEF Pages
    <3>3. page.dataset \in Datasets /\ view \in Views[page.dataset] /\ view # page.view
      BY <1>1, <2>2, PageInv, PageFields DEF EditView, MaybeDatasets
    <3>4. q.view # Blank
      BY <3>2, <3>3, DisplayAssumption
    <3>5. SnapshotOf(q).view # SnapshotOf(page).view
      BY <3>2, <3>3 DEF SnapshotOf
    <3>6. Handled(refs, q, atOnce) /\ LeftOK(refs, q)
      BY <1>1, <2>2, <3>1, <3>2, LeftPage DEF EditView
    <3> QED
      BY <1>1, <2>2, <3>2, <3>4, <3>5, <3>6, EditRecords
  <2> QED
    BY <1>1, <2>1, <2>2 DEF Edit
<1>2. Inv /\ [Next]_vars => [Undoable]_vars
  BY <1>1
<1>3. Inv /\ [Next]_vars => [NoEdit]_vars
  BY UndoMovesOne
<1> QED
  BY <1>2, <1>3, DisplayInvariance, PTL DEF Spec, EditsAreEntries, EditIsUndoable, UndoIsNoEdit

-----------------------------------------------------------------------------
(* The arrows of a scene: which points are sampled *)

Before(points, p) == {q \in points : q < p}

LEMMA Quotient ==
    ASSUME NEW a \in Nat, NEW d \in Nat \ {0}
    PROVE  a \div d \in Nat /\ d * (a \div d) <= a /\ a < d * (a \div d) + d
OBVIOUS

LEMMA QuotientIs ==
    ASSUME NEW a \in Nat, NEW d \in Nat \ {0}, NEW q \in Nat, d * q <= a, a < d * q + d
    PROVE  a \div d = q
<1> DEFINE r == a \div d
<1>1. r \in Nat /\ d * r <= a /\ a < d * r + d
  BY Quotient
<1>2. d * q < d * (r + 1) /\ d * r < d * (q + 1)
  BY <1>1
<1>3. q < r + 1 /\ r < q + 1
  BY <1>1, <1>2
<1> QED
  BY <1>1, <1>3

LEMMA QuotientGrows ==
    ASSUME NEW a \in Nat, NEW b \in Nat, NEW d \in Nat \ {0}, a + d <= b
    PROVE  a \div d < b \div d
<1> DEFINE r == a \div d
           s == b \div d
<1>1. r \in Nat /\ d * r <= a /\ s \in Nat /\ b < d * s + d
  BY Quotient
<1>2. d * (r + 1) < d * (s + 1)
  BY <1>1
<1>3. r + 1 < s + 1
  BY <1>1, <1>2
<1> QED
  BY <1>1, <1>3

\* The ordinals are spread from the first to the last, and no two are the same.
LEMMA OrdinalsSpread ==
    ASSUME NEW total \in Nat, NEW count \in Nat, count > 1, total > count
    PROVE  /\ \A n \in 1..count : Spread(total, count)[n] \in 0..(total - 1)
           /\ \A n \in 2..count : Spread(total, count)[n - 1] < Spread(total, count)[n]
           /\ Spread(total, count)[1] = 0 /\ Spread(total, count)[count] = total - 1
<1> DEFINE d == 2 * (count - 1)
           a(n) == 2 * (n - 1) * (total - 1) + count - 1
<1>1. d \in Nat \ {0}
  OBVIOUS
<1>2. \A n \in 1..count : Spread(total, count)[n] = a(n) \div d
  BY DEF Spread
<1>3. \A n \in 1..count : (n - 1) * (total - 1) \in Nat /\ a(n) \in Nat
  <2> SUFFICES ASSUME NEW n \in 1..count PROVE (n - 1) * (total - 1) \in Nat /\ a(n) \in Nat
    OBVIOUS
  <2>1. n - 1 \in Nat /\ total - 1 \in Nat
    OBVIOUS
  <2>2. (n - 1) * (total - 1) \in Nat
    BY <2>1
  <2>3. 2 * (n - 1) * (total - 1) = 2 * ((n - 1) * (total - 1))
    BY <2>1
  <2> QED
    BY <2>2, <2>3
<1>4. a(1) \div d = 0
  BY <1>1, QuotientIs
<1>5. a(count) \div d = total - 1
  <2>1. a(count) = d * (total - 1) + (count - 1)
    OBVIOUS
  <2>2. total - 1 \in Nat /\ a(count) \in Nat
    BY <1>3
  <2>3. d * (total - 1) <= a(count) /\ a(count) < d * (total - 1) + d
    BY <2>1, <2>2
  <2> QED
    BY <1>1, <2>2, <2>3, QuotientIs
<1>6. ASSUME NEW n \in 2..count PROVE a(n - 1) \div d < a(n) \div d
  <2>1. a(n) = a(n - 1) + 2 * (total - 1)
    OBVIOUS
  <2>2. n \in 1..count /\ n - 1 \in 1..count
    OBVIOUS
  <2>3. a(n) \in Nat /\ a(n - 1) \in Nat
    BY <1>3, <2>2
  <2>4. a(n - 1) + d <= a(n)
    BY <2>1, <2>3
  <2> HIDE DEF a, d
  <2> QED
    BY <1>1, <2>3, <2>4, QuotientGrows
<1>7. ASSUME NEW n \in 1..count PROVE a(n) \div d \in 0..(total - 1)
  <2>1. (n - 1) * (total - 1) <= (count - 1) * (total - 1)
    <3>1. n - 1 \in Nat /\ count - 1 \in Nat /\ total - 1 \in Nat /\ n - 1 <= count - 1
      OBVIOUS
    <3> QED
      BY <3>1
  <2>2. a(n) <= a(count) /\ a(n) \in Nat
    BY <1>3, <2>1
  <2>3. a(count) < d * total
    OBVIOUS
  <2>4. a(n) \div d \in Nat /\ d * (a(n) \div d) <= a(n)
    BY <1>1, <2>2, Quotient
  <2>5. ASSUME a(n) \div d >= total PROVE FALSE
    <3> DEFINE q == a(n) \div d
    <3>1. q \in Nat /\ q >= total /\ d * q < d * total
      BY <2>2, <2>3, <2>4, <2>5, <1>3
    <3> HIDE DEF q, d
    <3>2. d * q >= d * total
      BY <3>1, <1>1
    <3> QED
      BY <3>1, <3>2, <1>1
  <2> QED
    BY <2>4, <2>5
<1> QED
  <2> HIDE DEF a, d
  <2>1. 1 \in 1..count /\ count \in 1..count
    OBVIOUS
  <2>2. \A n \in 2..count : n \in 1..count /\ n - 1 \in 1..count
    OBVIOUS
  <2> QED
    BY <1>2, <1>4, <1>5, <1>6, <1>7, <2>1, <2>2

\* As many as there are or as the limit allows.
SampleSize(total, bound) == IF total <= bound THEN total ELSE bound

LEMMA Sampled ==
    ASSUME NEW total \in Nat, NEW bound \in Nat
    PROVE  LET sample == DeterministicSampleIndices(total, bound)
               size == SampleSize(total, bound)
           IN /\ DOMAIN sample = 1..size /\ Len(sample) = size /\ size \in Nat
              /\ \A n \in 1..size : sample[n] \in 0..(total - 1)
              /\ \A n \in 2..size : sample[n - 1] < sample[n]
              /\ size > 0 => sample[1] = 0
              /\ size > 1 => sample[size] = total - 1
<1> DEFINE sample == DeterministicSampleIndices(total, bound)
           size == SampleSize(total, bound)
<1> SUFFICES /\ DOMAIN sample = 1..size /\ Len(sample) = size /\ size \in Nat
             /\ \A n \in 1..size : sample[n] \in 0..(total - 1)
             /\ \A n \in 2..size : sample[n - 1] < sample[n]
             /\ size > 0 => sample[1] = 0
             /\ size > 1 => sample[size] = total - 1
  OBVIOUS
<1>1. CASE total = 0 \/ bound = 0
  <2>1. sample = <<>> /\ size = 0
    BY <1>1 DEF DeterministicSampleIndices, SampleSize
  <2>2. DOMAIN <<>> = 1..0 /\ Len(<<>>) = 0
    OBVIOUS
  <2> HIDE DEF sample, size
  <2> QED
    BY <2>1, <2>2
<1>2. CASE total # 0 /\ bound # 0 /\ total <= bound
  <2>1. sample = [n \in 1..total |-> n - 1] /\ size = total
    BY <1>2 DEF DeterministicSampleIndices, SampleSize
  <2>2. Len(sample) = total
    BY <2>1
  <2> HIDE DEF sample, size
  <2> QED
    BY <2>1, <2>2, <1>2
<1>3. CASE total # 0 /\ bound = 1 /\ total > bound
  <2>1. sample = <<0>> /\ size = 1
    BY <1>3 DEF DeterministicSampleIndices, SampleSize
  <2> HIDE DEF sample, size
  <2> QED
    BY <2>1, <1>3
<1>4. CASE bound > 1 /\ total > bound
  <2>1. sample = Spread(total, bound) /\ size = bound
    BY <1>4 DEF DeterministicSampleIndices, SampleSize
  <2>2. DOMAIN sample = 1..bound /\ Len(sample) = bound
    BY <2>1 DEF Spread
  <2> HIDE DEF sample, size
  <2> QED
    BY <2>1, <2>2, <1>4, OrdinalsSpread
<1> QED
  BY <1>1, <1>2, <1>3, <1>4

LEMMA BeforeBounded ==
    ASSUME NEW points \in SUBSET Int, IsFiniteSet(points), NEW p \in points
    PROVE  /\ IsFiniteSet(Before(points, p))
           /\ Cardinality(Before(points, p)) \in 0..(Cardinality(points) - 1)
<1>1. Before(points, p) \in SUBSET (points \ {p})
  BY DEF Before
<1>2. IsFiniteSet(points \ {p}) /\ Cardinality(points \ {p}) = Cardinality(points) - 1
  BY FS_RemoveElement
<1>3. IsFiniteSet(Before(points, p)) /\ Cardinality(Before(points, p)) <= Cardinality(points) - 1
  BY <1>1, <1>2, FS_Subset
<1>4. Cardinality(Before(points, p)) \in Nat /\ Cardinality(points) \in Nat
  BY <1>3, FS_CardinalityType
<1> QED
  BY <1>3, <1>4

LEMMA BeforeGrows ==
    ASSUME NEW points \in SUBSET Int, IsFiniteSet(points), NEW p \in points, NEW q \in points, p < q
    PROVE  Cardinality(Before(points, p)) < Cardinality(Before(points, q))
<1>1. Before(points, p) \union {p} \in SUBSET Before(points, q) /\ p \notin Before(points, p)
  <2>1. p \in Int /\ q \in Int /\ \A r \in points : r \in Int
    OBVIOUS
  <2>2. \A r \in points : (r < p \/ r = p) => r < q
    BY <2>1
  <2>3. ~(p < p)
    BY <2>1
  <2> QED
    BY <2>2, <2>3 DEF Before
<1>2. IsFiniteSet(Before(points, p)) /\ IsFiniteSet(Before(points, q))
  BY BeforeBounded
<1>3. Cardinality(Before(points, p) \union {p}) = Cardinality(Before(points, p)) + 1
  BY <1>1, <1>2, FS_AddElement
<1>4. Cardinality(Before(points, p) \union {p}) <= Cardinality(Before(points, q))
  BY <1>1, <1>2, FS_Subset
<1> QED
  <2>1. /\ Cardinality(Before(points, p)) \in Nat /\ Cardinality(Before(points, q)) \in Nat
    BY <1>2, FS_CardinalityType
  <2> QED
    BY <1>3, <1>4, <2>1

\* Each ordinal is that of one point.
LEMMA PointAtOrdinal ==
    ASSUME NEW points \in SUBSET Int, IsFiniteSet(points),
           NEW ordinal \in 0..(Cardinality(points) - 1)
    PROVE  /\ PointAt(points, ordinal) \in points
           /\ Cardinality(Before(points, PointAt(points, ordinal))) = ordinal
<1> DEFINE ranks == [p \in points |-> Cardinality(Before(points, p))]
           total == Cardinality(points)
<1>1. total \in Nat
  BY FS_CardinalityType
<1>2. ranks \in [points -> 0..(total - 1)]
  BY BeforeBounded
<1>3. \A p, q \in points : ranks[p] = ranks[q] => p = q
  <2> SUFFICES ASSUME NEW p \in points, NEW q \in points, ranks[p] = ranks[q], p # q PROVE FALSE
    OBVIOUS
  <2>1. p \in Int /\ q \in Int
    OBVIOUS
  <2>2. ranks[p] \in Nat /\ ranks[q] \in Nat
    BY <1>1, <1>2
  <2>3. CASE p < q
    BY <2>3, <2>2, BeforeGrows
  <2>4. CASE q < p
    BY <2>4, <2>2, BeforeGrows
  <2> QED
    BY <2>1, <2>3, <2>4
<1>4. ranks \in Injection(points, 0..(total - 1))
  BY <1>2, <1>3 DEF Injection, IsInjective
<1>5. IsFiniteSet(0..(total - 1)) /\ Cardinality(0..(total - 1)) = total
  BY <1>1, FS_Interval
<1>6. ranks \in Surjection(points, 0..(total - 1))
  BY <1>4, <1>5, FS_Injection
<1>7. PICK p \in points : ranks[p] = ordinal
  BY <1>6 DEF Surjection
<1>8. \E p2 \in points : Cardinality({q \in points : q < p2}) = ordinal
  BY <1>7 DEF Before
<1> QED
  BY <1>8 DEF PointAt, Before

LEMMA PointsInOrder ==
    ASSUME NEW points \in SUBSET Int, IsFiniteSet(points),
           NEW m \in 0..(Cardinality(points) - 1), NEW n \in 0..(Cardinality(points) - 1), m < n
    PROVE  PointAt(points, m) < PointAt(points, n)
<1> DEFINE p == PointAt(points, m)
           q == PointAt(points, n)
<1>1. /\ p \in points /\ Cardinality(Before(points, p)) = m
      /\ q \in points /\ Cardinality(Before(points, q)) = n
  BY PointAtOrdinal
<1> HIDE DEF p, q
<1>2. p \in Int /\ q \in Int /\ p # q
  <2>1. m # n
    BY FS_CardinalityType
  <2> QED
    BY <1>1, <2>1
<1>3. ~(q < p)
  <2>1. q < p => n < m
    BY <1>1, BeforeGrows
  <2> QED
    BY <2>1, FS_CardinalityType
<1>4. p < q
  BY <1>2, <1>3
<1> QED
  BY <1>4 DEF p, q

LEMMA FirstPoint ==
    ASSUME NEW points \in SUBSET Int, IsFiniteSet(points), points # {}
    PROVE  PointAt(points, 0) = Min(points)
<1> DEFINE p == PointAt(points, 0)
<1>1. Cardinality(points) \in Nat \ {0}
  BY FS_CardinalityType, FS_EmptySet
<1>2. p \in points /\ Cardinality(Before(points, p)) = 0
  BY <1>1, PointAtOrdinal
<1> HIDE DEF p
<1>3. Before(points, p) = {}
  BY <1>2, BeforeBounded, FS_EmptySet
<1>4. p \in points /\ \A q \in points : p <= q
  BY <1>2, <1>3 DEF Before
<1>5. Min(points) \in points /\ \A q \in points : Min(points) <= q
  BY <1>4 DEF Min
<1>6. p <= Min(points) /\ Min(points) <= p /\ p \in Int /\ Min(points) \in Int
  BY <1>4, <1>5
<1> QED
  BY <1>6 DEF p

LEMMA LastPoint ==
    ASSUME NEW points \in SUBSET Int, IsFiniteSet(points), points # {}
    PROVE  PointAt(points, Cardinality(points) - 1) = Max(points)
<1> DEFINE p == PointAt(points, Cardinality(points) - 1)
<1>1. Cardinality(points) \in Nat \ {0}
  BY FS_CardinalityType, FS_EmptySet
<1>2. p \in points /\ Cardinality(Before(points, p)) = Cardinality(points) - 1
  BY <1>1, PointAtOrdinal
<1> HIDE DEF p
<1>3. ASSUME NEW q \in points PROVE p >= q
  <2>1. CASE p < q
    <3>1. Cardinality(Before(points, p)) < Cardinality(Before(points, q))
      BY <1>2, <2>1, BeforeGrows
    <3>2. Cardinality(Before(points, q)) \in 0..(Cardinality(points) - 1)
      BY BeforeBounded
    <3> QED
      BY <1>1, <1>2, <3>1, <3>2
  <2> QED
    BY <1>2, <2>1
<1>4. Max(points) \in points /\ \A q \in points : Max(points) >= q
  BY <1>2, <1>3 DEF Max
<1>5. p >= Max(points) /\ Max(points) >= p /\ p \in Int /\ Max(points) \in Int
  BY <1>2, <1>3, <1>4
<1> QED
  BY <1>5 DEF p

-----------------------------------------------------------------------------
(* The actor is that of the array that is chosen *)

LEMMA SmallerOfTwo ==
    ASSUME NEW m \in Nat, NEW n \in Nat
    PROVE  Min({m, n}) = SampleSize(m, n)
<1>1. /\ SampleSize(m, n) \in {m, n} /\ \A k \in {m, n} : SampleSize(m, n) <= k
  BY DEF SampleSize
<1>2. Min({m, n}) \in {m, n} /\ \A k \in {m, n} : Min({m, n}) <= k
  BY <1>1 DEF Min
<1>3. Min({m, n}) <= SampleSize(m, n) /\ SampleSize(m, n) <= Min({m, n})
  BY <1>1, <1>2
<1>4. Min({m, n}) \in Nat /\ SampleSize(m, n) \in Nat
  BY <1>1, <1>2
<1> QED
  BY <1>3, <1>4

ArrowsOf(settings) ==
    [array |-> settings.array, points |-> SampledPoints(settings.array), scale |-> settings.scale]
GlyphSettings == [enabled : BOOLEAN, array : VectorArrays \union {NoVectors}, scale : Scales]
NoArrows == glyphs = {} /\ summary = 0

\* What is owned is what the renderer draws: nothing, or the arrows of the array that
\* is chosen, at the scale that is chosen.
GlyphsInv ==
    /\ valid \in [VectorArrays -> ValidPoints] /\ limit \in PointLimits
    /\ glyphActors = glyphs
    /\ IF glyphSettings.enabled /\ glyphSettings.array # NoVectors
       THEN /\ glyphSettings.array \in VectorArrays
            /\ summary = Len(SampledPoints(glyphSettings.array))
            /\ glyphs = IF SampledPoints(glyphSettings.array) = <<>> THEN {}
                        ELSE {ArrowsOf(glyphSettings)}
       ELSE NoArrows

LEMMA ValidFinite ==
    ASSUME GlyphsInv, NEW array \in VectorArrays
    PROVE  /\ valid[array] \in SUBSET Nat /\ IsFiniteSet(valid[array]) /\ limit \in Nat
           /\ Cardinality(valid[array]) \in Nat
BY GlyphAssumption, FS_CardinalityType DEF GlyphsInv

\* The arrows that are sampled of an array.
LEMMA PointsSampled ==
    ASSUME GlyphsInv, NEW array \in VectorArrays
    PROVE  LET points == SampledPoints(array)
               size == SampleSize(Cardinality(valid[array]), limit)
           IN /\ DOMAIN points = 1..size /\ Len(points) = size /\ size \in Nat
              /\ points = <<>> <=> size = 0
              /\ \A n \in 1..size : points[n] \in valid[array]
              /\ \A n \in 2..size : points[n - 1] < points[n]
              /\ size > 0 => points[1] = Min(valid[array])
              /\ size > 1 => points[size] = Max(valid[array])
<1> DEFINE points == SampledPoints(array)
           wanted == valid[array]
           total == Cardinality(wanted)
           size == SampleSize(total, limit)
           sample == DeterministicSampleIndices(total, limit)
<1> SUFFICES /\ DOMAIN points = 1..size /\ Len(points) = size /\ size \in Nat
             /\ points = <<>> <=> size = 0
             /\ \A n \in 1..size : points[n] \in wanted
             /\ \A n \in 2..size : points[n - 1] < points[n]
             /\ size > 0 => points[1] = Min(wanted)
             /\ size > 1 => points[size] = Max(wanted)
  OBVIOUS
<1>1. wanted \in SUBSET Int /\ IsFiniteSet(wanted) /\ limit \in Nat /\ total \in Nat
  BY ValidFinite
<1>2. points = [n \in DOMAIN sample |-> PointAt(wanted, sample[n])]
  BY DEF SampledPoints
<1>3. /\ DOMAIN sample = 1..size /\ Len(sample) = size /\ size \in Nat
      /\ \A n \in 1..size : sample[n] \in 0..(total - 1)
      /\ \A n \in 2..size : sample[n - 1] < sample[n]
      /\ size > 0 => sample[1] = 0
      /\ size > 1 => sample[size] = total - 1
  BY <1>1, Sampled
<1>4. size > 0 => wanted # {}
  BY <1>1, FS_EmptySet DEF SampleSize
<1> HIDE DEF points, size, sample
<1>5. DOMAIN points = 1..size /\ Len(points) = size /\ (points = <<>> <=> size = 0)
  <2>1. DOMAIN points = 1..size /\ Len(points) = size
    BY <1>2, <1>3
  <2>2. CASE size = 0
    BY <1>2, <1>3, <2>2
  <2>3. CASE size # 0
    BY <2>1, <2>3
  <2> QED
    BY <2>1, <2>2, <2>3
<1>6. \A n \in 1..size : points[n] = PointAt(wanted, sample[n])
  BY <1>2, <1>3
<1> HIDE DEF wanted
<1>7. \A n \in 1..size : points[n] \in wanted
  BY <1>1, <1>3, <1>6, PointAtOrdinal DEF total
<1>8. ASSUME NEW n \in 2..size PROVE points[n - 1] < points[n]
  <2>1. n \in 1..size /\ n - 1 \in 1..size
    BY <1>3
  <2>2. sample[n - 1] \in 0..(total - 1) /\ sample[n] \in 0..(total - 1) /\ sample[n - 1] < sample[n]
    BY <1>3, <2>1
  <2>3. PointAt(wanted, sample[n - 1]) < PointAt(wanted, sample[n])
    BY <1>1, <2>2, PointsInOrder DEF total
  <2> QED
    BY <1>6, <2>1, <2>3
<1>9. size > 0 => points[1] = Min(wanted)
  BY <1>1, <1>3, <1>4, <1>6, FirstPoint
<1>10. size > 1 => points[size] = Max(wanted)
  BY <1>1, <1>3, <1>4, <1>6, LastPoint DEF total
<1> QED
  BY <1>3, <1>5, <1>7, <1>8, <1>9, <1>10

LEMMA GlyphsStart == GlyphsInit => GlyphsInv
BY DEF GlyphsInit, GlyphsInv, NoArrows

LEMMA ApplyKeepsGlyphs ==
    ASSUME GlyphsInv, NEW settings \in GlyphSettings, ApplyGlyphs(settings)
    PROVE  GlyphsInv'
<1>1. valid' = valid /\ limit' = limit /\ glyphSettings' = settings
  BY DEF ApplyGlyphs
<1>2. valid' \in [VectorArrays -> ValidPoints] /\ limit' \in PointLimits
  BY <1>1 DEF GlyphsInv
<1>3. \A array : SampledPoints(array)' = SampledPoints(array)
  BY <1>1 DEF SampledPoints
<1>4. CASE ~settings.enabled \/ settings.array = NoVectors
  <2>1. glyphActors' = glyphActors \ glyphs /\ glyphs' = {} /\ summary' = 0
    BY <1>4 DEF ApplyGlyphs
  <2> QED
    BY <1>1, <1>2, <1>4, <2>1 DEF GlyphsInv, NoArrows
<1>5. CASE settings.enabled /\ settings.array # NoVectors
  <2>1. settings.array \in VectorArrays
    BY <1>5 DEF GlyphSettings
  <2>2. CASE \E glyph \in glyphs : glyph.array = settings.array
    <3>1. PICK glyph \in glyphs : glyph.array = settings.array
      BY <2>2
    <3>2. /\ glyphSettings.enabled /\ glyphSettings.array # NoVectors
          /\ SampledPoints(glyphSettings.array) # <<>> /\ glyphs = {ArrowsOf(glyphSettings)}
          /\ summary = Len(SampledPoints(glyphSettings.array))
      BY <3>1 DEF GlyphsInv, NoArrows
    <3>3. glyphSettings.array = settings.array
      BY <3>1, <3>2 DEF ArrowsOf
    <3>4. Rescaled(ArrowsOf(glyphSettings), settings.scale) = ArrowsOf(settings)
      BY <3>3 DEF Rescaled, ArrowsOf
    <3>5. /\ glyphs' = {Rescaled(g, settings.scale) : g \in glyphs}
          /\ glyphActors' = (glyphActors \ glyphs) \union glyphs' /\ summary' = summary
      BY <1>5, <2>2 DEF ApplyGlyphs
    <3>6. glyphs' = {ArrowsOf(settings)}
      BY <3>2, <3>4, <3>5
    <3>7. glyphActors' = glyphs'
      BY <3>5 DEF GlyphsInv
    <3>8. ArrowsOf(settings)' = ArrowsOf(settings)
      BY <1>3 DEF ArrowsOf
    <3> QED
      BY <1>1, <1>2, <1>3, <1>5, <2>1, <3>2, <3>3, <3>5, <3>6, <3>7, <3>8 DEF GlyphsInv, ArrowsOf
  <2>3. CASE ~\E glyph \in glyphs : glyph.array = settings.array
    <3>1. /\ glyphs' = IF SampledPoints(settings.array) = <<>> THEN {} ELSE {ArrowsOf(settings)}
          /\ glyphActors' = (glyphActors \ glyphs) \union glyphs'
          /\ summary' = Len(SampledPoints(settings.array))
      BY <1>5, <2>3 DEF ApplyGlyphs, ArrowsOf
    <3>2. glyphActors' = glyphs'
      BY <3>1 DEF GlyphsInv
    <3> QED
      BY <1>1, <1>2, <1>3, <1>5, <2>1, <3>1, <3>2 DEF GlyphsInv, ArrowsOf
  <2> QED
    BY <2>2, <2>3
<1> QED
  BY <1>4, <1>5 DEF GlyphSettings

LEMMA GlyphsStep == GlyphsInv /\ [GlyphsNext]_glyphVars => GlyphsInv'
<1> SUFFICES ASSUME GlyphsInv, [GlyphsNext]_glyphVars PROVE GlyphsInv'
  OBVIOUS
<1>1. CASE GlyphsNext
  <2>1. PICK enabled \in BOOLEAN, array \in VectorArrays \union {NoVectors}, scale \in Scales :
          ApplyGlyphs([enabled |-> enabled, array |-> array, scale |-> scale])
    BY <1>1 DEF GlyphsNext
  <2>2. [enabled |-> enabled, array |-> array, scale |-> scale] \in GlyphSettings
    BY DEF GlyphSettings
  <2> QED
    BY <2>1, <2>2, ApplyKeepsGlyphs
<1>2. CASE UNCHANGED glyphVars
  BY <1>2 DEF GlyphsInv, glyphVars, NoArrows, ArrowsOf, SampledPoints
<1> QED
  BY <1>1, <1>2

\* Nothing is drawn of an array without a vector, or within a limit of none.
LEMMA GlyphsShowArrows == GlyphsInv => ArrowsOfArray
<1> SUFFICES ASSUME GlyphsInv PROVE ArrowsOfArray
  OBVIOUS
<1> DEFINE array == glyphSettings.array
           wanted == valid[array]
           points == SampledPoints(array)
           count == Min({Cardinality(wanted), limit})
<1>1. CASE glyphSettings.enabled /\ array # NoVectors
  <2>1. array \in VectorArrays
    BY <1>1 DEF GlyphsInv
  <2>2. Cardinality(wanted) \in Nat /\ limit \in Nat
    BY <2>1, ValidFinite
  <2>3. count = SampleSize(Cardinality(wanted), limit)
    BY <2>2, SmallerOfTwo
  <2>4. /\ DOMAIN points = 1..count /\ Len(points) = count /\ count \in Nat
        /\ points = <<>> <=> count = 0
        /\ \A n \in 1..count : points[n] \in wanted
        /\ \A n \in 2..count : points[n - 1] < points[n]
        /\ count > 0 => points[1] = Min(wanted)
        /\ count > 1 => points[count] = Max(wanted)
    BY <2>1, <2>3, PointsSampled
  <2>5. /\ glyphActors = IF points = <<>> THEN {} ELSE {ArrowsOf(glyphSettings)}
        /\ summary = Len(points)
    BY <1>1 DEF GlyphsInv
  <2>6. /\ ArrowsOf(glyphSettings).array = array /\ ArrowsOf(glyphSettings).points = points
        /\ ArrowsOf(glyphSettings).scale = glyphSettings.scale
    BY DEF ArrowsOf
  <2>7. Range(points) \subseteq wanted
    BY <2>4 DEF Range
  <2>8. Last(points) = points[count]
    BY <2>4 DEF Last
  <2>9. CASE count > 0
    <3> DEFINE glyph == ArrowsOf(glyphSettings)
    <3> HIDE DEF count, points, wanted
    <3>1. glyphActors = {glyph} /\ summary = count
      BY <2>4, <2>5, <2>9
    <3>2. /\ glyph.array = glyphSettings.array /\ glyph.scale = glyphSettings.scale
          /\ Len(glyph.points) = count /\ Range(glyph.points) \subseteq wanted
          /\ \A n \in 2..count : glyph.points[n - 1] < glyph.points[n]
          /\ glyph.points[1] = Min(wanted)
          /\ count > 1 => Last(glyph.points) = Max(wanted)
      BY <2>4, <2>6, <2>7, <2>8, <2>9
    <3> HIDE DEF glyph
    <3> QED
      BY <1>1, <2>9, <3>1, <3>2 DEF ArrowsOfArray, count, points, wanted
  <2>10. CASE ~(count > 0)
    <3>1. count = 0 /\ points = <<>>
      BY <2>4, <2>10
    <3>2. glyphActors = {} /\ summary = 0
      BY <2>5, <3>1
    <3> QED
      BY <2>10, <3>2 DEF ArrowsOfArray
  <2> QED
    BY <2>9, <2>10
<1>2. CASE ~(glyphSettings.enabled /\ array # NoVectors)
  <2>1. glyphActors = {} /\ summary = 0
    BY <1>2 DEF GlyphsInv, NoArrows
  <2> QED
    BY <1>2, <2>1 DEF ArrowsOfArray
<1> QED
  BY <1>1, <1>2

(* The renderer draws what the controller owns, and that is the sample of  *)
(* the array that is chosen, however it is switched, chosen and scaled     *)
(* (createVectorGlyphController).                                          *)
THEOREM GlyphsInvariant == GlyphsSpec => []GlyphsInv
<1> QED
  BY GlyphsStart, GlyphsStep, PTL DEF GlyphsSpec

(* The arrows of the scene are as many distinct points as there are or as  *)
(* the limit allows, from the first point with a vector to the last, for   *)
(* any arrays, any number of points and any limit                          *)
(* (deterministicSampleIndices, samplePointVectors, apply).                *)
THEOREM GlyphsShowArray == GlyphsSpec => []ArrowsOfArray
<1> QED
  BY GlyphsInvariant, GlyphsShowArrows, PTL

-----------------------------------------------------------------------------
(* Induction: what fails would fail somewhere first *)

LEMMA LeastOf ==
    ASSUME NEW S \in SUBSET Nat, S # {}
    PROVE  Min(S) \in S /\ \A n \in S : Min(S) <= n
<1> DEFINE R == OpToRel(<, Nat)
<1>1. IsWellFoundedOn(R, Nat)
  BY NatLessThanWellFounded
<1>2. \A x1, y1 \in Nat : y1 < x1 => <<y1, x1>> \in R
  BY DEF OpToRel
<1> HIDE DEF R
<1>3. PICK x1 \in S : \A y1 \in S : <<y1, x1>> \notin R
  BY <1>1, WFMin
<1>4. ASSUME NEW y1 \in S PROVE x1 <= y1
  <2>1. x1 \in Nat /\ y1 \in Nat
    OBVIOUS
  <2>2. ~(y1 < x1)
    BY <1>2, <1>3, <2>1
  <2> QED
    BY <2>1, <2>2
<1> QED
  BY <1>3, <1>4 DEF Min

LEMMA UpTo ==
    ASSUME NEW last \in Nat, NEW holds, 0 \in holds,
           \A n \in 1..last : n - 1 \in holds => n \in holds
    PROVE  \A n \in 0..last : n \in holds
<1> DEFINE fails == {n \in 0..last : n \notin holds}
<1> SUFFICES ASSUME fails # {} PROVE FALSE
  OBVIOUS
<1>1. Min(fails) \in fails /\ \A n \in fails : Min(fails) <= n
  BY LeastOf
<1> DEFINE first == Min(fails)
<1>2. first \in 1..last /\ first \notin holds
  BY <1>1
<1> HIDE DEF first
<1>3. first - 1 \in 0..last /\ ~(first <= first - 1)
  BY <1>2
<1>4. first - 1 \in holds
  BY <1>1, <1>3 DEF first
<1> QED
  BY <1>2, <1>4

-----------------------------------------------------------------------------
(* Paths *)

Names == Segments \ {".."}
IsWalk(parts, path) ==
    parts = [n \in 0..Len(path) |-> IF n = 0 THEN <<>> ELSE Entered(parts[n - 1], path[n])]
WalkOf(path) == CHOOSE parts : IsWalk(parts, path)

LEMMA WalkExists ==
    ASSUME NEW path \in Seq(Segments)
    PROVE  IsWalk(WalkOf(path), path)
<1> DEFINE holds == {m \in 0..Len(path) : \E parts :
                parts = [n \in 0..m |-> IF n = 0 THEN <<>> ELSE Entered(parts[n - 1], path[n])]}
<1>1. Len(path) \in Nat
  OBVIOUS
<1>2. 0 \in holds
  <2> DEFINE start == [n \in 0..0 |-> <<>>]
  <2>1. start = [n \in 0..0 |-> IF n = 0 THEN <<>> ELSE Entered(start[n - 1], path[n])]
    OBVIOUS
  <2> HIDE DEF start
  <2>2. \E parts : parts = [n \in 0..0 |-> IF n = 0 THEN <<>> ELSE Entered(parts[n - 1], path[n])]
    BY <2>1
  <2> QED
    BY <1>1, <2>2
<1>3. ASSUME NEW m \in 1..Len(path), m - 1 \in holds PROVE m \in holds
  <2>1. PICK parts : parts = [n \in 0..(m - 1) |-> IF n = 0 THEN <<>> ELSE Entered(parts[n - 1], path[n])]
    BY <1>3
  <2> DEFINE longer == [n \in 0..m |-> IF n = m THEN Entered(parts[m - 1], path[m]) ELSE parts[n]]
             right == [n \in 0..m |-> IF n = 0 THEN <<>> ELSE Entered(longer[n - 1], path[n])]
  <2>2. ASSUME NEW n \in 0..m PROVE longer[n] = right[n]
    <3>1. CASE n = m
      BY <3>1
    <3>2. CASE n # m
      <4>1. n \in 0..(m - 1) /\ longer[n] = parts[n]
        BY <3>2
      <4>2. n # 0 => n - 1 \in 0..m /\ n - 1 # m /\ longer[n - 1] = parts[n - 1]
        BY <3>2
      <4>3. parts[n] = IF n = 0 THEN <<>> ELSE Entered(parts[n - 1], path[n])
        BY <2>1, <4>1
      <4> QED
        BY <4>1, <4>2, <4>3
    <3> QED
      BY <3>1, <3>2
  <2>3. longer = right
    BY <2>2
  <2> HIDE DEF longer
  <2>4. \E some : some = [n \in 0..m |-> IF n = 0 THEN <<>> ELSE Entered(some[n - 1], path[n])]
    BY <2>3
  <2> QED
    BY <2>4
<1>4. Len(path) \in holds
  <2> HIDE DEF holds
  <2>1. \A n \in 0..Len(path) : n \in holds
    BY <1>1, <1>2, <1>3, UpTo
  <2> QED
    BY <1>1, <2>1
<1>5. \E parts : IsWalk(parts, path)
  BY <1>4 DEF IsWalk
<1> QED
  BY <1>5 DEF WalkOf

LEMMA WalkSteps ==
    ASSUME NEW path \in Seq(Segments)
    PROVE  /\ Normalized(path) = WalkOf(path)[Len(path)] /\ WalkOf(path)[0] = <<>>
           /\ \A n \in 1..Len(path) : WalkOf(path)[n] = Entered(WalkOf(path)[n - 1], path[n])
<1>1. Normalized(path) = WalkOf(path)[Len(path)]
  BY DEF Normalized, WalkOf, IsWalk
<1>2. IsWalk(WalkOf(path), path) /\ Len(path) \in Nat
  BY WalkExists
<1> QED
  BY <1>1, <1>2 DEF IsWalk

LEMMA EnteredClean ==
    ASSUME NEW parts \in Seq(Names), NEW segment \in Segments
    PROVE  Entered(parts, segment) \in Seq(Names)
<1>1. CASE segment # ".."
  BY <1>1 DEF Entered, Names
<1>2. CASE segment = ".." /\ parts # <<>>
  <2>1. Front(parts) \in Seq(Names)
    BY DEF Front
  <2> QED
    BY <1>2, <2>1 DEF Entered
<1>3. CASE segment = ".." /\ parts = <<>>
  BY <1>3 DEF Entered
<1> QED
  BY <1>1, <1>2, <1>3

LEMMA NormalizedClean ==
    ASSUME NEW path \in Seq(Segments)
    PROVE  Normalized(path) \in Seq(Names)
<1> DEFINE holds == {n \in 0..Len(path) : WalkOf(path)[n] \in Seq(Names)}
<1>1. Len(path) \in Nat /\ 0 \in holds
  <2>1. WalkOf(path)[0] = <<>> /\ <<>> \in Seq(Names)
    BY WalkSteps
  <2>2. Len(path) \in Nat /\ 0 \in 0..Len(path)
    OBVIOUS
  <2>3. WalkOf(path)[0] \in Seq(Names)
    BY <2>1
  <2> QED
    BY <2>2, <2>3
<1>2. ASSUME NEW n \in 1..Len(path), n - 1 \in holds PROVE n \in holds
  <2>1. WalkOf(path)[n] = Entered(WalkOf(path)[n - 1], path[n]) /\ path[n] \in Segments
    BY WalkSteps
  <2> QED
    BY <1>2, <2>1, EnteredClean
<1>3. Len(path) \in holds
  <2> HIDE DEF holds
  <2>1. \A n \in 0..Len(path) : n \in holds
    BY <1>1, <1>2, UpTo
  <2> QED
    BY <1>1, <2>1
<1> QED
  BY <1>3, WalkSteps

LEMMA NormalizedAppend ==
    ASSUME NEW path \in Seq(Segments), NEW segment \in Segments
    PROVE  Normalized(Append(path, segment)) = Entered(Normalized(path), segment)
<1> DEFINE longer == Append(path, segment)
           holds == {n \in 0..Len(path) : WalkOf(longer)[n] = WalkOf(path)[n]}
<1>1. /\ longer \in Seq(Segments) /\ Len(longer) = Len(path) + 1 /\ Len(path) \in Nat
      /\ longer[Len(path) + 1] = segment /\ \A n \in 1..Len(path) : longer[n] = path[n]
  OBVIOUS
<1> HIDE DEF longer
<1>2. 0 \in holds
  BY <1>1, WalkSteps
<1>3. ASSUME NEW n \in 1..Len(path), n - 1 \in holds PROVE n \in holds
  <2>1. n \in 1..Len(longer) /\ longer[n] = path[n]
    BY <1>1
  <2>2. WalkOf(longer)[n] = Entered(WalkOf(longer)[n - 1], longer[n])
    BY <1>1, <2>1, WalkSteps
  <2>3. WalkOf(path)[n] = Entered(WalkOf(path)[n - 1], path[n])
    BY WalkSteps
  <2> QED
    BY <1>3, <2>1, <2>2, <2>3
<1>4. Len(path) \in holds
  <2> HIDE DEF holds
  <2>1. \A n \in 0..Len(path) : n \in holds
    BY <1>1, <1>2, <1>3, UpTo
  <2> QED
    BY <1>1, <2>1
<1>5. Normalized(longer) = Entered(WalkOf(longer)[Len(path)], segment)
  <2>1. Len(longer) \in 1..Len(longer) /\ Len(longer) - 1 = Len(path)
    BY <1>1
  <2> QED
    BY <1>1, <2>1, WalkSteps
<1> QED
  BY <1>4, <1>5, WalkSteps DEF longer

LEMMA NormalizedEmpty == Normalized(<<>>) = <<>>
<1>1. <<>> \in Seq(Segments) /\ Len(<<>>) = 0
  OBVIOUS
<1> QED
  BY <1>1, WalkSteps

LEMMA PrefixGrows ==
    ASSUME NEW S, NEW path \in Seq(S), NEW n \in 1..Len(path)
    PROVE  /\ SubSeq(path, 1, n - 1) \in Seq(S) /\ path[n] \in S
           /\ SubSeq(path, 1, n) = Append(SubSeq(path, 1, n - 1), path[n])
<1>1. /\ SubSeq(path, 1, n - 1) \in Seq(S) /\ Len(SubSeq(path, 1, n - 1)) = n - 1
      /\ SubSeq(path, 1, n) \in Seq(S) /\ Len(SubSeq(path, 1, n)) = n /\ path[n] \in S
      /\ \A k \in 1..(n - 1) : SubSeq(path, 1, n - 1)[k] = path[k]
      /\ \A k \in 1..n : SubSeq(path, 1, n)[k] = path[k]
  OBVIOUS
<1> DEFINE grown == Append(SubSeq(path, 1, n - 1), path[n])
<1>2. /\ grown \in Seq(S) /\ Len(grown) = n
      /\ \A k \in 1..n : grown[k] = path[k]
  BY <1>1
<1> HIDE DEF grown
<1>3. SubSeq(path, 1, n) = grown
  BY <1>1, <1>2, SeqEqual
<1> QED
  BY <1>1, <1>3 DEF grown

\* A path without ".." is normalized.
LEMMA NormalizedNames ==
    ASSUME NEW path \in Seq(Names)
    PROVE  Normalized(path) = path
<1> DEFINE holds == {n \in 0..Len(path) : Normalized(SubSeq(path, 1, n)) = SubSeq(path, 1, n)}
<1>1. Len(path) \in Nat /\ SubSeq(path, 1, 0) = <<>>
  OBVIOUS
<1>2. 0 \in holds
  <2>1. Normalized(SubSeq(path, 1, 0)) = SubSeq(path, 1, 0)
    BY <1>1, NormalizedEmpty
  <2> QED
    BY <1>1, <2>1
<1>3. ASSUME NEW n \in 1..Len(path), n - 1 \in holds PROVE n \in holds
  <2> DEFINE before == SubSeq(path, 1, n - 1)
  <2>1. before \in Seq(Names) /\ path[n] \in Names /\ SubSeq(path, 1, n) = Append(before, path[n])
    BY PrefixGrows
  <2>2. before \in Seq(Segments)
    BY <2>1 DEF Names
  <2>3. Normalized(before) = before
    BY <1>3
  <2> HIDE DEF before
  <2>4. Normalized(Append(before, path[n])) = Append(before, path[n])
    BY <2>1, <2>2, <2>3, NormalizedAppend DEF Entered, Names
  <2>5. Normalized(SubSeq(path, 1, n)) = SubSeq(path, 1, n)
    BY <2>1, <2>4
  <2>6. n \in 0..Len(path)
    BY <1>1
  <2> QED
    BY <2>5, <2>6
<1>4. Len(path) \in holds
  <2> HIDE DEF holds
  <2>1. \A n \in 0..Len(path) : n \in holds
    BY <1>1, <1>2, <1>3, UpTo
  <2> QED
    BY <1>1, <2>1
<1>5. SubSeq(path, 1, Len(path)) = path
  BY <1>1
<1> QED
  BY <1>4, <1>5

LEMMA JoinedGrows ==
    ASSUME NEW S, NEW a \in Seq(S), NEW tail \in Seq(S), NEW last \in S
    PROVE  a \o Append(tail, last) = Append(a \o tail, last) /\ a \o tail \in Seq(S)
OBVIOUS

\* How a path goes on from a directory depends on where the directory is only.
LEMMA NormalizedJoined ==
    ASSUME NEW a \in Seq(Segments), NEW b \in Seq(Segments), NEW tail \in Seq(Segments),
           Normalized(a) = Normalized(b)
    PROVE  Normalized(a \o tail) = Normalized(b \o tail)
<1> DEFINE start(n) == SubSeq(tail, 1, n)
           holds == {n \in 0..Len(tail) : Normalized(a \o start(n)) = Normalized(b \o start(n))}
<1>1. Len(tail) \in Nat /\ start(0) = <<>> /\ start(Len(tail)) = tail
  OBVIOUS
<1>2. 0 \in holds
  <2>1. a \o <<>> = a /\ b \o <<>> = b
    OBVIOUS
  <2>2. a \o start(0) = a /\ b \o start(0) = b
    BY <1>1, <2>1
  <2>3. Normalized(a \o start(0)) = Normalized(b \o start(0))
    BY <2>2
  <2> QED
    BY <1>1, <2>3
<1>3. ASSUME NEW n \in 1..Len(tail), n - 1 \in holds PROVE n \in holds
  <2>1. start(n - 1) \in Seq(Segments) /\ tail[n] \in Segments /\ start(n) = Append(start(n - 1), tail[n])
    BY PrefixGrows
  <2>2. Normalized(a \o start(n - 1)) = Normalized(b \o start(n - 1))
    BY <1>3
  <2> HIDE DEF start
  <2>3. /\ a \o Append(start(n - 1), tail[n]) = Append(a \o start(n - 1), tail[n])
        /\ a \o start(n - 1) \in Seq(Segments)
    BY <2>1, JoinedGrows
  <2>4. /\ b \o Append(start(n - 1), tail[n]) = Append(b \o start(n - 1), tail[n])
        /\ b \o start(n - 1) \in Seq(Segments)
    BY <2>1, JoinedGrows
  <2>5. /\ Normalized(a \o start(n)) = Entered(Normalized(a \o start(n - 1)), tail[n])
        /\ Normalized(b \o start(n)) = Entered(Normalized(b \o start(n - 1)), tail[n])
    <3>1. /\ Normalized(Append(a \o start(n - 1), tail[n])) = Entered(Normalized(a \o start(n - 1)), tail[n])
          /\ Normalized(Append(b \o start(n - 1), tail[n])) = Entered(Normalized(b \o start(n - 1)), tail[n])
      BY <2>1, <2>3, <2>4, NormalizedAppend
    <3> QED
      BY <2>1, <2>3, <2>4, <3>1
  <2>6. Normalized(a \o start(n)) = Normalized(b \o start(n))
    BY <2>2, <2>5
  <2> QED
    BY <2>6
<1>4. Len(tail) \in holds
  <2> HIDE DEF holds
  <2>1. \A n \in 0..Len(tail) : n \in holds
    BY <1>1, <1>2, <1>3, UpTo
  <2> QED
    BY <1>1, <2>1
<1> QED
  BY <1>1, <1>4

IsFile(path) == path \in Seq(Segments) /\ path # <<>> /\ NameOf(path) # ".."

\* The path of a file keeps its name and the place of its directory.
LEMMA NormalizedFile ==
    ASSUME NEW path, IsFile(path)
    PROVE  /\ DirectoryOf(path) \in Seq(Segments)
           /\ Normalized(path) # <<>> /\ NameOf(Normalized(path)) = NameOf(path)
           /\ DirectoryOf(Normalized(path)) = Normalized(DirectoryOf(path))
<1> DEFINE front == SubSeq(path, 1, Len(path) - 1)
           name == path[Len(path)]
           clean == Normalized(front)
<1>1. path \in Seq(Segments) /\ Len(path) \in 1..Len(path) /\ name # ".."
  BY DEF IsFile, NameOf, Last
<1>2. front \in Seq(Segments) /\ name \in Segments /\ path = Append(front, name)
  <2>1. path = SubSeq(path, 1, Len(path))
    BY <1>1
  <2> QED
    BY <1>1, <2>1, PrefixGrows
<1>3. clean \in Seq(Names)
  BY <1>2, NormalizedClean
<1> HIDE DEF clean
<1>4. Normalized(path) = Append(clean, name)
  <2> HIDE DEF front, name
  <2> QED
    BY <1>1, <1>2, NormalizedAppend DEF Entered, clean
<1> HIDE DEF name
<1>5. /\ Append(clean, name) # <<>> /\ Len(Append(clean, name)) = Len(clean) + 1
      /\ Append(clean, name)[Len(clean) + 1] = name
  BY <1>3
<1>6. SubSeq(Append(clean, name), 1, Len(clean)) = clean
  BY <1>3
<1> QED
  BY <1>2, <1>3, <1>4, <1>5, <1>6 DEF NameOf, DirectoryOf, Last, Front, clean, name

LEMMA TargetOfReference ==
    ASSUME NEW descriptor, IsFile(descriptor), NEW reference \in Seq(Segments)
    PROVE  Normalized(DirectoryOf(Normalized(descriptor)) \o reference)
               = Normalized(DirectoryOf(descriptor) \o reference)
<1> DEFINE directory == DirectoryOf(descriptor)
<1>1. directory \in Seq(Segments) /\ DirectoryOf(Normalized(descriptor)) = Normalized(directory)
  BY NormalizedFile
<1> HIDE DEF directory
<1>2. Normalized(directory) \in Seq(Names)
  BY <1>1, NormalizedClean
<1>3. Normalized(directory) \in Seq(Segments) /\ Normalized(Normalized(directory)) = Normalized(directory)
  BY <1>2, NormalizedNames DEF Names
<1> QED
  BY <1>1, <1>3, NormalizedJoined DEF directory

-----------------------------------------------------------------------------
(* Timesteps *)

Entries == [time : Int \union {NoTime}, file : Seq(Segments)]
PlayedSteps == [time : Int, file : Seq(Segments)]
OfEntry(step, entry) == entry.file = step.file /\ entry.time \in {step.time, NoTime}

\* Steps of a list: one for each time, and each from an entry.
ListedSteps(list, steps) ==
    /\ steps \in Seq(PlayedSteps)
    /\ \A m, n \in DOMAIN steps : steps[m].time = steps[n].time => m = n
    /\ \A n \in DOMAIN steps : \E m \in DOMAIN list : OfEntry(steps[n], list[m])

IsReading(steps, list) ==
    steps = [n \in 0..Len(list) |-> IF n = 0 THEN <<>> ELSE FirstKept(steps[n - 1], list[n])]
ReadingOf(list) == CHOOSE steps : IsReading(steps, list)

LEMMA ReadingExists ==
    ASSUME NEW list \in Seq(Entries)
    PROVE  IsReading(ReadingOf(list), list)
<1> DEFINE holds == {m \in 0..Len(list) : \E steps :
                steps = [n \in 0..m |-> IF n = 0 THEN <<>> ELSE FirstKept(steps[n - 1], list[n])]}
<1>1. Len(list) \in Nat
  OBVIOUS
<1>2. 0 \in holds
  <2> DEFINE start == [n \in 0..0 |-> <<>>]
  <2>1. start = [n \in 0..0 |-> IF n = 0 THEN <<>> ELSE FirstKept(start[n - 1], list[n])]
    OBVIOUS
  <2> HIDE DEF start
  <2>2. \E steps : steps = [n \in 0..0 |-> IF n = 0 THEN <<>> ELSE FirstKept(steps[n - 1], list[n])]
    BY <2>1
  <2> QED
    BY <1>1, <2>2
<1>3. ASSUME NEW m \in 1..Len(list), m - 1 \in holds PROVE m \in holds
  <2>1. PICK steps : steps = [n \in 0..(m - 1) |-> IF n = 0 THEN <<>> ELSE FirstKept(steps[n - 1], list[n])]
    BY <1>3
  <2> DEFINE longer == [n \in 0..m |-> IF n = m THEN FirstKept(steps[m - 1], list[m]) ELSE steps[n]]
             right == [n \in 0..m |-> IF n = 0 THEN <<>> ELSE FirstKept(longer[n - 1], list[n])]
  <2>2. ASSUME NEW n \in 0..m PROVE longer[n] = right[n]
    <3>1. CASE n = m
      BY <3>1
    <3>2. CASE n # m
      <4>1. n \in 0..(m - 1) /\ longer[n] = steps[n]
        BY <3>2
      <4>2. n # 0 => n - 1 \in 0..m /\ n - 1 # m /\ longer[n - 1] = steps[n - 1]
        BY <3>2
      <4>3. steps[n] = IF n = 0 THEN <<>> ELSE FirstKept(steps[n - 1], list[n])
        BY <2>1, <4>1
      <4> QED
        BY <4>1, <4>2, <4>3
    <3> QED
      BY <3>1, <3>2
  <2>3. longer = right
    BY <2>2
  <2> HIDE DEF longer
  <2>4. \E some : some = [n \in 0..m |-> IF n = 0 THEN <<>> ELSE FirstKept(some[n - 1], list[n])]
    BY <2>3
  <2> QED
    BY <2>4
<1>4. Len(list) \in holds
  <2> HIDE DEF holds
  <2>1. \A n \in 0..Len(list) : n \in holds
    BY <1>1, <1>2, <1>3, UpTo
  <2> QED
    BY <1>1, <2>1
<1>5. \E steps : IsReading(steps, list)
  BY <1>4 DEF IsReading
<1> QED
  BY <1>5 DEF ReadingOf

LEMMA KeptListed ==
    ASSUME NEW list \in Seq(Entries), NEW steps, ListedSteps(list, steps), NEW k \in DOMAIN list
    PROVE  ListedSteps(list, FirstKept(steps, list[k]))
<1> DEFINE entry == list[k]
           time == IF entry.time = NoTime THEN Len(steps) ELSE entry.time
           step == [time |-> time, file |-> entry.file]
<1>1. entry.time \in Int \union {NoTime} /\ entry.file \in Seq(Segments)
  <2>1. list[k] \in Entries
    OBVIOUS
  <2> QED
    BY <2>1 DEF Entries
<1>2. steps \in Seq(PlayedSteps) /\ Len(steps) \in Nat
  BY DEF ListedSteps
<1>3. step \in PlayedSteps /\ OfEntry(step, entry)
  BY <1>1, <1>2 DEF PlayedSteps, OfEntry
<1>4. CASE \E n \in DOMAIN steps : steps[n].time = time
  BY <1>4 DEF FirstKept
<1>5. CASE ~\E n \in DOMAIN steps : steps[n].time = time
  <2>1. FirstKept(steps, entry) = Append(steps, step)
    BY <1>5 DEF FirstKept
  <2>2. step.time = time
    OBVIOUS
  <2> DEFINE longer == Append(steps, step)
  <2> HIDE DEF step, time
  <2>3. /\ longer \in Seq(PlayedSteps) /\ DOMAIN longer = 1..(Len(steps) + 1)
        /\ longer[Len(steps) + 1] = step /\ \A n \in DOMAIN steps : longer[n] = steps[n]
        /\ DOMAIN steps = 1..Len(steps)
    BY <1>2, <1>3
  <2> HIDE DEF longer
  <2>4. ASSUME NEW m \in DOMAIN longer, NEW n \in DOMAIN longer, longer[m].time = longer[n].time PROVE m = n
    <3>1. CASE m \in DOMAIN steps /\ n \in DOMAIN steps
      BY <2>3, <2>4, <3>1 DEF ListedSteps
    <3>2. CASE m \notin DOMAIN steps /\ n \in DOMAIN steps
      <4>1. m = Len(steps) + 1
        BY <1>2, <2>3, <3>2
      <4> QED
        BY <1>5, <2>2, <2>3, <2>4, <3>2, <4>1
    <3>3. CASE m \in DOMAIN steps /\ n \notin DOMAIN steps
      <4>1. n = Len(steps) + 1
        BY <1>2, <2>3, <3>3
      <4> QED
        BY <1>5, <2>2, <2>3, <2>4, <3>3, <4>1
    <3>4. CASE m \notin DOMAIN steps /\ n \notin DOMAIN steps
      BY <1>2, <2>3, <3>4
    <3> QED
      BY <3>1, <3>2, <3>3, <3>4
  <2>5. ASSUME NEW n \in DOMAIN longer PROVE \E m \in DOMAIN list : OfEntry(longer[n], list[m])
    <3>1. CASE n \in DOMAIN steps
      BY <2>3, <3>1 DEF ListedSteps
    <3>2. CASE n \notin DOMAIN steps
      <4>1. n = Len(steps) + 1
        BY <1>2, <2>3, <3>2
      <4> QED
        BY <1>3, <2>3, <4>1
    <3> QED
      BY <3>1, <3>2
  <2> QED
    BY <2>1, <2>3, <2>4, <2>5 DEF ListedSteps, longer
<1> QED
  BY <1>4, <1>5

LEMMA FirstPartsListed ==
    ASSUME NEW list \in Seq(Entries)
    PROVE  ListedSteps(list, FirstParts(list))
<1> DEFINE steps == ReadingOf(list)
           holds == {n \in 0..Len(list) : ListedSteps(list, steps[n])}
<1>1. FirstParts(list) = steps[Len(list)]
  BY DEF FirstParts, ReadingOf, IsReading
<1>2. Len(list) \in Nat /\ DOMAIN list = 1..Len(list)
  OBVIOUS
<1>3. steps[0] = <<>> /\ \A n \in 1..Len(list) : steps[n] = FirstKept(steps[n - 1], list[n])
  BY <1>2, ReadingExists DEF IsReading
<1> HIDE DEF steps
<1>4. 0 \in holds
  <2>1. <<>> \in Seq(PlayedSteps) /\ DOMAIN <<>> = {}
    OBVIOUS
  <2>2. ListedSteps(list, <<>>)
    BY <2>1 DEF ListedSteps
  <2> QED
    BY <1>2, <1>3, <2>2
<1>5. ASSUME NEW n \in 1..Len(list), n - 1 \in holds PROVE n \in holds
  <2>1. ListedSteps(list, steps[n - 1]) /\ n \in DOMAIN list /\ n \in 0..Len(list)
    BY <1>2, <1>5
  <2>2. ListedSteps(list, FirstKept(steps[n - 1], list[n]))
    BY <2>1, KeptListed
  <2> QED
    BY <1>3, <2>1, <2>2
<1>6. Len(list) \in holds
  <2> HIDE DEF holds
  <2>1. \A n \in 0..Len(list) : n \in holds
    BY <1>2, <1>4, <1>5, UpTo
  <2> QED
    BY <1>2, <2>1
<1> QED
  BY <1>1, <1>6

Ascends(sorted, steps) == \A m, n \in DOMAIN steps : m < n => sorted[m].time < sorted[n].time

\* Steps with times of their own can be sorted: the one that so many are earlier than.
LEMMA SortExists ==
    ASSUME NEW list, NEW steps, ListedSteps(list, steps)
    PROVE  \E sorted \in [DOMAIN steps -> Range(steps)] : Ascends(sorted, steps)
<1> DEFINE times == {steps[n].time : n \in DOMAIN steps}
           timeOf == [n \in DOMAIN steps |-> steps[n].time]
           total == Len(steps)
<1>1. /\ steps \in Seq(PlayedSteps) /\ total \in Nat /\ DOMAIN steps = 1..total
      /\ \A n \in DOMAIN steps : steps[n].time \in Int
  <2>1. steps \in Seq(PlayedSteps)
    BY DEF ListedSteps
  <2>2. total \in Nat /\ DOMAIN steps = 1..total /\ \A n \in DOMAIN steps : steps[n] \in PlayedSteps
    BY <2>1
  <2> QED
    BY <2>1, <2>2 DEF PlayedSteps
<1>2. times \in SUBSET Int
  BY <1>1
<1>3. timeOf \in Injection(DOMAIN steps, times) /\ timeOf \in Surjection(DOMAIN steps, times)
  BY <1>1 DEF ListedSteps, Injection, IsInjective, Surjection
<1>4. IsFiniteSet(DOMAIN steps) /\ Cardinality(DOMAIN steps) = total
  <2> HIDE DEF times, timeOf, total
  <2>1. IsFiniteSet(1..total) /\ Cardinality(1..total) = total
    BY <1>1, FS_Interval
  <2> QED
    BY <1>1, <2>1
<1>5. IsFiniteSet(times) /\ Cardinality(times) = total
  BY <1>3, <1>4, FS_Surjection
<1> DEFINE at(n) == PointAt(times, n - 1)
           stepAt(n) == CHOOSE step \in Range(steps) : step.time = at(n)
           sorted == [n \in DOMAIN steps |-> stepAt(n)]
<1> HIDE DEF times
<1>6. \A n \in DOMAIN steps : at(n) \in times
  <2> SUFFICES ASSUME NEW n \in DOMAIN steps PROVE at(n) \in times
    OBVIOUS
  <2>1. n - 1 \in 0..(Cardinality(times) - 1)
    BY <1>1, <1>5
  <2> QED
    BY <1>2, <1>5, <2>1, PointAtOrdinal
<1>7. \A n \in DOMAIN steps : stepAt(n) \in Range(steps) /\ stepAt(n).time = at(n)
  <2>1. \A n \in DOMAIN steps : \E step \in Range(steps) : step.time = at(n)
    BY <1>6 DEF times, Range
  <2> QED
    BY <2>1
<1>8. \A m, n \in DOMAIN steps : m < n => at(m) < at(n)
  <2> SUFFICES ASSUME NEW m \in DOMAIN steps, NEW n \in DOMAIN steps, m < n PROVE at(m) < at(n)
    OBVIOUS
  <2>1. m - 1 \in 0..(Cardinality(times) - 1) /\ n - 1 \in 0..(Cardinality(times) - 1) /\ m - 1 < n - 1
    BY <1>1, <1>5
  <2> QED
    BY <1>2, <1>5, <2>1, PointsInOrder
<1> HIDE DEF at, stepAt
<1>9. sorted \in [DOMAIN steps -> Range(steps)]
  BY <1>7
<1>10. Ascends(sorted, steps)
  BY <1>7, <1>8 DEF Ascends
<1> QED
  BY <1>9, <1>10

LEMMA ByTimeSorted ==
    ASSUME NEW list \in Seq(Entries)
    PROVE  /\ ByTime(list) \in Seq(PlayedSteps)
           /\ \A n \in 2..Len(ByTime(list)) : ByTime(list)[n - 1].time < ByTime(list)[n].time
           /\ \A n \in DOMAIN ByTime(list) : \E m \in DOMAIN list : OfEntry(ByTime(list)[n], list[m])
<1> DEFINE steps == FirstParts(list)
           sorted == ByTime(list)
<1>1. ListedSteps(list, steps)
  BY FirstPartsListed
<1>2. sorted \in [DOMAIN steps -> Range(steps)] /\ Ascends(sorted, steps)
  <2>1. \E some \in [DOMAIN steps -> Range(steps)] : Ascends(some, steps)
    BY <1>1, SortExists
  <2> QED
    BY <2>1 DEF ByTime, Ascends
<1> HIDE DEF steps, sorted
<1>3. /\ steps \in Seq(PlayedSteps) /\ Len(steps) \in Nat /\ DOMAIN steps = 1..Len(steps)
      /\ Range(steps) \subseteq PlayedSteps
  BY <1>1 DEF ListedSteps, Range
<1>4. sorted \in Seq(PlayedSteps) /\ Len(sorted) = Len(steps) /\ DOMAIN sorted = DOMAIN steps
  BY <1>2, <1>3
<1>5. \A n \in 2..Len(sorted) : sorted[n - 1].time < sorted[n].time
  <2> SUFFICES ASSUME NEW n \in 2..Len(sorted) PROVE sorted[n - 1].time < sorted[n].time
    OBVIOUS
  <2>1. n - 1 \in DOMAIN steps /\ n \in DOMAIN steps /\ n - 1 < n
    BY <1>3, <1>4
  <2> QED
    BY <1>2, <2>1 DEF Ascends
<1>6. \A n \in DOMAIN sorted : \E m \in DOMAIN list : OfEntry(sorted[n], list[m])
  <2> SUFFICES ASSUME NEW n \in DOMAIN sorted PROVE \E m \in DOMAIN list : OfEntry(sorted[n], list[m])
    OBVIOUS
  <2>1. PICK k \in DOMAIN steps : sorted[n] = steps[k]
    BY <1>2, <1>4 DEF Range
  <2> QED
    BY <1>1, <2>1 DEF ListedSteps
<1> QED
  BY <1>4, <1>5, <1>6 DEF sorted

-----------------------------------------------------------------------------
(* Files of a selection *)

\* What is visible: some places of the selection, each with the path of a file.
FilesOf(files) ==
    /\ DOMAIN files \in SUBSET Nat /\ IsFiniteSet(DOMAIN files)
    /\ \A n \in DOMAIN files : IsFile(files[n]) /\ NameOf(files[n]) \in DOMAIN FormatOf

LEMMA VisibleFiles ==
    ASSUME NEW selection \in Selections
    PROVE  FilesOf(Visible(selection))
<1>1. selection \in Seq(Seq(Segments))
  BY LocalAssumption
<1>2. /\ Len(selection) \in Nat /\ DOMAIN selection = 1..Len(selection)
      /\ \A n \in DOMAIN selection : selection[n] \in Seq(Segments)
  BY <1>1
<1>3. \A n \in DOMAIN selection : IsFile(selection[n]) /\ NameOf(selection[n]) \in DOMAIN FormatOf
  BY <1>2, LocalAssumption DEF IsFile
<1> DEFINE seen == {n \in DOMAIN selection : NameOf(selection[n]) \notin Hidden}
<1>4. DOMAIN Visible(selection) = seen /\ \A n \in seen : Visible(selection)[n] = selection[n]
  BY DEF Visible, Restrict
<1>5. seen \in SUBSET (1..Len(selection)) /\ seen \in SUBSET Nat
  BY <1>2
<1>6. IsFiniteSet(1..Len(selection))
  BY <1>2, FS_Interval
<1>7. IsFiniteSet(seen)
  <2> HIDE DEF seen
  <2> QED
    BY <1>5, <1>6, FS_Subset
<1> QED
  BY <1>3, <1>4, <1>5, <1>7 DEF FilesOf

\* The file that is found for a reference is the one it names, or the only one of its name.
LEMMA ResolvedFile ==
    ASSUME NEW files, FilesOf(files), NEW descriptor, IsFile(descriptor),
           NEW reference \in Seq(Segments), NEW played \in Resolved(descriptor, reference, files)
    PROVE  LET target == Normalized(DirectoryOf(descriptor) \o reference)
           IN /\ played \in Range(files) /\ NameOf(played) = NameOf(target)
              /\ \A path \in Range(files) :
                  NameOf(path) = NameOf(played) /\ path # played => Normalized(played) = target
<1> DEFINE target == Normalized(DirectoryOf(descriptor) \o reference)
           wanted == Normalized(DirectoryOf(Normalized(descriptor)) \o reference)
           exact == {n \in DOMAIN files : Normalized(files[n]) = wanted}
           named == {n \in DOMAIN files : wanted # <<>> /\ NameOf(files[n]) = NameOf(wanted)}
<1> SUFFICES /\ played \in Range(files) /\ NameOf(played) = NameOf(target)
             /\ \A path \in Range(files) :
                 NameOf(path) = NameOf(played) /\ path # played => Normalized(played) = target
  OBVIOUS
<1>1. wanted = target
  BY TargetOfReference
<1>2. CASE exact # {}
  <2>1. exact \in SUBSET Nat
    BY DEF FilesOf
  <2>2. Min(exact) \in exact
    BY <1>2, <2>1, LeastOf
  <2>3. played = files[Min(exact)]
    BY <1>2 DEF Resolved
  <2>4. PICK n \in DOMAIN files : played = files[n] /\ Normalized(files[n]) = wanted
    BY <2>2, <2>3
  <2>5. IsFile(files[n]) /\ played \in Range(files)
    BY <2>4 DEF FilesOf, Range
  <2> HIDE DEF wanted, target
  <2> QED
    BY <1>1, <2>4, <2>5, NormalizedFile
<1>3. CASE exact = {} /\ Cardinality(named) = 1
  <2>1. played \in {files[n] : n \in named}
    BY <1>3 DEF Resolved
  <2>2. PICK n \in named : played = files[n]
    BY <2>1
  <2>3. IsFiniteSet(named)
    <3>1. named \in SUBSET DOMAIN files
      OBVIOUS
    <3> QED
      BY <3>1, FS_Subset DEF FilesOf
  <2>4. \A m \in named : m = n
    <3> SUFFICES ASSUME NEW m \in named, m # n PROVE FALSE
      OBVIOUS
    <3> HIDE DEF named
    <3>1. Cardinality(named \ {n}) = 0 /\ IsFiniteSet(named \ {n})
      BY <1>3, <2>3, FS_RemoveElement
    <3>2. named \ {n} = {}
      BY <3>1, FS_EmptySet
    <3> QED
      BY <3>2
  <2>5. NameOf(played) = NameOf(wanted) /\ played \in Range(files)
    BY <2>2 DEF Range
  <2>6. ASSUME NEW path \in Range(files), NameOf(path) = NameOf(played) PROVE path = played
    <3>1. PICK m \in DOMAIN files : path = files[m]
      BY DEF Range
    <3>2. m \in named
      BY <2>2, <2>5, <2>6, <3>1
    <3> QED
      BY <2>2, <2>4, <3>1, <3>2
  <2> HIDE DEF wanted, target
  <2> QED
    BY <1>1, <2>5, <2>6
<1>4. CASE exact = {} /\ Cardinality(named) # 1
  BY <1>4 DEF Resolved
<1> QED
  BY <1>2, <1>3, <1>4

-----------------------------------------------------------------------------
(* A dataset that is opened *)

\* What createLocalDataset answers, of which the urls are still to be made.
LEMMA CollectionShown ==
    ASSUME NEW files, FilesOf(files), NEW descriptor \in Range(files), KindOf(NameOf(descriptor)) = "collection",
           NEW opened, opened = Collection(descriptor, files), opened.error = "none"
    PROVE  LET list == StepsOf[NameOf(descriptor)]
           IN /\ list \in Seq(Entries) /\ opened.collection = TRUE
              /\ opened.steps = ByTime(list) /\ opened.steps # <<>>
              /\ opened.files \in Seq(Range(files)) /\ Len(opened.files) = Len(opened.steps) + 1
              /\ opened.files[1] = descriptor
              /\ \A n \in DOMAIN opened.steps :
                  opened.files[n + 1] \in Resolved(descriptor, opened.steps[n].file, files)
<1> DEFINE list == StepsOf[NameOf(descriptor)]
           steps == ByTime(list)
           found == [n \in DOMAIN steps |-> Resolved(descriptor, steps[n].file, files)]
           resolved == [n \in DOMAIN steps |-> CHOOSE path \in found[n] : TRUE]
<1> SUFFICES /\ list \in Seq(Entries) /\ opened.collection = TRUE
             /\ opened.steps = steps /\ opened.steps # <<>>
             /\ opened.files \in Seq(Range(files)) /\ Len(opened.files) = Len(opened.steps) + 1
             /\ opened.files[1] = descriptor
             /\ \A n \in DOMAIN opened.steps :
                 opened.files[n + 1] \in Resolved(descriptor, opened.steps[n].file, files)
  OBVIOUS
<1>1. IsFile(descriptor) /\ NameOf(descriptor) \in DOMAIN FormatOf
  BY DEF FilesOf, Range
<1>2. \A code : Error(code).error = code
  BY DEF Error
<1>3. /\ ~(list = NotACollection \/ steps = <<>>)
      /\ ~\E n \in DOMAIN steps : found[n] = {}
      /\ opened = Shown(TRUE, steps, <<descriptor>> \o resolved)
  <2> HIDE DEF list, steps, found, resolved
  <2>1. opened = CASE list = NotACollection \/ steps = <<>> -> Error("invalid-pvd")
         [] \E n \in DOMAIN steps : found[n] = {} -> Error("missing-files")
         [] \E n \in DOMAIN steps : KindOf(NameOf(resolved[n])) # "browser" -> Error("server-only")
         [] Cardinality({FormatOf[NameOf(resolved[n])] : n \in DOMAIN steps}) > 1 -> Error("unsupported")
         [] OTHER -> Shown(TRUE, steps, <<descriptor>> \o resolved)
    BY DEF Collection, list, steps, found, resolved
  <2> QED
    BY <1>2, <2>1
<1>4. list \in Seq(Entries)
  <2>1. FormatOf[NameOf(descriptor)] = ".pvd"
    BY DEF KindOf
  <2>2. NameOf(descriptor) \in DOMAIN StepsOf
    BY <1>1, <2>1, LocalAssumption
  <2> QED
    BY <1>3, <2>2, LocalAssumption DEF Entries
<1>5. steps \in Seq(PlayedSteps)
  BY <1>4, ByTimeSorted
<1> HIDE DEF list, steps
<1>6. Len(steps) \in Nat /\ DOMAIN steps = 1..Len(steps) /\ \A n \in DOMAIN steps : steps[n].file \in Seq(Segments)
  <2>1. Len(steps) \in Nat /\ DOMAIN steps = 1..Len(steps) /\ \A n \in DOMAIN steps : steps[n] \in PlayedSteps
    BY <1>5
  <2> QED
    BY <2>1 DEF PlayedSteps
<1>7. \A n \in DOMAIN steps : resolved[n] \in Resolved(descriptor, steps[n].file, files)
  BY <1>3
<1>8. \A n \in DOMAIN steps : resolved[n] \in Range(files)
  BY <1>1, <1>6, <1>7, ResolvedFile
<1>9. resolved \in Seq(Range(files)) /\ Len(resolved) = Len(steps) /\ DOMAIN resolved = DOMAIN steps
  BY <1>6, <1>8
<1> HIDE DEF resolved
<1>10. /\ <<descriptor>> \o resolved \in Seq(Range(files))
       /\ Len(<<descriptor>> \o resolved) = Len(steps) + 1
       /\ (<<descriptor>> \o resolved)[1] = descriptor
       /\ \A n \in DOMAIN steps : (<<descriptor>> \o resolved)[n + 1] = resolved[n]
  BY <1>6, <1>9
<1>11. opened.collection = TRUE /\ opened.steps = steps /\ opened.files = <<descriptor>> \o resolved
  BY <1>3 DEF Shown
<1> QED
  BY <1>3, <1>4, <1>7, <1>10, <1>11

LEMMA SingleShown ==
    ASSUME NEW files, FilesOf(files), DOMAIN files # {},
           NEW opened, opened = Single(files), opened.error = "none"
    PROVE  opened.collection = FALSE /\ \E path \in Range(files) : opened.files = <<path>>
<1> DEFINE file == files[Min(DOMAIN files)]
           onServer == OfKind(files, "server") = DOMAIN files
<1>1. file \in Range(files)
  BY LeastOf DEF FilesOf, Range
<1>2. \A code : Error(code).error = code
  BY DEF Error
<1>3. opened = Shown(FALSE, <<>>, <<file>>)
  <2> HIDE DEF file, onServer
  <2>1. opened = CASE onServer -> Error("server-only")
         [] ~onServer /\ Cardinality(DOMAIN files) > 1 -> Error("needs-descriptor")
         [] ~onServer /\ Cardinality(DOMAIN files) = 1 /\ KindOf(NameOf(file)) = "unknown" -> Error("unsupported")
         [] Cardinality(DOMAIN files) = 1 /\ NameOf(file) \in EmptyTables -> Error("empty-csv")
         [] OTHER -> Shown(FALSE, <<>>, <<file>>)
    BY DEF Single, file, onServer
  <2>2. /\ Error("server-only").error # "none" /\ Error("needs-descriptor").error # "none"
        /\ Error("unsupported").error # "none" /\ Error("empty-csv").error # "none"
    BY <1>2
  <2>3. onServer \in BOOLEAN
    BY DEF onServer
  <2> QED
    BY <2>1, <2>2, <2>3
<1> QED
  BY <1>1, <1>3 DEF Shown

FilesShown(source) ==
    IF source.collection THEN Len(source.files) = Len(source.steps) + 1 ELSE Len(source.files) = 1

\* A dataset that was made of a selection shows its files, whatever its URLs are.
LEMMA OpenedShows ==
    ASSUME NEW selection \in Selections,
           NEW opened, opened = CreateLocalDataset(selection), opened.error = "none",
           NEW source, source.collection = opened.collection, source.steps = opened.steps,
           source.files = opened.files, source.selected = Range(Visible(selection)),
           ShownFiles(opened) \in Seq(Seq(Segments)) => Len(source.urls) = Len(ShownFiles(opened))
    PROVE  ShownFiles(opened) \in Seq(Seq(Segments)) /\ ShowsItsFiles(source)
<1> DEFINE files == Visible(selection)
           descriptors == OfKind(files, "collection")
           descriptor == files[Min(descriptors)]
<1>1. FilesOf(files)
  BY VisibleFiles
<1>2. Range(files) \subseteq Seq(Segments)
  BY <1>1 DEF FilesOf, IsFile, Range
<1>3. ShownFiles(source) = ShownFiles(opened)
  BY DEF ShownFiles
<1> HIDE DEF files
<1>4. \A code : Error(code).error = code
  BY DEF Error
<1>5. DOMAIN files # {}
  <2>1. Error("no-files").error # "none"
    BY <1>4
  <2>2. DOMAIN files = {} => opened = Error("no-files")
    BY DEF CreateLocalDataset, files
  <2> QED
    BY <2>1, <2>2
<1>6. CASE descriptors = {}
  <2>1. opened = Single(files)
    BY <1>5, <1>6 DEF CreateLocalDataset, files
  <2>2. opened.collection = FALSE /\ \E path \in Range(files) : opened.files = <<path>>
    BY <1>1, <1>5, <2>1, SingleShown
  <2>3. PICK path \in Range(files) : opened.files = <<path>>
    BY <2>2
  <2>4. ShownFiles(opened) = <<path>> /\ ShownFiles(opened) \in Seq(Seq(Segments))
    BY <1>2, <2>2, <2>3 DEF ShownFiles
  <2>5. LastStepOf(source) = 0 /\ Len(source.urls) = 1
    BY <2>2, <2>4 DEF LastStepOf
  <2>6. FileFor(source, 0) = path /\ UrlOf(source, 0) = source.urls[1]
    BY <2>2, <2>3, <2>5 DEF FileFor, UrlOf
  <2> QED
    BY <1>3, <2>2, <2>4, <2>5, <2>6 DEF ShowsItsFiles
<1>7. CASE descriptors # {}
  <2>1. opened = Collection(descriptor, files)
    BY <1>5, <1>7 DEF CreateLocalDataset, files
  <2>2. descriptors \in SUBSET Nat
    BY <1>1 DEF FilesOf, OfKind
  <2>3. Min(descriptors) \in descriptors
    BY <1>7, <2>2, LeastOf
  <2>4. descriptor \in Range(files) /\ KindOf(NameOf(descriptor)) = "collection"
    BY <2>3 DEF OfKind, Range
  <2>5. IsFile(descriptor)
    BY <1>1, <2>4 DEF FilesOf, Range
  <2> HIDE DEF descriptor
  <2> DEFINE list == StepsOf[NameOf(descriptor)]
             steps == opened.steps
  <2>6. /\ list \in Seq(Entries) /\ opened.collection = TRUE
        /\ steps = ByTime(list) /\ steps # <<>>
        /\ opened.files \in Seq(Range(files)) /\ Len(opened.files) = Len(steps) + 1
        /\ opened.files[1] = descriptor
        /\ \A n \in DOMAIN steps : opened.files[n + 1] \in Resolved(descriptor, steps[n].file, files)
    BY <1>1, <2>1, <2>4, CollectionShown
  <2>7. /\ steps \in Seq(PlayedSteps)
        /\ \A n \in 2..Len(steps) : steps[n - 1].time < steps[n].time
        /\ \A n \in DOMAIN steps : \E m \in DOMAIN list : OfEntry(steps[n], list[m])
    BY <2>6, ByTimeSorted
  <2> HIDE DEF list, steps
  <2>8. Len(steps) \in Nat \ {0} /\ DOMAIN steps = 1..Len(steps)
    BY <2>6, <2>7
  <2>9. opened.files \in Seq(Seq(Segments))
    BY <1>2, <2>6
  <2>10. /\ ShownFiles(opened) = Tail(opened.files) /\ ShownFiles(opened) \in Seq(Seq(Segments))
         /\ Len(ShownFiles(opened)) = Len(steps)
         /\ \A n \in 1..Len(steps) : ShownFiles(opened)[n] = opened.files[n + 1]
    BY <2>6, <2>8, <2>9 DEF ShownFiles
  <2>11. LastStepOf(source) = Len(steps) - 1 /\ Len(source.urls) = Len(steps)
    BY <2>6, <2>10 DEF LastStepOf, steps
  <2>12. ASSUME NEW step \in 0..LastStepOf(source)
         PROVE  /\ FileFor(source, step) = ShownFiles(source)[step + 1]
                /\ UrlOf(source, step) = source.urls[step + 1]
                /\ step > 0 => source.steps[step].time < source.steps[step + 1].time
                /\ PlaysListedFile(source, step)
    <3> DEFINE n == step + 1
               played == ShownFiles(source)[n]
    <3>1. n \in 1..Len(steps) /\ step \in Nat /\ n = step + 1
      BY <2>8, <2>11
    <3>2. played = opened.files[n + 1] /\ played \in Resolved(descriptor, steps[n].file, files)
      BY <1>3, <2>6, <2>8, <2>10, <3>1
    <3>3. FileFor(source, step) = played
      <4>1. 1 + step + 1 <= Len(source.files) /\ 1 + step + 1 = n + 1
        BY <2>6, <2>8, <3>1
      <4> QED
        BY <2>6, <3>2, <4>1 DEF FileFor
    <3>4. UrlOf(source, step) = source.urls[step + 1]
      BY <2>8, <2>11, <3>1 DEF UrlOf
    <3>5. step > 0 => source.steps[step].time < source.steps[n].time
      <4>1. step > 0 => n \in 2..Len(steps) /\ n - 1 = step
        BY <2>8, <3>1
      <4> QED
        BY <2>7, <4>1 DEF steps
    <3>6. PlaysListedFile(source, step)
      <4>1. PICK m \in DOMAIN list : OfEntry(steps[n], list[m])
        BY <2>7, <2>8, <3>1
      <4>2. list[m].file = steps[n].file /\ list[m].time \in {steps[n].time, NoTime}
        BY <4>1 DEF OfEntry
      <4>3. steps[n].file \in Seq(Segments)
        <5>1. list[m] \in Entries
          BY <2>6
        <5> QED
          BY <4>2, <5>1 DEF Entries
      <4> DEFINE target == Normalized(DirectoryOf(descriptor) \o list[m].file)
      <4>4. /\ NameOf(played) = NameOf(target)
            /\ \A path \in Range(files) :
                NameOf(path) = NameOf(played) /\ path # played => Normalized(played) = target
        BY <1>1, <2>5, <3>2, <4>2, <4>3, ResolvedFile
      <4>5. source.files[1] = descriptor /\ source.selected = Range(files) /\ source.steps = steps
        BY <2>6 DEF files, steps
      <4> HIDE DEF played, n
      <4> QED
        BY <3>1, <4>2, <4>4, <4>5 DEF PlaysListedFile, list, played, n
    <3> QED
      BY <3>3, <3>4, <3>5, <3>6
  <2> QED
    BY <2>10, <2>12 DEF ShowsItsFiles
<1> QED
  BY <1>6, <1>7

-----------------------------------------------------------------------------
(* The open datasets and their URLs *)

LocalInv ==
    /\ made \in Nat /\ sources \in Seq(Range(sources))
    /\ \A n \in DOMAIN sources : Range(sources[n].urls) \subseteq 1..made
    /\ UrlsOfSources /\ StepsShowTheirFiles

LEMMA LocalStart == LocalInit => LocalInv
<1> SUFFICES ASSUME LocalInit PROVE LocalInv
  OBVIOUS
<1>1. sources = <<>> /\ DOMAIN sources = {} /\ Range(sources) = {} /\ urls = {} /\ made = 0
  BY DEF LocalInit, Range
<1> QED
  BY <1>1 DEF LocalInv, UrlsOfSources, StepsShowTheirFiles

LEMMA OpenKeepsLocal ==
    ASSUME LocalInv, NEW selection \in Selections, OpenFiles(selection)
    PROVE  LocalInv'
<1> DEFINE opened == CreateLocalDataset(selection)
           count == Len(ShownFiles(opened))
           source == [collection |-> opened.collection, steps |-> opened.steps, files |-> opened.files,
                      urls |-> [n \in DOMAIN ShownFiles(opened) |-> made + n],
                      selected |-> Range(Visible(selection))]
<1>1. CASE opened.error # "none"
  <2>1. UNCHANGED <<sources, urls, made>>
    BY <1>1 DEF OpenFiles
  <2> QED
    BY <2>1 DEF LocalInv, UrlsOfSources, StepsShowTheirFiles
<1>2. CASE opened.error = "none"
  <2>1. made' = made + count /\ urls' = urls \union NewUrls(count) /\ sources' = <<source>> \o sources
    BY <1>2 DEF OpenFiles, AddedFirst
  <2>2. /\ source.collection = opened.collection /\ source.steps = opened.steps
        /\ source.files = opened.files /\ source.selected = Range(Visible(selection))
        /\ source.urls = [n \in DOMAIN ShownFiles(opened) |-> made + n]
    OBVIOUS
  <2> HIDE DEF source, opened
  <2>3. ShownFiles(opened) \in Seq(Seq(Segments)) => Len(source.urls) = Len(ShownFiles(opened))
    BY <2>2
  <2>4. ShownFiles(opened) \in Seq(Seq(Segments)) /\ ShowsItsFiles(source)
    BY <1>2, <2>2, <2>3, OpenedShows DEF opened
  <2>5. count \in Nat /\ DOMAIN ShownFiles(opened) = 1..count
    BY <2>4
  <2>6. Range(source.urls) = NewUrls(count)
    <3>1. ASSUME NEW url \in NewUrls(count) PROVE \E n \in 1..count : url = made + n
      <4>1. url - made \in 1..count /\ url = made + (url - made)
        BY <2>5 DEF NewUrls, LocalInv
      <4> QED
        BY <4>1
    <3>2. \A n \in 1..count : made + n \in NewUrls(count)
      BY <2>5 DEF NewUrls, LocalInv
    <3> QED
      BY <2>2, <2>5, <3>1, <3>2 DEF Range
  <2> HIDE DEF count
  <2>7. made' \in Nat /\ NewUrls(count) \subseteq 1..made' /\ 1..made \subseteq 1..made'
        /\ NewUrls(count) \intersect 1..made = {}
    BY <2>1, <2>5 DEF NewUrls, LocalInv
  <2>8. /\ sources' \in Seq(Range(sources) \union {source}) /\ Len(sources) \in Nat
        /\ DOMAIN sources = 1..Len(sources) /\ DOMAIN sources' = 1..(Len(sources) + 1)
        /\ sources'[1] = source /\ \A n \in DOMAIN sources : sources'[n + 1] = sources[n]
    <3>1. sources \in Seq(Range(sources) \union {source}) /\ <<source>> \in Seq(Range(sources) \union {source})
      BY DEF LocalInv
    <3> QED
      BY <2>1, <3>1
  <2>9. \A n \in DOMAIN sources' : n = 1 \/ \E m \in DOMAIN sources : n = m + 1
    <3> SUFFICES ASSUME NEW n \in DOMAIN sources', n # 1 PROVE \E m \in DOMAIN sources : n = m + 1
      OBVIOUS
    <3>1. n - 1 \in DOMAIN sources /\ n = (n - 1) + 1
      BY <2>8
    <3> QED
      BY <3>1
  <2>10. \A m \in DOMAIN sources : m + 1 \in DOMAIN sources' /\ 1 \in DOMAIN sources' /\ m + 1 # 1
    BY <2>8
  <2>11. 1 \in DOMAIN sources'
    BY <2>8
  <2>12. sources' \in Seq(Range(sources'))
    BY <2>8 DEF Range
  <2>13. \A n \in DOMAIN sources' : Range(sources'[n].urls) \subseteq 1..made'
    BY <2>6, <2>7, <2>8, <2>9 DEF LocalInv
  <2>14. StepsShowTheirFiles'
    <3>1. Range(sources') \subseteq Range(sources) \union {source}
      BY <2>8, <2>9 DEF Range
    <3> QED
      BY <2>4, <3>1 DEF LocalInv, StepsShowTheirFiles
  <2>15. urls' = UNION {Range(sources'[n].urls) : n \in DOMAIN sources'}
    <3>1. UNION {Range(sources'[n].urls) : n \in DOMAIN sources'}
              = Range(source.urls) \union UNION {Range(sources[n].urls) : n \in DOMAIN sources}
      BY <2>8, <2>9, <2>10, <2>11
    <3> QED
      BY <2>1, <2>6, <3>1 DEF LocalInv, UrlsOfSources
  <2>16. ASSUME NEW n \in DOMAIN sources', NEW m \in DOMAIN sources', n # m
         PROVE  Range(sources'[n].urls) \intersect Range(sources'[m].urls) = {}
    <3>1. \A k \in DOMAIN sources : Range(source.urls) \intersect Range(sources[k].urls) = {}
      BY <2>6, <2>7 DEF LocalInv
    <3>2. CASE n = 1
      <4>1. PICK k \in DOMAIN sources : m = k + 1
        BY <2>9, <2>16, <3>2
      <4>2. sources'[n] = source /\ sources'[m] = sources[k]
        BY <2>8, <3>2, <4>1
      <4> QED
        BY <3>1, <4>2
    <3>3. CASE m = 1
      <4>1. PICK k \in DOMAIN sources : n = k + 1
        BY <2>9, <2>16, <3>3
      <4>2. sources'[m] = source /\ sources'[n] = sources[k]
        BY <2>8, <3>3, <4>1
      <4> QED
        BY <3>1, <4>2
    <3>4. CASE n # 1 /\ m # 1
      <4>1. PICK i \in DOMAIN sources, j \in DOMAIN sources : n = i + 1 /\ m = j + 1
        BY <2>9, <3>4
      <4> QED
        BY <2>8, <2>16, <4>1 DEF LocalInv, UrlsOfSources
    <3> QED
      BY <3>2, <3>3, <3>4
  <2> QED
    BY <2>7, <2>12, <2>13, <2>14, <2>15, <2>16 DEF LocalInv, UrlsOfSources
<1> QED
  BY <1>1, <1>2

\* What is left of a list without one of its entries: all others, in their order.
PlaceWas(k, n) == IF k < n THEN k ELSE k + 1

LEMMA LeftInPlace ==
    ASSUME NEW S, NEW list \in Seq(S), NEW n \in DOMAIN list
    PROVE  /\ RemoveAt(list, n) \in Seq(S)
           /\ DOMAIN RemoveAt(list, n) = 1..Len(list) - 1
           /\ \A k \in 1..Len(list) - 1 : RemoveAt(list, n)[k] = list[PlaceWas(k, n)]
<1> DEFINE left == RemoveAt(list, n)
           a == SubSeq(list, 1, n - 1)
           b == SubSeq(list, n + 1, Len(list))
<1>1. Len(list) \in Nat /\ DOMAIN list = 1..Len(list) /\ n \in 1..Len(list)
  OBVIOUS
<1>2. a \in Seq(S) /\ Len(a) = n - 1 /\ \A k \in 1..n - 1 : a[k] = list[k]
  BY <1>1
<1>3. b \in Seq(S) /\ Len(b) = Len(list) - n /\ \A k \in 1..Len(list) - n : b[k] = list[n + k]
  BY <1>1, SMTT(30)
<1>4. left = a \o b
  BY DEF RemoveAt
<1> HIDE DEF a, b, left
<1>5. /\ left \in Seq(S) /\ Len(left) = Len(a) + Len(b)
      /\ \A k \in 1..Len(a) + Len(b) : left[k] = IF k <= Len(a) THEN a[k] ELSE b[k - Len(a)]
  BY <1>2, <1>3, <1>4, ConcatProperties
<1>6. Len(a) + Len(b) = Len(list) - 1
  <2>1. Len(a) = n - 1 /\ Len(b) = Len(list) - n
    BY <1>2, <1>3
  <2> QED
    BY <1>1, <2>1
<1>7. ASSUME NEW k \in 1..Len(list) - 1 PROVE left[k] = list[PlaceWas(k, n)]
  <2>1. CASE k < n
    BY <1>1, <1>2, <1>5, <1>6, <2>1 DEF PlaceWas
  <2>2. CASE ~(k < n)
    <3>1. k - Len(a) \in 1..Len(list) - n /\ n + (k - Len(a)) = k + 1 /\ ~(k <= Len(a))
      BY <1>1, <1>2, <2>2
    <3>2. left[k] = b[k - Len(a)]
      BY <1>5, <1>6, <3>1
    <3> QED
      BY <1>3, <2>2, <3>1, <3>2 DEF PlaceWas
  <2> QED
    BY <2>1, <2>2
<1>8. DOMAIN left = 1..Len(list) - 1
  BY <1>5, <1>6
<1> QED
  BY <1>5, <1>7, <1>8 DEF left

LEMMA RemoveKeepsLocal ==
    ASSUME LocalInv, NEW n \in DOMAIN sources, RemoveLocal(n)
    PROVE  LocalInv'
<1> DEFINE Was(k) == PlaceWas(k, n)
           gone == Range(sources[n].urls)
<1>1. sources' = RemoveAt(sources, n) /\ urls' = urls \ gone /\ made' = made
  BY DEF RemoveLocal
<1>2. /\ sources \in Seq(Range(sources)) /\ Len(sources) \in Nat
      /\ DOMAIN sources = 1..Len(sources) /\ n \in 1..Len(sources)
  BY DEF LocalInv
<1>3. /\ sources' \in Seq(Range(sources)) /\ DOMAIN sources' = 1..Len(sources) - 1
      /\ \A k \in DOMAIN sources' : sources'[k] = sources[Was(k)]
  BY <1>1, <1>2, LeftInPlace
<1>4. ASSUME NEW k \in DOMAIN sources' PROVE Was(k) \in DOMAIN sources /\ Was(k) # n
  BY <1>2, <1>3 DEF PlaceWas
<1>5. ASSUME NEW k \in DOMAIN sources', NEW l \in DOMAIN sources', k # l PROVE Was(k) # Was(l)
  BY <1>2, <1>3, <1>5 DEF PlaceWas
<1>6. ASSUME NEW m \in DOMAIN sources, m # n PROVE \E k \in DOMAIN sources' : Was(k) = m
  <2>1. CASE m < n
    <3>1. m \in DOMAIN sources' /\ Was(m) = m
      BY <1>2, <1>3, <2>1 DEF PlaceWas
    <3> QED
      BY <3>1
  <2>2. CASE m > n
    <3>1. m - 1 \in DOMAIN sources' /\ Was(m - 1) = m
      BY <1>2, <1>3, <2>2 DEF PlaceWas
    <3> QED
      BY <3>1
  <2> QED
    BY <1>2, <1>6, <2>1, <2>2
<1> HIDE DEF Was, gone
<1>7. sources' \in Seq(Range(sources'))
  BY <1>3 DEF Range
<1>8. \A k \in DOMAIN sources' : Range(sources'[k].urls) \subseteq 1..made'
  BY <1>1, <1>3, <1>4 DEF LocalInv
<1>9. StepsShowTheirFiles'
  <2>1. Range(sources') \subseteq Range(sources)
    BY <1>3, <1>4 DEF Range
  <2> QED
    BY <2>1 DEF LocalInv, StepsShowTheirFiles
<1>10. ASSUME NEW k \in DOMAIN sources', NEW l \in DOMAIN sources', k # l
       PROVE  Range(sources'[k].urls) \intersect Range(sources'[l].urls) = {}
  BY <1>3, <1>4, <1>5, <1>10 DEF LocalInv, UrlsOfSources
<1>11. urls' = UNION {Range(sources'[k].urls) : k \in DOMAIN sources'}
  <2>1. \A m \in DOMAIN sources : m # n => Range(sources[m].urls) \intersect gone = {}
    BY <1>2 DEF LocalInv, UrlsOfSources, gone
  <2>2. urls = UNION {Range(sources[m].urls) : m \in DOMAIN sources}
    BY DEF LocalInv, UrlsOfSources
  <2>3. ASSUME NEW url \in urls'
        PROVE  \E k \in DOMAIN sources' : url \in Range(sources'[k].urls)
    <3>1. PICK m \in DOMAIN sources : url \in Range(sources[m].urls)
      BY <1>1, <2>2
    <3>2. m # n
      BY <1>1, <3>1 DEF gone
    <3> QED
      BY <1>3, <1>6, <3>1, <3>2
  <2>4. ASSUME NEW k \in DOMAIN sources', NEW url \in Range(sources'[k].urls)
        PROVE  url \in urls'
    <3>1. url \in Range(sources[Was(k)].urls) /\ Was(k) \in DOMAIN sources /\ Was(k) # n
      BY <1>3, <1>4
    <3> QED
      BY <1>1, <2>1, <2>2, <3>1
  <2> QED
    BY <2>3, <2>4
<1> QED
  BY <1>1, <1>7, <1>8, <1>9, <1>10, <1>11 DEF LocalInv, UrlsOfSources

LEMMA LocalStep == ASSUME LocalInv, [LocalNext]_localVars PROVE LocalInv'
<1>1. CASE \E selection \in Selections : OpenFiles(selection)
  BY <1>1, OpenKeepsLocal
<1>2. CASE \E n \in DOMAIN sources : RemoveLocal(n)
  BY <1>2, RemoveKeepsLocal
<1>3. CASE UNCHANGED localVars
  BY <1>3 DEF localVars, LocalInv, UrlsOfSources, StepsShowTheirFiles
<1> QED
  BY <1>1, <1>2, <1>3 DEF LocalNext

(* The open datasets own disjoint ranges of the URLs that were made, and   *)
(* each shows its files: an invariant of opening and removing datasets     *)
(* (useLocalDatasets.ts).                                                  *)
THEOREM LocalInvariant == LocalSpec => []LocalInv
<1>1. LocalInit => LocalInv
  BY LocalStart
<1>2. LocalInv /\ [LocalNext]_localVars => LocalInv'
  BY LocalStep
<1> QED
  BY <1>1, <1>2, PTL DEF LocalSpec

(* A blob URL lives as long as the dataset that shows it, and each         *)
(* timestep plays, in the order of time, a file that its collection lists  *)
(* for that time: never one of the same name from another directory, and   *)
(* the one that is uploaded (createLocalDataset, resolveReferencedFile).   *)
THEOREM LocalShowsFiles == LocalSpec => []LocalStepsPlay
<1>1. LocalInv => LocalStepsPlay
  BY DEF LocalInv, LocalStepsPlay
<1> QED
  BY <1>1, LocalInvariant, PTL

=============================================================================
