-------------------------- MODULE LateAnswersProofs --------------------------
(***************************************************************************)
(* Two parts of the page that sort out late answers by themselves, for any *)
(* instance: the panes of the comparison, whose loads, picks and effects   *)
(* come between and after renders, and the list of jobs, which merges what *)
(* several requests were told at different times. They share no state, and *)
(* are proved one after the other.                                         *)
(***************************************************************************)
EXTENDS Comparison, JobBoard, FiniteSetTheorems, TLAPS

(***************************************************************************)
(* THE PANES. Scenes, the contexts they hold, their controllers and what   *)
(* the controllers measured belong together in every state, also between   *)
(* a render and its effects; only the tool that the controllers are set to *)
(* may be behind the toolbar until the effects have run.                   *)
(***************************************************************************)

\* A pane without a scene has none of its parts; no two scenes have one number.
ScenesOK ==
    /\ \A p \in Panes :
        IF scene[p].state = "none" THEN scene[p] = NoScene
        ELSE scene[p].state # "refused" /\ scene[p].id # 0 /\ scene[p].file \in Files
    /\ \A p, q \in Panes : p # q /\ scene[p].id = scene[q].id => scene[p].id = 0

\* Exactly the finished surfaces have controllers, and they are those of the scene.
ControllersOK ==
    \A p \in Panes :
        /\ controllers[p] # NoControllers =>
            /\ scene[p].state = "ready" /\ scene[p].file \in Surfaces
            /\ controllers[p].of = scene[p].id
            /\ ~pending => controllers[p].tool = tool[p]
        /\ scene[p].state = "ready" /\ scene[p].file \in Surfaces => controllers[p] # NoControllers

\* A measure is one of the controllers that are there.
MeasuresOK ==
    \A p \in Panes :
        measurementResult[p] # NoMeasurement =>
            /\ controllers[p] # NoControllers
            /\ measurementResult[p].of = controllers[p].of
            /\ ~pending => tool[p] \in Measuring

PanesInv == ViewerTypeOK /\ ScenesOK /\ LeasesOfScenes /\ ControllersOK /\ MeasuresOK
ComparisonInv == TypeOK /\ PanesInv /\ CamerasAgree

USE DEF NoTool, NoScene, NoControllers, NoResult, NoMeasurement, Ids, HasWindow

-----------------------------------------------------------------------------
(* Contexts *)

LEMMA ImageBound ==
    ASSUME NEW S, IsFiniteSet(S), NEW f, f \in [S -> {f[x] : x \in S}]
    PROVE  IsFiniteSet({f[x] : x \in S}) /\ Cardinality({f[x] : x \in S}) <= Cardinality(S)
<1> DEFINE T == {f[x] : x \in S}
<1>1. f \in Surjection(S, T)
  BY DEF Surjection
<1> HIDE DEF T
<1>2. IsFiniteSet(T) /\ Cardinality(T) <= Cardinality(S)
  BY <1>1, FS_Surjection
<1> QED
  BY <1>2 DEF T

LEMMA PanesFinite ==
    /\ IsFiniteSet(Panes) /\ Cardinality(Panes) \in Nat
    /\ \A S \in SUBSET Panes : IsFiniteSet(S) /\ Cardinality(S) \in Nat
                              /\ Cardinality(S) <= Cardinality(Panes)
<1>1. Panes = {} \union {Primary} \union {Secondary}
  BY ComparisonAssumption
<1>2. IsFiniteSet(Panes)
  BY <1>1, FS_EmptySet, FS_AddElement
<1>3. \A S \in SUBSET Panes : IsFiniteSet(S) /\ Cardinality(S) <= Cardinality(Panes)
  BY <1>2, FS_Subset
<1> QED
  BY <1>2, <1>3, FS_CardinalityType

LEMMA ChangedPanes == Changed \subseteq Panes /\ Started \subseteq Changed
BY DEF Changed, Started

\* The contexts that are kept belong to panes whose scene stays.
LEMMA KeptOfUnchanged ==
    ASSUME PanesInv
    PROVE  /\ \A id \in Kept : \E p \in Panes \ Changed : HasWindow(p) /\ scene[p].id = id
           /\ \A p \in Panes \ Changed : scene[p].state \in {"loading", "ready"} => scene[p].id \in Kept
<1>1. ASSUME NEW id \in Kept
      PROVE  \E p \in Panes \ Changed : HasWindow(p) /\ scene[p].id = id
  BY <1>1 DEF PanesInv, LeasesOfScenes, Kept
<1>2. ASSUME NEW p \in Panes \ Changed, scene[p].state \in {"loading", "ready"}
      PROVE  scene[p].id \in Kept
  <2>1. scene[p].id \in leases /\ scene[p].id # 0
    BY <1>2 DEF PanesInv, LeasesOfScenes, ScenesOK
  <2>2. \A q \in Changed : scene[q].id # scene[p].id
    BY <2>1, ChangedPanes DEF PanesInv, ScenesOK
  <2> QED
    BY <2>1, <2>2 DEF Kept
<1> QED
  BY <1>1, <1>2

\* However many panes start a scene in one render, the contexts suffice.
LEMMA ContextsSuffice ==
    ASSUME PanesInv
    PROVE  /\ IsFiniteSet(Kept) /\ Cardinality(Kept) \in Nat
           /\ Cardinality(Kept) + Cardinality(Started) <= MaxContexts
<1> DEFINE Still == Panes \ Changed
           numbers == {scene[p].id : p \in Still}
<1>1. IsFiniteSet(Still) /\ Cardinality(Still) \in Nat
  BY PanesFinite
<1>2. IsFiniteSet(numbers) /\ Cardinality(numbers) <= Cardinality(Still)
  <2> DEFINE f == [p \in Still |-> scene[p].id]
  <2>1. {f[x] : x \in Still} = numbers /\ f \in [Still -> {f[x] : x \in Still}]
    OBVIOUS
  <2> HIDE DEF f, numbers
  <2> QED
    BY <2>1, <1>1, ImageBound
<1>3. Kept \subseteq numbers
  BY KeptOfUnchanged
<1>4. IsFiniteSet(Kept) /\ Cardinality(Kept) <= Cardinality(numbers) /\ Cardinality(numbers) \in Nat
  BY <1>2, <1>3, FS_Subset, FS_CardinalityType
<1>5. Cardinality(Kept) \in Nat
  BY <1>4, FS_CardinalityType
<1>6. /\ IsFiniteSet(Started) /\ Cardinality(Started) \in Nat
      /\ Cardinality(Still) + Cardinality(Started) <= Cardinality(Panes)
  <2>1. Started \subseteq Panes /\ Still \intersect Started = {} /\ Still \union Started \subseteq Panes
    BY ChangedPanes
  <2>2. IsFiniteSet(Started) /\ Cardinality(Started) \in Nat
    BY <2>1, PanesFinite
  <2>3. Cardinality(Still \union Started) = Cardinality(Still) + Cardinality(Started) - Cardinality({})
    BY <1>1, <2>1, <2>2, FS_Union
  <2>4. Cardinality(Still \union Started) <= Cardinality(Panes)
    BY <2>1, PanesFinite
  <2> QED
    BY <1>1, <2>2, <2>3, <2>4, FS_EmptySet, PanesFinite
<1> QED
  BY <1>1, <1>2, <1>4, <1>5, <1>6, PanesFinite, ViewerAssumption

\* New scenes get numbers, each one of its own, that nothing refers to.
LEMMA NumbersExist ==
    ASSUME Cardinality(Started) <= Cardinality(FreeIds)
    PROVE  /\ NumbersOf(Started) \in [Started -> FreeIds]
           /\ \A p, q \in Started : p # q => NumbersOf(Started)[p] # NumbersOf(Started)[q]
<1> DEFINE Numbering(n) == \A p, q \in Started : p # q => n[p] # n[q]
<1>1. Started \subseteq {Primary, Secondary} /\ Primary # Secondary
  BY ChangedPanes, ComparisonAssumption
<1>2. IsFiniteSet(FreeIds)
  <2>1. FreeIds \subseteq 1..MaxScenes
    BY DEF FreeIds
  <2>2. IsFiniteSet(1..MaxScenes)
    BY FS_Interval, ViewerAssumption
  <2> QED
    BY <2>1, <2>2, FS_Subset
<1>3. Cardinality(FreeIds) \in Nat
  BY <1>2, FS_CardinalityType
<1> HIDE DEF Numbering
<1>4. \E n \in [Started -> FreeIds] : Numbering(n)
  <2>1. CASE Started = {}
    <3>1. [p \in Started |-> 0] \in [Started -> FreeIds] /\ Numbering([p \in Started |-> 0])
      BY <2>1 DEF Numbering
    <3> QED
      BY <3>1
  <2>2. CASE \E p : Started = {p}
    <3>1. FreeIds # {}
      <4>1. Cardinality(Started) = 1
        BY <2>2, FS_Singleton
      <4>2. Cardinality({}) = 0
        BY FS_EmptySet
      <4> QED
        BY <4>1, <4>2, <1>3
    <3>2. PICK id \in FreeIds : TRUE
      BY <3>1
    <3>3. [p \in Started |-> id] \in [Started -> FreeIds] /\ Numbering([p \in Started |-> id])
      BY <2>2 DEF Numbering
    <3> QED
      BY <3>3
  <2>3. CASE Started = {Primary, Secondary}
    <3>1. Cardinality(Started) = 2 /\ IsFiniteSet(Started)
      <4>1. IsFiniteSet({Primary}) /\ Cardinality({Primary}) = 1
        BY FS_Singleton
      <4>2. /\ IsFiniteSet({Primary} \union {Secondary})
            /\ Cardinality({Primary} \union {Secondary}) = 1 + 1
        BY <4>1, <1>1, FS_AddElement
      <4> QED
        BY <4>2, <2>3
    <3>2. FreeIds # {}
      <4>1. Cardinality({}) = 0
        BY FS_EmptySet
      <4> QED
        BY <4>1, <3>1, <1>3
    <3>3. PICK id \in FreeIds : TRUE
      BY <3>2
    <3>4. FreeIds # {id}
      <4>1. Cardinality({id}) = 1
        BY FS_Singleton
      <4> QED
        BY <4>1, <3>1, <1>3
    <3>5. PICK id2 \in FreeIds : id2 # id
      BY <3>3, <3>4
    <3> DEFINE n == [p \in Started |-> IF p = Primary THEN id ELSE id2]
    <3>6. n \in [Started -> FreeIds] /\ Numbering(n)
      BY <2>3, <3>5 DEF Numbering
    <3> QED
      BY <3>6
  <2> QED
    BY <1>1, <2>1, <2>2, <2>3
<1>5. NumbersOf(Started) = CHOOSE n \in [Started -> FreeIds] : Numbering(n)
  BY DEF NumbersOf, Numbering
<1>6. NumbersOf(Started) \in [Started -> FreeIds] /\ Numbering(NumbersOf(Started))
  BY <1>4, <1>5
<1> QED
  BY <1>6 DEF Numbering
-----------------------------------------------------------------------------
(* Every step of a pane keeps the invariant of the panes *)

\* What the scene effects make of the panes: none of them is refused a context.
LEMMA ScenesMade ==
    ASSUME PanesInv, Cardinality(Started) <= Cardinality(FreeIds),
           NEW broken \in SUBSET Started,
           NEW number, number = NumbersOf(Started),
           NEW news, news = NewScenes(number, broken)
    PROVE  /\ number \in [Started -> FreeIds]
           /\ \A p, q \in Started : p # q => number[p] # number[q]
           /\ DOMAIN news = Panes /\ news = [p \in Panes |-> news[p]]
           /\ \A p \in Panes \ Changed : news[p] = scene[p]
           /\ \A p \in Changed \ Started : news[p] = NoScene
           /\ \A p \in Started : \E state \in {"loading", "broken"} :
                news[p] = [id |-> number[p], file |-> Rendered(p), state |-> state]
<1>1. /\ number \in [Started -> FreeIds]
      /\ \A p, q \in Started : p # q => number[p] # number[q]
  BY NumbersExist
<1>2. \A p \in Started : ~(Cardinality({q \in Started : number[q] <= number[p]}) > LeftOver)
  <2> SUFFICES ASSUME NEW p \in Started
               PROVE  ~(Cardinality({q \in Started : number[q] <= number[p]}) > LeftOver)
    OBVIOUS
  <2> DEFINE first == {q \in Started : number[q] <= number[p]}
  <2>1. IsFiniteSet(Started) /\ Cardinality(Started) \in Nat
    BY ChangedPanes, PanesFinite
  <2>2. first \in SUBSET Started
    OBVIOUS
  <2> HIDE DEF first
  <2>3. IsFiniteSet(first) /\ Cardinality(first) <= Cardinality(Started)
    BY <2>1, <2>2, FS_Subset
  <2>4. Cardinality(first) \in Nat
    BY <2>3, FS_CardinalityType
  <2>5. Cardinality(first) <= LeftOver
    BY <2>1, <2>3, <2>4, ContextsSuffice, ViewerAssumption DEF LeftOver
  <2> QED
    BY <2>1, <2>4, <2>5, ContextsSuffice, ViewerAssumption DEF first, LeftOver
<1>3. /\ DOMAIN news = Panes /\ news = [p \in Panes |-> news[p]]
      /\ \A p \in Panes \ Changed : news[p] = scene[p]
      /\ \A p \in Changed \ Started : news[p] = NoScene
  BY ChangedPanes DEF NewScenes
<1>4. \A p \in Started : news[p] = [id |-> number[p], file |-> Rendered(p),
                                    state |-> IF p \in broken THEN "broken" ELSE "loading"]
  BY <1>2, ChangedPanes DEF NewScenes
<1> QED
  BY <1>1, <1>3, <1>4

\* The two hold between the scenes and the contexts after the effects.
LEMMA EffectsScenes ==
    ASSUME PanesInv, NEW new, NEW again \in BOOLEAN, EffectsRun(new, again)
    PROVE  /\ ScenesOK' /\ LeasesOfScenes'
           /\ scene' \in [Panes -> [id : Ids, file : Files \union {NoFile},
                            state : {"none", "loading", "ready", "error", "broken", "refused"}]]
           /\ leases' \subseteq Ids /\ loads' \subseteq Panes \X Ids
           /\ \A p \in Panes \ Changed : scene'[p] = scene[p]
           /\ \A p \in Changed : scene'[p].state \notin {"ready", "error", "refused"}
<1> DEFINE number == NumbersOf(Started)
<1>1. PICK broken \in SUBSET Started :
        /\ scene' = NewScenes(number, broken)
        /\ leases' = Leased(scene')
        /\ loads' = loads \union {<<p, number[p]>> : p \in {q \in Started : scene'[q].state = "loading"}}
  BY DEF EffectsRun
<1>2. Cardinality(Started) <= Cardinality(FreeIds)
  BY DEF EffectsRun
<1>3. /\ number \in [Started -> FreeIds]
      /\ \A p, q \in Started : p # q => number[p] # number[q]
      /\ DOMAIN scene' = Panes /\ scene' = [p \in Panes |-> scene'[p]]
      /\ \A p \in Panes \ Changed : scene'[p] = scene[p]
      /\ \A p \in Changed \ Started : scene'[p] = NoScene
      /\ \A p \in Started : \E state \in {"loading", "broken"} :
            scene'[p] = [id |-> number[p], file |-> Rendered(p), state |-> state]
  BY <1>1, <1>2, ScenesMade
<1> HIDE DEF number
<1>4. /\ FreeIds \subseteq 1..MaxScenes /\ FreeIds \subseteq Ids \ {0} /\ 0 \in Ids
      /\ \A p \in Panes : scene[p].id \notin FreeIds
  BY ViewerAssumption DEF FreeIds
<1>5. \A p \in Started : number[p] \in Ids \ {0} /\ Rendered(p) \in Files
  BY <1>3, <1>4 DEF Started, Rendered
<1>6. \A p \in Started : /\ scene'[p].id = number[p] /\ scene'[p].file = Rendered(p)
                          /\ scene'[p].state \in {"loading", "broken"}
  <2> SUFFICES ASSUME NEW p \in Started
               PROVE  /\ scene'[p].id = number[p] /\ scene'[p].file = Rendered(p)
                      /\ scene'[p].state \in {"loading", "broken"}
    OBVIOUS
  <2>1. PICK state \in {"loading", "broken"} :
          scene'[p] = [id |-> number[p], file |-> Rendered(p), state |-> state]
    BY <1>3
  <2> QED
    BY <2>1
<1>7. scene' \in [Panes -> [id : Ids, file : Files \union {NoFile},
                            state : {"none", "loading", "ready", "error", "broken", "refused"}]]
  <2> DEFINE S == [id : Ids, file : Files \union {NoFile},
                   state : {"none", "loading", "ready", "error", "broken", "refused"}]
  <2>1. \A p \in Panes \ Changed : scene'[p] \in S
    BY <1>3 DEF PanesInv, ViewerTypeOK
  <2>2. \A p \in Changed \ Started : scene'[p] \in S
    BY <1>3, <1>4
  <2>3. ASSUME NEW p \in Started PROVE scene'[p] \in S
    <3>1. PICK state \in {"loading", "broken"} :
            scene'[p] = [id |-> number[p], file |-> Rendered(p), state |-> state]
      BY <1>3
    <3>2. number[p] \in Ids /\ Rendered(p) \in Files \union {NoFile}
      BY <1>5
    <3> QED
      BY <3>1, <3>2
  <2> HIDE DEF S
  <2>4. \A p \in Panes : scene'[p] \in S
    BY <2>1, <2>2, <2>3
  <2>5. scene' \in [Panes -> S]
    BY <2>4, <1>3
  <2> QED
    BY <2>5 DEF S
<1>8. ScenesOK'
  <2>1. ASSUME NEW p \in Panes
        PROVE  IF scene'[p].state = "none" THEN scene'[p] = NoScene
               ELSE scene'[p].state # "refused" /\ scene'[p].id # 0 /\ scene'[p].file \in Files
    <3>1. CASE p \in Panes \ Changed
      BY <3>1, <1>3 DEF PanesInv, ScenesOK
    <3>2. CASE p \in Changed \ Started
      BY <3>2, <1>3
    <3>3. CASE p \in Started
      BY <3>3, <1>5, <1>6
    <3> QED
      BY <3>1, <3>2, <3>3
  <2>2. ASSUME NEW p \in Panes, NEW q \in Panes, p # q, scene'[p].id = scene'[q].id
        PROVE  scene'[p].id = 0
    <3>1. CASE p \in Started /\ q \in Started
      BY <3>1, <2>2, <1>3, <1>6
    <3>2. CASE p \in Started /\ q \notin Started
      <4>1. scene'[q].id = scene[q].id \/ scene'[q].id = 0
        BY <3>2, <1>3
      <4> QED
        BY <4>1, <3>2, <2>2, <1>3, <1>4, <1>5, <1>6
    <3>3. CASE q \in Started /\ p \notin Started
      <4>1. scene'[p].id = scene[p].id \/ scene'[p].id = 0
        BY <3>3, <1>3
      <4> QED
        BY <4>1, <3>3, <2>2, <1>3, <1>4, <1>5, <1>6
    <3>4. CASE p \notin Started /\ q \notin Started
      <4>1. CASE p \in Changed \/ q \in Changed
        BY <4>1, <3>4, <2>2, <1>3
      <4>2. CASE p \notin Changed /\ q \notin Changed
        BY <4>2, <2>2, <1>3 DEF PanesInv, ScenesOK
      <4> QED
        BY <4>1, <4>2
    <3> QED
      BY <3>1, <3>2, <3>3, <3>4
  <2> QED
    BY <2>1, <2>2 DEF ScenesOK
<1> DEFINE Loading == {q \in Started : scene'[q].state = "loading"}
           fresh == {scene'[p].id : p \in Loading}
<1>9. leases' = Kept \union fresh
  BY <1>1 DEF Leased
<1>10. fresh \subseteq Ids /\ IsFiniteSet(fresh) /\ Cardinality(fresh) \in Nat
       /\ Cardinality(fresh) <= Cardinality(Started)
  <2> DEFINE f == [p \in Loading |-> scene'[p].id]
  <2>1. {f[x] : x \in Loading} = fresh /\ f \in [Loading -> {f[x] : x \in Loading}]
    OBVIOUS
  <2>2. IsFiniteSet(Started) /\ Loading \in SUBSET Started
    BY ChangedPanes, PanesFinite
  <2>3. fresh \subseteq Ids
    BY <1>5, <1>6
  <2> HIDE DEF f, fresh, Loading
  <2>4. IsFiniteSet(Loading) /\ Cardinality(Loading) <= Cardinality(Started)
    BY <2>2, FS_Subset
  <2>5. IsFiniteSet(fresh) /\ Cardinality(fresh) <= Cardinality(Loading)
    BY <2>1, <2>4, ImageBound
  <2> QED
    BY <2>2, <2>3, <2>4, <2>5, FS_CardinalityType
<1>11. Cardinality(leases') <= MaxContexts
  <2> HIDE DEF fresh
  <2>1. IsFiniteSet(Kept \intersect fresh)
    BY <1>10, FS_Subset
  <2>2. Cardinality(Kept \intersect fresh) \in Nat
    BY <2>1, FS_CardinalityType
  <2>3. Cardinality(Kept \union fresh) = Cardinality(Kept) + Cardinality(fresh) - Cardinality(Kept \intersect fresh)
    BY <1>10, ContextsSuffice, FS_Union
  <2>4. Cardinality(Started) \in Nat
    BY ChangedPanes, PanesFinite
  <2> QED
    BY <1>9, <1>10, <2>2, <2>3, <2>4, ContextsSuffice, ViewerAssumption
<1>12. leases' \subseteq {scene'[p].id : p \in {q \in Panes : HasWindow(q)'}}
  <2>1. \A id \in Kept : \E p \in Panes : HasWindow(p)' /\ scene'[p].id = id
    BY KeptOfUnchanged, <1>3
  <2>2. \A id \in fresh : \E p \in Panes : HasWindow(p)' /\ scene'[p].id = id
    BY ChangedPanes
  <2> QED
    BY <1>9, <2>1, <2>2
<1>13. \A p \in Panes : scene'[p].state \in {"loading", "ready"} => scene'[p].id \in leases'
  <2> SUFFICES ASSUME NEW p \in Panes, scene'[p].state \in {"loading", "ready"}
               PROVE  scene'[p].id \in leases'
    OBVIOUS
  <2>1. CASE p \in Panes \ Changed
    BY <2>1, <1>3, <1>9, KeptOfUnchanged
  <2>2. CASE p \in Changed \ Started
    BY <2>2, <1>3
  <2>3. CASE p \in Started
    BY <2>3, <1>6, <1>9
  <2> QED
    BY <2>1, <2>2, <2>3
<1>14. leases' \subseteq Ids
  BY <1>9, <1>10 DEF Kept, PanesInv, ViewerTypeOK
<1>15. loads' \subseteq Panes \X Ids
  BY <1>1, <1>5, ChangedPanes DEF PanesInv, ViewerTypeOK
<1>16. \A p \in Changed : scene'[p].state \notin {"ready", "error", "refused"}
  BY <1>3, <1>6
<1> QED
  BY <1>3, <1>7, <1>8, <1>11, <1>12, <1>13, <1>14, <1>15, <1>16 DEF LeasesOfScenes

\* What a step that lets the scenes alone may change, under the invariant of the panes.
SameScenes == UNCHANGED <<scene, leases, loads>>
LEMMA ScenesKept ==
    ASSUME PanesInv, SameScenes
    PROVE  ScenesOK' /\ LeasesOfScenes'
BY DEF PanesInv, SameScenes, ScenesOK, LeasesOfScenes

LEMMA RenderInv ==
    ASSUME PanesInv, NEW new \in [Panes -> Files \union {NoFile, Unmounted}], Render(new)
    PROVE  PanesInv'
<1> USE DEF Render
<1>1. ScenesOK' /\ LeasesOfScenes'
  BY ScenesKept DEF SameScenes
<1>2. ViewerTypeOK'
  BY ViewerAssumption DEF PanesInv, ViewerTypeOK
<1>3. ControllersOK'
  BY DEF PanesInv, ControllersOK
<1>4. MeasuresOK'
  BY DEF PanesInv, MeasuresOK, ViewerTypeOK
<1> QED
  BY <1>1, <1>2, <1>3, <1>4 DEF PanesInv

LEMMA SetToType ==
    ASSUME ViewerTypeOK, NEW p \in Panes
    PROVE  SetTo(p) \in [of : Ids, tool : Tools \union {NoTool}]
<1> DEFINE c == controllers[p]
           t == tool[p]
<1>1. t \in Tools \union {NoTool} /\ c \in [of : Ids, tool : Tools \union {NoTool}]
  BY DEF ViewerTypeOK
<1>2. SetTo(p) = [c EXCEPT !.tool = t]
  BY DEF SetTo
<1> HIDE DEF c, t
<1>3. [c EXCEPT !.tool = t] \in [of : Ids, tool : Tools \union {NoTool}]
  BY <1>1
<1> QED
  BY <1>2, <1>3

LEMMA EffectsInv ==
    ASSUME PanesInv, NEW new \in [Panes -> Files \union {NoFile, Unmounted}],
           NEW again \in BOOLEAN, EffectsRun(new, again)
    PROVE  PanesInv'
<1>1. /\ ScenesOK' /\ LeasesOfScenes'
      /\ scene' \in [Panes -> [id : Ids, file : Files \union {NoFile},
                         state : {"none", "loading", "ready", "error", "broken", "refused"}]]
      /\ leases' \subseteq Ids /\ loads' \subseteq Panes \X Ids
      /\ \A p \in Panes \ Changed : scene'[p] = scene[p]
      /\ \A p \in Changed : scene'[p].state \notin {"ready", "error", "refused"}
  BY EffectsScenes
<1>2. /\ want' = new /\ pending' = again /\ UNCHANGED <<tool, picks>>
      /\ controllers' = [p \in Panes |->
            IF p \in Changed \/ controllers[p] = NoControllers THEN NoControllers ELSE SetTo(p)]
      /\ lastClick' = [p \in Panes |->
            IF p \in Changed \/ (tool[p] = "probe") # (controllers[p].tool = "probe")
            THEN 0 ELSE lastClick[p]]
      /\ probeResult' = [p \in Panes |-> IF tool[p] # "probe" THEN NoResult ELSE probeResult[p]]
      /\ measurementResult' = [p \in Panes |->
            IF MeasurementKept(p) THEN measurementResult[p] ELSE NoMeasurement]
  BY DEF EffectsRun
<1>3. ViewerTypeOK'
  <2> USE DEF PanesInv, ViewerTypeOK
  <2>0. 0 \in Ids /\ 0 \in 0..MaxClicks
    BY ViewerAssumption
  <2>1. controllers' \in [Panes -> [of : Ids, tool : Tools \union {NoTool}]]
    <3>1. \A p \in Panes : SetTo(p) \in [of : Ids, tool : Tools \union {NoTool}]
      BY SetToType
    <3>2. NoControllers \in [of : Ids, tool : Tools \union {NoTool}]
      BY <2>0
    <3> QED
      BY <3>1, <3>2, <1>2
  <2>2. lastClick' \in [Panes -> 0..MaxClicks]
    BY <1>2, <2>0
  <2>3. probeResult' \in [Panes -> [of : Ids, by : 0..MaxClicks]]
    BY <1>2, <2>0
  <2>4. measurementResult' \in [Panes -> [of : Ids, by : Measuring \union {NoTool}]]
    BY <1>2, <2>0
  <2> QED
    BY <1>1, <1>2, <2>1, <2>2, <2>3, <2>4
<1>4. \A p \in Panes : controllers'[p] # NoControllers =>
        /\ p \in Panes \ Changed /\ controllers[p] # NoControllers
        /\ controllers'[p].of = controllers[p].of /\ controllers'[p].tool = tool[p]
  BY <1>2 DEF SetTo, PanesInv, ViewerTypeOK
<1>5. \A p \in Panes \ Changed :
        controllers[p] # NoControllers => controllers'[p] = SetTo(p) /\ SetTo(p).of = controllers[p].of
  BY <1>2 DEF SetTo, PanesInv, ViewerTypeOK
<1>6. ControllersOK'
  <2> SUFFICES ASSUME NEW p \in Panes
               PROVE  /\ controllers'[p] # NoControllers =>
                           /\ scene'[p].state = "ready" /\ scene'[p].file \in Surfaces
                           /\ controllers'[p].of = scene'[p].id
                           /\ ~pending' => controllers'[p].tool = tool'[p]
                      /\ scene'[p].state = "ready" /\ scene'[p].file \in Surfaces
                           => controllers'[p] # NoControllers
    BY DEF ControllersOK
  <2>1. CASE controllers'[p] # NoControllers
    BY <2>1, <1>1, <1>2, <1>4 DEF PanesInv, ControllersOK
  <2>2. CASE controllers'[p] = NoControllers /\ scene'[p].state = "ready" /\ scene'[p].file \in Surfaces
    <3>1. p \in Panes \ Changed /\ controllers[p] # NoControllers
      BY <2>2, <1>1 DEF PanesInv, ControllersOK
    <3>2. controllers'[p].of = scene[p].id /\ scene[p].id # 0
      BY <3>1, <1>1, <1>5, <2>2 DEF PanesInv, ControllersOK, ScenesOK
    <3> QED
      BY <2>2, <3>2
  <2> QED
    BY <2>1, <2>2
<1>7. MeasuresOK'
  <2> SUFFICES ASSUME NEW p \in Panes, measurementResult'[p] # NoMeasurement
               PROVE  /\ controllers'[p] # NoControllers
                      /\ measurementResult'[p].of = controllers'[p].of
                      /\ tool'[p] \in Measuring
    BY DEF MeasuresOK
  <2>1. MeasurementKept(p) /\ measurementResult'[p] = measurementResult[p]
    BY <1>2
  <2>2. controllers[p] # NoControllers /\ measurementResult[p].of = controllers[p].of
    BY <2>1 DEF PanesInv, MeasuresOK
  <2>3. p \in Panes \ Changed /\ tool[p] \in Measuring
    BY <2>1, <2>2 DEF MeasurementKept
  <2>4. controllers'[p].of = controllers[p].of /\ controllers[p].of = scene[p].id /\ scene[p].id # 0
    BY <1>5, <2>2, <2>3 DEF PanesInv, ControllersOK, ScenesOK
  <2> QED
    BY <1>2, <2>1, <2>2, <2>3, <2>4
<1> QED
  BY <1>1, <1>3, <1>6, <1>7 DEF PanesInv

\* A scene that comes to an end stays the scene it was.
LEMMA StateSet ==
    ASSUME PanesInv, NEW p \in Panes, NEW state \in {"ready", "error"},
           scene[p].state = "loading", scene' = [scene EXCEPT ![p].state = state],
           UNCHANGED leases
    PROVE  /\ ScenesOK' /\ LeasesOfScenes'
           /\ scene' \in [Panes -> [id : Ids, file : Files \union {NoFile},
                            state : {"none", "loading", "ready", "error", "broken", "refused"}]]
           /\ \A q \in Panes : scene'[q].id = scene[q].id /\ scene'[q].file = scene[q].file
           /\ \A q \in Panes : scene'[q].state = IF q = p THEN state ELSE scene[q].state
<1>1. scene \in [Panes -> [id : Ids, file : Files \union {NoFile},
                            state : {"none", "loading", "ready", "error", "broken", "refused"}]]
  BY DEF PanesInv, ViewerTypeOK
<1>2. /\ \A q \in Panes : scene'[q].id = scene[q].id /\ scene'[q].file = scene[q].file
      /\ \A q \in Panes : scene'[q].state = IF q = p THEN state ELSE scene[q].state
      /\ \A q \in Panes : q # p => scene'[q] = scene[q]
  BY <1>1
<1>3. scene' \in [Panes -> [id : Ids, file : Files \union {NoFile},
                            state : {"none", "loading", "ready", "error", "broken", "refused"}]]
  BY <1>1
<1>4. ScenesOK'
  <2>1. scene'[p].state = state /\ scene'[p].id # 0 /\ scene'[p].file \in Files
    BY <1>2 DEF PanesInv, ScenesOK
  <2> QED
    BY <1>2, <2>1 DEF PanesInv, ScenesOK
<1>5. LeasesOfScenes'
  <2>1. \A q \in Panes : HasWindow(q)' = HasWindow(q)
    BY <1>2
  <2>2. \A q \in Panes : scene'[q].state \in {"loading", "ready"} => scene[q].state \in {"loading", "ready"}
    BY <1>2
  <2> HIDE DEF HasWindow
  <2> QED
    BY <1>2, <2>1, <2>2 DEF PanesInv, LeasesOfScenes
<1> QED
  BY <1>2, <1>3, <1>4, <1>5

LEMMA LoadFinishesInv ==
    ASSUME PanesInv, NEW p \in Panes, NEW id \in Ids, NEW emits \in BOOLEAN, LoadFinishes(p, id, emits)
    PROVE  PanesInv'
<1> USE DEF LoadFinishes
<1>1. CASE Undisposed(p, id)
  <2>0. scene[p].state = "loading" /\ scene' = [scene EXCEPT ![p].state = "ready"]
    BY <1>1 DEF Undisposed
  <2>1. /\ ScenesOK' /\ LeasesOfScenes'
        /\ scene' \in [Panes -> [id : Ids, file : Files \union {NoFile},
                            state : {"none", "loading", "ready", "error", "broken", "refused"}]]
        /\ \A q \in Panes : scene'[q].id = scene[q].id /\ scene'[q].file = scene[q].file
        /\ \A q \in Panes : scene'[q].state = IF q = p THEN "ready" ELSE scene[q].state
    BY <2>0, StateSet
  <2>2. controllers[p] = NoControllers /\ measurementResult[p] = NoMeasurement /\ scene[p].id # 0
    BY <2>0 DEF PanesInv, ControllersOK, MeasuresOK, ScenesOK
  <2>3. /\ \A q \in Panes : q # p => controllers'[q] = controllers[q]
        /\ IF scene[p].file \in Surfaces THEN controllers'[p] = ControllersOf(p)
           ELSE controllers'[p] = NoControllers
        /\ controllers' \in [Panes -> [of : Ids, tool : Tools \union {NoTool}]]
    <3>1. controllers \in [Panes -> [of : Ids, tool : Tools \union {NoTool}]]
          /\ ControllersOf(p) \in [of : Ids, tool : Tools \union {NoTool}]
      BY DEF PanesInv, ViewerTypeOK, ControllersOf
    <3>2. controllers' = IF scene[p].file \in Surfaces
                         THEN [controllers EXCEPT ![p] = ControllersOf(p)] ELSE controllers
      BY <1>1
    <3> QED
      BY <3>1, <3>2, <2>2
  <2>4. ViewerTypeOK'
    BY <2>1, <2>3 DEF PanesInv, ViewerTypeOK
  <2>5. ControllersOK'
    <3> SUFFICES ASSUME NEW q \in Panes
                 PROVE  /\ controllers'[q] # NoControllers =>
                             /\ scene'[q].state = "ready" /\ scene'[q].file \in Surfaces
                             /\ controllers'[q].of = scene'[q].id
                             /\ ~pending' => controllers'[q].tool = tool'[q]
                        /\ scene'[q].state = "ready" /\ scene'[q].file \in Surfaces
                             => controllers'[q] # NoControllers
      BY DEF ControllersOK
    <3>1. CASE q # p
      BY <3>1, <2>1, <2>3 DEF PanesInv, ControllersOK
    <3>2. CASE q = p
      BY <3>2, <2>1, <2>2, <2>3 DEF ControllersOf
    <3> QED
      BY <3>1, <3>2
  <2>6. MeasuresOK'
    BY <2>2, <2>3 DEF PanesInv, MeasuresOK
  <2> QED
    BY <2>1, <2>4, <2>5, <2>6 DEF PanesInv
<1>2. CASE ~Undisposed(p, id)
  <2>1. ScenesOK' /\ LeasesOfScenes'
    BY <1>2 DEF PanesInv, ScenesOK, LeasesOfScenes
  <2>2. ViewerTypeOK'
    BY <1>2 DEF PanesInv, ViewerTypeOK
  <2>3. ControllersOK' /\ MeasuresOK'
    BY <1>2 DEF PanesInv, ControllersOK, MeasuresOK
  <2> QED
    BY <2>1, <2>2, <2>3 DEF PanesInv
<1> QED
  BY <1>1, <1>2

LEMMA LoadFailsInv ==
    ASSUME PanesInv, NEW p \in Panes, NEW id \in Ids, LoadFails(p, id)
    PROVE  PanesInv'
<1> USE DEF LoadFails, toolVars
<1>1. CASE Undisposed(p, id)
  <2>0. scene[p].state = "loading" /\ scene' = [scene EXCEPT ![p].state = "error"]
    BY <1>1 DEF Undisposed
  <2>1. /\ ScenesOK' /\ LeasesOfScenes'
        /\ scene' \in [Panes -> [id : Ids, file : Files \union {NoFile},
                            state : {"none", "loading", "ready", "error", "broken", "refused"}]]
        /\ \A q \in Panes : scene'[q].id = scene[q].id /\ scene'[q].file = scene[q].file
        /\ \A q \in Panes : scene'[q].state = IF q = p THEN "error" ELSE scene[q].state
    BY <2>0, StateSet
  <2>2. ViewerTypeOK'
    BY <2>1 DEF PanesInv, ViewerTypeOK
  <2>3. ControllersOK' /\ MeasuresOK'
    BY <2>0, <2>1 DEF PanesInv, ControllersOK, MeasuresOK
  <2> QED
    BY <2>1, <2>2, <2>3 DEF PanesInv
<1>2. CASE ~Undisposed(p, id)
  <2>1. ScenesOK' /\ LeasesOfScenes'
    BY <1>2 DEF PanesInv, ScenesOK, LeasesOfScenes
  <2>2. ViewerTypeOK'
    BY <1>2 DEF PanesInv, ViewerTypeOK
  <2>3. ControllersOK' /\ MeasuresOK'
    BY <1>2 DEF PanesInv, ControllersOK, MeasuresOK
  <2> QED
    BY <2>1, <2>2, <2>3 DEF PanesInv
<1> QED
  BY <1>1, <1>2

LEMMA ChooseToolInv ==
    ASSUME PanesInv, NEW p \in Panes, NEW t \in Tools, ChooseTool(p, t)
    PROVE  PanesInv'
<1> USE DEF ChooseTool
<1>1. ScenesOK' /\ LeasesOfScenes'
  BY ScenesKept DEF SameScenes
<1>2. ViewerTypeOK'
  BY DEF PanesInv, ViewerTypeOK
<1>3. ControllersOK' /\ MeasuresOK'
  BY DEF PanesInv, ControllersOK, MeasuresOK
<1> QED
  BY <1>1, <1>2, <1>3 DEF PanesInv

LEMMA ProbeClickInv ==
    ASSUME PanesInv, NEW p \in Panes, ProbeClick(p)
    PROVE  PanesInv'
<1> USE DEF ProbeClick
<1>1. ScenesOK' /\ LeasesOfScenes'
  BY ScenesKept DEF SameScenes
<1>2. ViewerTypeOK'
  BY ViewerAssumption DEF PanesInv, ViewerTypeOK
<1>3. ControllersOK' /\ MeasuresOK'
  BY DEF PanesInv, ControllersOK, MeasuresOK
<1> QED
  BY <1>1, <1>2, <1>3 DEF PanesInv

LEMMA PickAnswersInv ==
    ASSUME PanesInv, NEW pick \in picks, NEW hit \in BOOLEAN, PickAnswers(pick, hit)
    PROVE  PanesInv'
<1> USE DEF PickAnswers
<1>1. ScenesOK' /\ LeasesOfScenes'
  BY ScenesKept DEF SameScenes
<1>2. ViewerTypeOK'
  BY ViewerAssumption DEF PanesInv, ViewerTypeOK
<1>3. ControllersOK' /\ MeasuresOK'
  BY DEF PanesInv, ControllersOK, MeasuresOK
<1> QED
  BY <1>1, <1>2, <1>3 DEF PanesInv

LEMMA CloseProbeInv ==
    ASSUME PanesInv, NEW p \in Panes, CloseProbe(p)
    PROVE  PanesInv'
<1> USE DEF CloseProbe
<1>1. ScenesOK' /\ LeasesOfScenes'
  BY ScenesKept DEF SameScenes
<1>2. ViewerTypeOK'
  BY ViewerAssumption DEF PanesInv, ViewerTypeOK
<1>3. ControllersOK' /\ MeasuresOK'
  BY DEF PanesInv, ControllersOK, MeasuresOK
<1> QED
  BY <1>1, <1>2, <1>3 DEF PanesInv

LEMMA MeasureInv ==
    ASSUME PanesInv, NEW p \in Panes, Measure(p)
    PROVE  PanesInv'
<1> USE DEF Measure
<1>1. ScenesOK' /\ LeasesOfScenes'
  BY ScenesKept DEF SameScenes
<1>2. controllers[p].tool \in Measuring /\ controllers[p] # NoControllers /\ controllers[p].of \in Ids
  BY DEF PanesInv, ViewerTypeOK, Measuring
<1>3. ViewerTypeOK'
  BY <1>2, ViewerAssumption DEF PanesInv, ViewerTypeOK
<1>4. ControllersOK'
  BY DEF PanesInv, ControllersOK
<1>5. MeasuresOK'
  BY <1>2 DEF PanesInv, MeasuresOK, ControllersOK, ViewerTypeOK
<1> QED
  BY <1>1, <1>3, <1>4, <1>5 DEF PanesInv
-----------------------------------------------------------------------------
(* What is compared *)

ChoiceOK ==
    /\ available \subseteq Datasets /\ primary \in Files \union {Nothing}
    /\ enabled \in BOOLEAN /\ chosen \in MaybeDatasets /\ secondaryStep \in 0..LastStep

LEMMA FileParts ==
    /\ \A f \in Files : f.of \in Datasets /\ f.step \in 0..LastStep
    /\ \A d \in Datasets, step \in 0..LastStep : [of |-> d, step |-> StepOf(d, step)] \in Files
    /\ \A d \in Datasets : [of |-> d, step |-> 0] \in Files
    /\ Nothing \notin Files /\ Nothing.of = NoDataset
BY ComparisonAssumption DEF StepOf, Nothing

LEMMA SecondaryType ==
    ASSUME ChoiceOK
    PROVE  SecondaryId \in available \union {NoDataset}
<1>1. \E d : SecondaryIds = {d} /\ d \in available \union {NoDataset}
  <2>1. CASE available # {}
    <3>1. (CHOOSE d \in available : TRUE) \in available
      BY <2>1
    <3> QED
      BY <3>1, <2>1 DEF SecondaryIds
  <2>2. CASE available = {}
    BY <2>2 DEF SecondaryIds
  <2> QED
    BY <2>1, <2>2
<1>2. SecondaryId \in SecondaryIds
  BY <1>1 DEF SecondaryId
<1> QED
  BY <1>1, <1>2

WantedOK == Wanted \in [Panes -> Files \union {NoFile, Unmounted}]

LEMMA WantedType == ChoiceOK => WantedOK
<1> SUFFICES ASSUME ChoiceOK
             PROVE  Wanted \in [Panes -> Files \union {NoFile, Unmounted}]
  BY DEF WantedOK
<1>1. SecondaryId \in Datasets \union {NoDataset}
  BY SecondaryType DEF ChoiceOK
<1>2. SecondaryId # NoDataset => [of |-> SecondaryId, step |-> StepOf(SecondaryId, secondaryStep)] \in Files
  BY <1>1, FileParts DEF ChoiceOK
<1> QED
  BY <1>2 DEF Wanted, ChoiceOK

LEMMA WantedNext == ChoiceOK' => Wanted' \in [Panes -> Files \union {NoFile, Unmounted}]
<1>1. ChoiceOK' => WantedOK'
  BY WantedType, PTL
<1> QED
  BY <1>1 DEF WantedOK

LEMMA NextStepType ==
    ASSUME NEW d \in Datasets, NEW step \in 0..LastStep
    PROVE  /\ NextStep(d, step) \in 0..LastStep
           /\ d \in Collections /\ LastStep > 0 => NextStep(d, step) # step
BY ComparisonAssumption DEF NextStep

-----------------------------------------------------------------------------
(* Every step of the page keeps the whole invariant *)

LEMMA ComparisonInitInv == Init => ComparisonInv
<1> SUFFICES ASSUME Init PROVE ComparisonInv
  OBVIOUS
<1> USE DEF Init, ViewerInit
<1>0. 0 \in Ids /\ 0 \in 0..MaxClicks /\ 0 \in 0..LastStep
  BY ViewerAssumption, ComparisonAssumption
<1>1. ViewerTypeOK
  <2>1. want \in [Panes -> Files \union {NoFile, Unmounted}] /\ tool \in [Panes -> Tools \union {NoTool}]
    OBVIOUS
  <2>2. scene \in [Panes -> [id : Ids, file : Files \union {NoFile},
                            state : {"none", "loading", "ready", "error", "broken", "refused"}]]
    BY <1>0
  <2>3. controllers \in [Panes -> [of : Ids, tool : Tools \union {NoTool}]]
    BY <1>0
  <2>4. /\ probeResult \in [Panes -> [of : Ids, by : 0..MaxClicks]] /\ lastClick \in [Panes -> 0..MaxClicks]
        /\ measurementResult \in [Panes -> [of : Ids, by : Measuring \union {NoTool}]]
    BY <1>0
  <2> QED
    BY <2>1, <2>2, <2>3, <2>4 DEF ViewerTypeOK
<1>2. TypeOK
  BY <1>0, <1>1 DEF TypeOK, MaybeDatasets, Cameras
<1>3. LeasesOfScenes
  BY FS_EmptySet, ViewerAssumption DEF LeasesOfScenes
<1>4. ScenesOK /\ ControllersOK /\ MeasuresOK
  BY DEF ScenesOK, ControllersOK, MeasuresOK
<1>5. CamerasAgree
  BY DEF CamerasAgree
<1> QED
  BY <1>1, <1>2, <1>3, <1>4, <1>5 DEF ComparisonInv, PanesInv

\* A step that renders the panes anew.
LEMMA RenderedInv ==
    ASSUME ComparisonInv, Render(Wanted'), ChoiceOK', UNCHANGED uses,
           previous' \in MaybeDatasets, cameraSync' \in BOOLEAN,
           camera' \in Cameras, secondaryCamera' \in Cameras, aim' \in [Panes -> Cameras]
    PROVE  ComparisonInv'
<1>1. Wanted' \in [Panes -> Files \union {NoFile, Unmounted}]
  BY WantedNext
<1>2. PanesInv'
  BY <1>1, RenderInv DEF ComparisonInv
<1>3. TypeOK'
  BY <1>2 DEF PanesInv, TypeOK, ChoiceOK, ComparisonInv
<1>4. pending'
  BY DEF Render
<1> QED
  BY <1>2, <1>3, <1>4 DEF ComparisonInv, CamerasAgree

LEMMA ChoicesInv ==
    ASSUME ComparisonInv, UNCHANGED uses,
           \/ \E d \in Datasets : DatasetsChange(d) \/ SelectDataset(d) \/ ChooseSecondary(d)
           \/ \E step \in 0..LastStep : Seek(step) \/ ChooseStep(step)
           \/ ToggleComparison \/ SwitchProject \/ ToggleSync
    PROVE  ComparisonInv'
<1> USE DEF ComparisonInv, TypeOK, ChoiceOK, cameraVars, choiceVars
<1>0. /\ ChoiceOK /\ ComparisonAssumption /\ 0 \in 0..LastStep
      /\ NoCamera \in Cameras /\ Nothing \in Files \union {Nothing}
  BY ComparisonAssumption DEF Cameras
<1>1. ASSUME NEW d \in Datasets, DatasetsChange(d) PROVE ComparisonInv'
  <2>1. ChoiceOK'
    BY <1>0, <1>1 DEF DatasetsChange
  <2> QED
    BY <1>1, <2>1, RenderedInv DEF DatasetsChange
<1>2. ASSUME NEW d \in Datasets, SelectDataset(d) PROVE ComparisonInv'
  <2>1. ChoiceOK'
    BY <1>0, <1>2, FileParts DEF SelectDataset
  <2> QED
    BY <1>0, <1>2, <2>1, RenderedInv DEF SelectDataset
<1>3. ASSUME NEW d \in Datasets, ChooseSecondary(d) PROVE ComparisonInv'
  <2>1. ChoiceOK'
    BY <1>0, <1>3 DEF ChooseSecondary, MaybeDatasets
  <2> QED
    BY <1>0, <1>3, <2>1, RenderedInv DEF ChooseSecondary
<1>4. ASSUME NEW step \in 0..LastStep, Seek(step) PROVE ComparisonInv'
  <2>1. primary \in Files /\ primary.of \in Collections
    BY <1>0, <1>4, FileParts DEF Seek
  <2>2. [primary EXCEPT !.step = step] \in Files
    BY <2>1, ComparisonAssumption
  <2>3. ChoiceOK'
    BY <1>0, <1>4, <2>2 DEF Seek
  <2> QED
    BY <1>0, <1>4, <2>3, RenderedInv DEF Seek
<1>5. ASSUME NEW step \in 0..LastStep, ChooseStep(step) PROVE ComparisonInv'
  <2>1. ChoiceOK'
    BY <1>0, <1>5 DEF ChooseStep
  <2> QED
    BY <1>0, <1>5, <2>1, RenderedInv DEF ChooseStep
<1>6. CASE ToggleComparison
  <2>1. ChoiceOK'
    BY <1>0, <1>6 DEF ToggleComparison
  <2> QED
    BY <1>0, <1>6, <2>1, RenderedInv DEF ToggleComparison
<1>7. CASE SwitchProject
  <2>1. ChoiceOK'
    BY <1>0, <1>7 DEF SwitchProject
  <2> QED
    BY <1>0, <1>7, <2>1, RenderedInv DEF SwitchProject
<1>8. CASE ToggleSync
  <2>1. ChoiceOK'
    BY <1>0, <1>8 DEF ToggleSync
  <2> QED
    BY <1>0, <1>8, <2>1, RenderedInv DEF ToggleSync
<1> QED
  BY <1>1, <1>2, <1>3, <1>4, <1>5, <1>6, <1>7, <1>8

LEMMA AllEffectsInv == ASSUME ComparisonInv, UNCHANGED uses, AllEffectsRun PROVE ComparisonInv'
<1> USE DEF AllEffectsRun
<1> DEFINE other == SecondaryId # previous
<1>1. ChoiceOK /\ SecondaryId \in available \union {NoDataset} /\ available \subseteq Datasets
  BY SecondaryType DEF ComparisonInv, TypeOK, ChoiceOK
<1>2. ChoiceOK'
  <2>1. secondaryStep' \in 0..LastStep
    <3>1. CASE other /\ SecondaryId = primary.of /\ SecondaryId # NoDataset
      <4>1. SecondaryId \in Datasets /\ primary \in Files /\ primary.step \in 0..LastStep
        BY <3>1, <1>1, FileParts DEF ChoiceOK
      <4> QED
        BY <3>1, <4>1, NextStepType
    <3>2. CASE ~(other /\ SecondaryId = primary.of /\ SecondaryId # NoDataset)
      BY <3>2, <1>1, ComparisonAssumption DEF ChoiceOK
    <3> QED
      BY <3>1, <3>2
  <2> QED
    BY <1>1, <2>1 DEF ChoiceOK
<1>3. Wanted' \in [Panes -> Files \union {NoFile, Unmounted}]
  BY <1>2, WantedNext
<1>4. EffectsRun(Wanted', other) /\ other \in BOOLEAN
  OBVIOUS
<1>5. PanesInv'
  BY <1>3, <1>4, EffectsInv DEF ComparisonInv
<1>6. TypeOK'
  <2>1. previous' \in MaybeDatasets
    BY <1>1 DEF MaybeDatasets
  <2>2. secondaryCamera' \in Cameras
    BY DEF ComparisonInv, TypeOK, Cameras
  <2>3. aim' \in [Panes -> Cameras]
    BY DEF ComparisonInv, TypeOK, Cameras, CameraOf
  <2> QED
    BY <1>2, <1>5, <2>1, <2>2, <2>3 DEF ComparisonInv, TypeOK, PanesInv, ChoiceOK
<1>7. CamerasAgree'
  <2> SUFFICES ASSUME ~pending', cameraSync', camera' # NoCamera,
                      NEW p \in Panes, scene'[p].state = "ready"
               PROVE  aim'[p] = camera'
    BY DEF CamerasAgree
  <2>1. /\ \A q \in Panes \ Changed : scene'[q] = scene[q]
        /\ \A q \in Changed : scene'[q].state \notin {"ready", "error", "refused"}
    BY <1>4, EffectsScenes DEF ComparisonInv
  <2>2. p \notin Changed /\ scene[p].state = "ready"
    BY <2>1
  <2> QED
    BY <2>2 DEF CameraOf
<1> QED
  BY <1>5, <1>6, <1>7 DEF ComparisonInv

LEMMA SceneFinishesInv ==
    ASSUME ComparisonInv, UNCHANGED uses, NEW l \in loads, SceneFinishes(l[1], l[2])
    PROVE  ComparisonInv'
<1> DEFINE p == l[1]
           id == l[2]
           c == IF CameraOf(p) = NoCamera THEN scene[p].file.of ELSE CameraOf(p)
           emits == Undisposed(p, id) /\ c # CameraOf(p)
<1>1. p \in Panes /\ id \in Ids
  BY DEF ComparisonInv, PanesInv, ViewerTypeOK
<1>2. /\ LoadFinishes(p, id, emits) /\ emits \in BOOLEAN
      /\ IF Undisposed(p, id)
         THEN aim' = [aim EXCEPT ![p] = c] /\ Emits(p, c)
         ELSE UNCHANGED <<aim, camera, secondaryCamera>>
      /\ UNCHANGED <<choiceVars, cameraSync>>
  BY DEF SceneFinishes, Undisposed
<1>3. PanesInv'
  BY <1>1, <1>2, LoadFinishesInv DEF ComparisonInv
<1>4. Undisposed(p, id) => c \in Cameras
  <2>1. Undisposed(p, id) => scene[p].file \in Files
    BY <1>1 DEF ComparisonInv, PanesInv, ScenesOK, Undisposed
  <2> QED
    BY <2>1, <1>1, FileParts DEF ComparisonInv, TypeOK, Cameras, CameraOf
<1> HIDE DEF p, id, c
<1>5. TypeOK'
  BY <1>1, <1>2, <1>3, <1>4 DEF ComparisonInv, TypeOK, PanesInv, choiceVars, Emits
<1>6. CamerasAgree'
  <2> SUFFICES ASSUME ~pending', cameraSync', camera' # NoCamera,
                      NEW q \in Panes, scene'[q].state = "ready"
               PROVE  aim'[q] = camera'
    BY DEF CamerasAgree
  <2>1. ~pending /\ ~emits /\ cameraSync
    BY <1>2 DEF LoadFinishes
  <2>2. CASE Undisposed(p, id)
    <3>1. c = camera /\ camera' = camera
      BY <2>1, <2>2, <1>2 DEF Emits, CameraOf
    <3>2. CASE q = p
      BY <3>1, <3>2, <2>2, <1>1, <1>2 DEF ComparisonInv, TypeOK
    <3>3. CASE q # p
      <4>1. scene[q].state = "ready" /\ aim'[q] = aim[q]
        BY <3>3, <2>2, <1>1, <1>2 DEF LoadFinishes, ComparisonInv, TypeOK, PanesInv, ViewerTypeOK
      <4> QED
        BY <4>1, <3>1, <2>1 DEF ComparisonInv, CamerasAgree
    <3> QED
      BY <3>2, <3>3
  <2>3. CASE ~Undisposed(p, id)
    BY <2>1, <2>3, <1>2 DEF LoadFinishes, ComparisonInv, CamerasAgree
  <2> QED
    BY <2>2, <2>3
<1> QED
  BY <1>3, <1>5, <1>6 DEF ComparisonInv

LEMMA TurnCameraInv == ASSUME ComparisonInv, UNCHANGED uses, NEW p \in Panes, TurnCamera(p) PROVE ComparisonInv'
<1> USE DEF TurnCamera
<1>1. PanesInv'
  <2>1. ScenesOK' /\ LeasesOfScenes'
    BY ScenesKept DEF SameScenes, ComparisonInv
  <2>2. ViewerTypeOK' /\ ControllersOK' /\ MeasuresOK'
    BY DEF ComparisonInv, PanesInv, ViewerTypeOK, ControllersOK, MeasuresOK, toolVars
  <2> QED
    BY <2>1, <2>2 DEF PanesInv
<1>2. TypeOK'
  BY <1>1 DEF ComparisonInv, TypeOK, PanesInv, choiceVars, Emits, Cameras
<1> QED
  BY <1>1, <1>2 DEF ComparisonInv, CamerasAgree

\* The tools of a pane and loads that fail leave the rest of the page alone.
LEMMA PaneStepInv ==
    ASSUME ComparisonInv, PanesInv', UNCHANGED <<uses, choiceVars, cameraVars>>, pending' \in {pending, TRUE},
           \A p \in Panes : scene'[p].state = "ready" => scene[p].state = "ready"
    PROVE  ComparisonInv'
<1>1. TypeOK'
  BY DEF ComparisonInv, TypeOK, PanesInv, choiceVars, cameraVars
<1>2. CamerasAgree'
  BY DEF ComparisonInv, CamerasAgree, choiceVars, cameraVars
<1> QED
  BY <1>1, <1>2 DEF ComparisonInv

LEMMA FailsInv ==
    ASSUME ComparisonInv, UNCHANGED <<uses, choiceVars, cameraVars>>, FailNext
    PROVE  ComparisonInv'
<1>1. PICK l \in loads : LoadFails(l[1], l[2])
  BY DEF FailNext
<1>2. l[1] \in Panes /\ l[2] \in Ids
  BY DEF ComparisonInv, PanesInv, ViewerTypeOK
<1>3. PanesInv'
  BY <1>1, <1>2, LoadFailsInv DEF ComparisonInv
<1>4. pending' = pending /\ \A p \in Panes : scene'[p].state = "ready" => scene[p].state = "ready"
  BY <1>1, <1>2 DEF LoadFails, ComparisonInv, PanesInv, ViewerTypeOK
<1> QED
  BY <1>3, <1>4, PaneStepInv

LEMMA ToolsInv ==
    ASSUME ComparisonInv, UNCHANGED <<uses, choiceVars, cameraVars>>, ToolNext(uses \intersect Panes)
    PROVE  ComparisonInv'
<1>1. PanesInv'
  BY ChooseToolInv, ProbeClickInv, CloseProbeInv, MeasureInv, PickAnswersInv DEF ToolNext, ComparisonInv
<1>2. UNCHANGED scene /\ pending' \in {pending, TRUE}
  BY DEF ToolNext, ChooseTool, ProbeClick, CloseProbe, Measure, PickAnswers
<1> QED
  BY <1>1, <1>2, PaneStepInv

LEMMA ComparisonStepInv == ComparisonInv /\ [Next]_vars => ComparisonInv'
<1> SUFFICES ASSUME ComparisonInv, [Next]_vars PROVE ComparisonInv'
  OBVIOUS
<1>1. CASE UNCHANGED vars
  BY <1>1 DEF vars, viewerVars, toolVars, choiceVars, cameraVars, ComparisonInv, TypeOK, PanesInv, ViewerTypeOK,
     ScenesOK, LeasesOfScenes, ControllersOK, MeasuresOK, CamerasAgree
<1>2. CASE Next
  BY <1>2, ChoicesInv, AllEffectsInv, SceneFinishesInv, TurnCameraInv, FailsInv, ToolsInv
     DEF Next, PaneNext, ChoiceNext, CameraNext
<1> QED
  BY <1>1, <1>2
-----------------------------------------------------------------------------
\* ComparisonInv is inductive: scenes, contexts, controllers and measures belong together.
THEOREM PanesInvariance == Spec => []ComparisonInv
BY ComparisonInitInv, ComparisonStepInv, PTL DEF Spec

\* Leases, controllers and measures are those of the scenes of the panes, whatever
\* loads, clicks and choices come between a render and its effects.
THEOREM PanesBelongToScenes == Spec => []PanesOfScenes
<1>1. ComparisonInv => PanesOfScenes
  <2> SUFFICES ASSUME ComparisonInv PROVE PanesOfScenes
    OBVIOUS
  <2>1. ToolIsApplied
    <3> SUFFICES ASSUME NEW p \in Panes, ~pending, scene[p].state = "ready", scene[p].file \in Surfaces
                 PROVE  controllers[p] = [of |-> scene[p].id, tool |-> tool[p]]
      BY DEF ToolIsApplied
    <3> DEFINE c == controllers[p]
    <3>1. c.of = scene[p].id /\ c.tool = tool[p]
      BY DEF ComparisonInv, PanesInv, ControllersOK
    <3>2. c \in [of : Ids, tool : Tools \union {NoTool}]
      BY DEF ComparisonInv, PanesInv, ViewerTypeOK
    <3> HIDE DEF c
    <3>3. c = [of |-> c.of, tool |-> c.tool]
      BY <3>2
    <3> QED
      BY <3>1, <3>3 DEF c
  <2>2. MeasurementOfScene
    BY DEF MeasurementOfScene, ComparisonInv, PanesInv, MeasuresOK, ControllersOK
  <2> QED
    BY <2>1, <2>2 DEF PanesOfScenes, ComparisonInv, PanesInv
<1> QED
  BY <1>1, PanesInvariance, PTL

\* However many panes come, go and start a scene in one render, no pane is refused
\* a context, when the pool has one for every pane.
THEOREM PanesNeverRefused == Spec => []NoPaneRefused
<1>1. ComparisonInv => NoPaneRefused
  BY DEF ComparisonInv, PanesInv, ScenesOK, NoPaneRefused
<1> QED
  BY <1>1, PanesInvariance, PTL

\* What the probe tells is told by the controllers of the scene that is on the screen.
LEMMA StepAnswersLastClick ==
    ComparisonInv /\ [Next]_vars =>
        [\A p \in Panes :
            probeResult'[p] \notin {probeResult[p], NoResult}
                => probeResult'[p] = [of |-> scene[p].id, by |-> lastClick[p]]]_viewerVars
<1> SUFFICES ASSUME ComparisonInv, Next, NEW p \in Panes, probeResult'[p] \notin {probeResult[p], NoResult}
             PROVE  probeResult'[p] = [of |-> scene[p].id, by |-> lastClick[p]]
  BY DEF vars
<1>1. CASE UNCHANGED probeResult
  BY <1>1
<1>2. CASE \E new : Render(new)
  BY <1>2 DEF Render
<1>3. CASE \E new, again : EffectsRun(new, again)
  BY <1>3 DEF EffectsRun
<1>4. CASE \E q \in Panes : CloseProbe(q)
  BY <1>4 DEF CloseProbe, ComparisonInv, PanesInv, ViewerTypeOK
<1>5. ASSUME NEW pick \in picks, NEW hit \in BOOLEAN, PickAnswers(pick, hit)
      PROVE  probeResult'[p] = [of |-> scene[p].id, by |-> lastClick[p]]
  <2>1. Counts(pick) /\ pick.pane = p /\ probeResult'[p] = [of |-> pick.of, by |-> pick.by]
    BY <1>5 DEF PickAnswers, ComparisonInv, PanesInv, ViewerTypeOK
  <2>2. controllers[p] # NoControllers
    BY <2>1 DEF Counts
  <2> QED
    BY <2>1, <2>2 DEF Counts, ComparisonInv, PanesInv, ControllersOK
<1>6. \/ UNCHANGED probeResult \/ (\E new : Render(new)) \/ (\E new, again : EffectsRun(new, again))
      \/ (\E q \in Panes : CloseProbe(q))
      \/ \E pick \in picks, hit \in BOOLEAN : PickAnswers(pick, hit)
  <2>1. CASE PaneNext
    BY <2>1 DEF PaneNext, SelectDataset, Seek, ToggleComparison, AllEffectsRun, SceneFinishes, LoadFinishes
  <2>2. CASE ChoiceNext
    BY <2>2 DEF ChoiceNext, DatasetsChange, ChooseSecondary, ChooseStep, SwitchProject
  <2>3. CASE CameraNext
    BY <2>3 DEF CameraNext, ToggleSync, TurnCamera, toolVars
  <2>4. CASE FailNext
    BY <2>4 DEF FailNext, LoadFails, toolVars
  <2>5. CASE ToolNext(uses \intersect Panes)
    BY <2>5 DEF ToolNext, ChooseTool, ProbeClick, Measure
  <2> QED
    BY <2>1, <2>2, <2>3, <2>4, <2>5 DEF Next
<1> QED
  BY <1>1, <1>2, <1>3, <1>4, <1>5, <1>6

\* A pick that answers late never tells of an older click, nor of another scene.
THEOREM ProbeTellsLastClick == Spec => ProbeAnswersLastClick
BY PanesInvariance, StepAnswersLastClick, PTL DEF Spec, ProbeAnswersLastClick

LEMMA StepComparesTwoSteps ==
    ComparisonInv /\ [Next]_vars =>
        [previous' # previous /\ previous' = primary.of /\ enabled
            /\ previous' \in Collections /\ LastStep > 0
          => want'[Secondary] # want'[Primary]]_vars
<1> SUFFICES ASSUME ComparisonInv, Next, previous' # previous, previous' = primary.of, enabled,
                    previous' \in Collections, LastStep > 0
             PROVE  want'[Secondary] # want'[Primary]
  OBVIOUS
<1>1. AllEffectsRun
  <2>1. CASE ChoiceNext
    BY <2>1 DEF ChoiceNext, DatasetsChange, ChooseSecondary, ChooseStep, SwitchProject
  <2>2. CASE CameraNext
    BY <2>2 DEF CameraNext, ToggleSync, TurnCamera, choiceVars
  <2>3. CASE PaneNext
    BY <2>3 DEF PaneNext, SelectDataset, Seek, ToggleComparison, SceneFinishes, choiceVars
  <2> QED
    BY <2>1, <2>2, <2>3 DEF Next, choiceVars
<1> DEFINE d == SecondaryId
<1>2. /\ d = primary.of /\ d \in Collections /\ d # previous /\ d \in Datasets /\ d # NoDataset
      /\ UNCHANGED <<available, primary, enabled, chosen>>
  BY <1>1, ComparisonAssumption DEF AllEffectsRun
<1>3. primary \in Files /\ primary.step \in 0..LastStep /\ primary # Nothing
  BY <1>2, FileParts DEF ComparisonInv, TypeOK
<1>4. secondaryStep' = NextStep(d, primary.step) /\ secondaryStep' # primary.step
  BY <1>1, <1>2, <1>3, NextStepType DEF AllEffectsRun
<1>5. d' = d
  BY <1>2 DEF SecondaryId, SecondaryIds
<1>6. want' = Wanted'
  BY <1>1 DEF AllEffectsRun, EffectsRun
<1>7. want'[Primary] = primary
  BY <1>2, <1>3, <1>6, ComparisonAssumption DEF Wanted
<1>8. want'[Secondary] = [of |-> d, step |-> secondaryStep']
  BY <1>2, <1>5, <1>6, ComparisonAssumption DEF Wanted, StepOf
<1> QED
  BY <1>4, <1>7, <1>8

\* Panes in step look from one camera, and the comparison of a collection with itself
\* starts with two timesteps.
THEOREM PanesCompare == Spec => ComparedPanes
<1>1. ComparisonInv => CamerasAgree
  BY DEF ComparisonInv
<1> QED
  BY <1>1, PanesInvariance, StepComparesTwoSteps, PTL DEF Spec, ComparedPanes, ComparesTwoSteps

-----------------------------------------------------------------------------
(* The reports of the primary pane *)

LEMMA ReportsInit == Init => Reports!Init
BY ComparisonAssumption DEF Init, ViewerInit, Reports!Init, ReportOf

LEMMA ReportsStep == ComparisonInv /\ [Next]_vars => [Reports!Next]_(ReportOf(Primary))
<1> SUFFICES ASSUME ComparisonInv, Next, ReportOf(Primary)' # ReportOf(Primary)
             PROVE  Reports!Next
  BY DEF vars, viewerVars, ReportOf
<1>0. Primary \in Panes
  BY ComparisonAssumption
<1>1. \/ AllEffectsRun
      \/ \E l \in loads, emits \in BOOLEAN : LoadFinishes(l[1], l[2], emits)
      \/ FailNext
  <2>0. ~UNCHANGED scene
    BY DEF ReportOf
  <2>1. CASE PaneNext
    <3>1. CASE \E l \in loads : SceneFinishes(l[1], l[2])
      BY <3>1 DEF SceneFinishes, Undisposed
    <3> QED
      BY <2>0, <2>1, <3>1 DEF PaneNext, SelectDataset, Seek, ToggleComparison, Render
  <2>2. CASE ChoiceNext
    BY <2>0, <2>2 DEF ChoiceNext, DatasetsChange, ChooseSecondary, ChooseStep, SwitchProject, Render
  <2>3. CASE CameraNext
    BY <2>0, <2>3 DEF CameraNext, ToggleSync, TurnCamera, Render
  <2>4. CASE ToolNext(uses \intersect Panes)
    BY <2>0, <2>4 DEF ToolNext, ChooseTool, ProbeClick, CloseProbe, Measure, PickAnswers
  <2> QED
    BY <2>1, <2>2, <2>3, <2>4 DEF Next
<1>2. CASE AllEffectsRun
  <2>0. EffectsRun(Wanted', SecondaryId # previous) /\ (SecondaryId # previous) \in BOOLEAN
    BY <1>2 DEF AllEffectsRun
  <2>1. Primary \in Changed
    BY <1>0, <2>0, EffectsScenes DEF ComparisonInv, ReportOf
  <2>2. CASE Primary \notin Started
    <3>1. scene'[Primary] = NoScene
      BY <2>0, <2>1, <2>2, <1>0 DEF EffectsRun, NewScenes
    <3> QED
      BY <3>1 DEF ReportOf, Reports!Next, Reports!GiveUp
  <2>3. CASE Primary \in Started
    <3>1. PICK broken \in SUBSET Started : scene' = NewScenes(NumbersOf(Started), broken)
      BY <2>0 DEF EffectsRun
    <3>2. /\ scene'[Primary].file = Rendered(Primary)
          /\ scene'[Primary].state \in {"refused", "broken", "loading"}
      BY <2>1, <2>3, <3>1, <1>0 DEF NewScenes
    <3>3. Rendered(Primary) \in Files
      BY <2>3 DEF Started, Rendered
    <3> QED
      BY <3>2, <3>3 DEF ReportOf, Reports!Next, Reports!TakeUp
  <2> QED
    BY <2>2, <2>3
<1>3. ASSUME NEW state \in {"ready", "error"}, NEW p \in Panes,
             scene[p].state = "loading", scene' = [scene EXCEPT ![p].state = state]
      PROVE  Reports!Next
  <2>1. scene \in [Panes -> [id : Ids, file : Files \union {NoFile},
                            state : {"none", "loading", "ready", "error", "broken", "refused"}]]
    BY DEF ComparisonInv, PanesInv, ViewerTypeOK
  <2>2. p = Primary
    BY <1>0, <1>3, <2>1 DEF ReportOf
  <2>3. scene'[Primary].file = scene[Primary].file /\ scene'[Primary].state = state
    BY <1>0, <1>3, <2>1, <2>2
  <2>4. /\ ReportOf(Primary) = [frame |-> scene[Primary].file, state |-> "loading"]
        /\ ReportOf(Primary)' = [frame |-> scene[Primary].file, state |-> state]
    BY <1>3, <2>2, <2>3 DEF ReportOf
  <2> QED
    BY <2>4 DEF Reports!Next, Reports!Answer
<1>4. ASSUME NEW l \in loads, NEW emits \in BOOLEAN, LoadFinishes(l[1], l[2], emits)
      PROVE  Reports!Next
  <2>1. l[1] \in Panes
    BY DEF ComparisonInv, PanesInv, ViewerTypeOK
  <2>2. scene[l[1]].state = "loading" /\ scene' = [scene EXCEPT ![l[1]].state = "ready"]
    BY <1>4 DEF LoadFinishes, Undisposed, ReportOf
  <2> QED
    BY <2>1, <2>2, <1>3
<1>5. CASE FailNext
  <2>1. PICK l \in loads : LoadFails(l[1], l[2])
    BY <1>5 DEF FailNext
  <2>2. l[1] \in Panes
    BY DEF ComparisonInv, PanesInv, ViewerTypeOK
  <2>3. scene[l[1]].state = "loading" /\ scene' = [scene EXCEPT ![l[1]].state = "error"]
    BY <2>1 DEF LoadFails, Undisposed, ReportOf
  <2> QED
    BY <2>2, <2>3, <1>3
<1> QED
  BY <1>1, <1>2, <1>4, <1>5

\* The primary pane reports as SceneReports says: a frame is taken up, answered once,
\* and given up; nothing is heard of a frame that was left.
THEOREM PrimaryReports == Spec => ScenesReport
BY PanesInvariance, ReportsInit, ReportsStep, PTL DEF Spec, ScenesReport, Reports!Spec

HIDE DEF NoTool, NoScene, NoControllers, NoResult, NoMeasurement, Ids, HasWindow

-----------------------------------------------------------------------------
(***************************************************************************)
(* THE LIST OF JOBS never goes back, and cancellations settle. Both rest   *)
(* on what the requests hold: an answer is never newer than the server,    *)
(* and one whose ticket is not stale speaks of the current project only.   *)
(***************************************************************************)

Snapshots == UNION {[S -> Job] : S \in SUBSET Jobs}
Requests == [op : {"list", "track", "cancel"}, jobs : SUBSET Jobs,
             stale : BOOLEAN, served : BOOLEAN, answer : Snapshots]

\* What a request holds of the server's past, and whom it may tell it to.
CallOK(c) ==
    /\ c \in Requests
    /\ DOMAIN c.answer \subseteq c.jobs
    /\ \A j \in DOMAIN c.answer : c.answer[j].version \in 1..server[j].version
    /\ ~c.stale => \A j \in c.jobs : ProjectOf[j] = project

CallsInv == \A c \in calls : CallOK(c)
BoardInv == BoardTypeOK /\ board \in Snapshots /\ CallsInv /\ CancelingHasCall

USE JobBoardAssumption DEF Active, Terminal, Job, NotYet, NoJobs

-----------------------------------------------------------------------------
(* Snapshots and their merge *)

LEMMA SnapshotType ==
    ASSUME NEW s \in Snapshots
    PROVE  /\ DOMAIN s \subseteq Jobs
           /\ \A j \in DOMAIN s : s[j] \in Job
           /\ s = [j \in DOMAIN s |-> s[j]]
<1>1. PICK S \in SUBSET Jobs : s \in [S -> Job]
  BY DEF Snapshots
<1> QED
  BY <1>1

LEMMA SnapshotIntro ==
    ASSUME NEW S \in SUBSET Jobs, NEW s \in [S -> Job]
    PROVE  s \in Snapshots
BY DEF Snapshots

LEMMA EmptySnapshot == [j \in {} |-> NotYet] \in Snapshots /\ DOMAIN [j \in {} |-> NotYet] = {}
<1>1. [j \in {} |-> NotYet] \in [{} -> Job]
  OBVIOUS
<1> QED
  BY <1>1, SnapshotIntro

\* The merge keeps each job's version, or takes a newer one that came in.
LEMMA MergeKeeps ==
    ASSUME NEW s \in Snapshots, NEW t \in Snapshots,
           NEW r, r = MergeJobSnapshots(s, t)
    PROVE  /\ r \in Snapshots
           /\ DOMAIN r = DOMAIN s \union DOMAIN t
           /\ \A j \in DOMAIN s : s[j].version <= r[j].version
           /\ \A j \in DOMAIN r : \/ j \in DOMAIN s /\ r[j] = s[j]
                                  \/ j \in DOMAIN t /\ r[j] = t[j]
<1> DEFINE D == DOMAIN s \union DOMAIN t
<1>1. /\ D \in SUBSET Jobs
      /\ \A j \in DOMAIN s : s[j] \in Job
      /\ \A j \in DOMAIN t : t[j] \in Job
  BY SnapshotType
<1>2. r = [j \in D |-> IF j \notin DOMAIN t
                          \/ (j \in DOMAIN s /\ s[j].version > t[j].version)
                       THEN s[j] ELSE t[j]]
  BY DEF MergeJobSnapshots
<1>3. r \in [D -> Job]
  BY <1>1, <1>2
<1>4. \A j \in DOMAIN s : s[j].version <= r[j].version
  <2> SUFFICES ASSUME NEW j \in DOMAIN s
               PROVE  s[j].version <= r[j].version
    OBVIOUS
  <2>1. CASE j \in DOMAIN t
    <3>1. s[j].version \in Nat /\ t[j].version \in Nat
      BY <1>1, <2>1
    <3> QED
      BY <3>1, <2>1, <1>2
  <2>2. CASE j \notin DOMAIN t
    BY <1>1, <1>2, <2>2
  <2> QED
    BY <2>1, <2>2
<1> QED
  BY <1>1, <1>2, <1>3, <1>4, SnapshotIntro

-----------------------------------------------------------------------------
(* What the requests hold stays true *)

Grows == \A j \in Jobs : server[j].version \in Nat /\ server'[j].version \in Nat
                             /\ server[j].version <= server'[j].version

LEMMA CallKept ==
    ASSUME NEW c, CallOK(c), Grows, UNCHANGED project
    PROVE  CallOK(c)'
<1>1. c.answer \in Snapshots /\ DOMAIN c.answer \subseteq Jobs
      /\ \A j \in DOMAIN c.answer : c.answer[j].version \in Nat
  BY SnapshotType DEF CallOK, Requests
<1>2. \A j \in DOMAIN c.answer : c.answer[j].version \in 1..server'[j].version
  BY <1>1 DEF CallOK, Grows
<1> QED
  BY <1>2 DEF CallOK

LEMMA StaleKept ==
    ASSUME NEW c, CallOK(c), UNCHANGED server
    PROVE  CallOK([c EXCEPT !.stale = TRUE])'
BY DEF CallOK, Requests

LEMMA RequestType ==
    ASSUME NEW op \in {"list", "track", "cancel"}, NEW S \in SUBSET Jobs
    PROVE  LET r == Request(op, S) IN
           r \in Requests /\ r.op = op /\ r.jobs = S /\ DOMAIN r.answer = {}
<1> DEFINE e == [j \in {} |-> NotYet]
<1>1. e \in Snapshots /\ DOMAIN e = {}
  BY EmptySnapshot
<1>2. Request(op, S) = [op |-> op, jobs |-> S, stale |-> FALSE, served |-> FALSE, answer |-> e]
  BY DEF Request
<1> HIDE DEF e
<1> QED
  BY <1>1, <1>2 DEF Requests

LEMMA RequestOK ==
    ASSUME NEW op \in {"list", "track", "cancel"}, NEW S \in SUBSET Jobs,
           \A j \in S : ProjectOf[j] = project'
    PROVE  /\ CallOK(Request(op, S))'
           /\ Request(op, S).op = op /\ Request(op, S).jobs = S
<1> DEFINE r == Request(op, S)
<1>1. r \in Requests /\ r.op = op /\ r.jobs = S /\ DOMAIN r.answer = {}
  BY RequestType
<1> HIDE DEF r
<1>2. CallOK(r)'
  BY <1>1 DEF CallOK
<1> QED
  BY <1>1, <1>2 DEF r

LEMMA ServerType ==
    ASSUME BoardTypeOK
    PROVE  \A j \in Jobs : server[j].version \in Nat /\ (Exists(j) => server[j] \in Job)
                               /\ (server[j].status # "none" => server[j] \in Job)
BY DEF BoardTypeOK, Exists

LEMMA NothingGrows ==
    ASSUME BoardTypeOK, UNCHANGED server
    PROVE  Grows
BY ServerType DEF Grows

LEMMA KeepsVersions ==
    ASSUME BoardInv, NEW c \in calls, NEW ok \in BOOLEAN,
           board' = IF ok /\ ~c.stale THEN MergeJobSnapshots(board, c.answer) ELSE board
    PROVE  \A j \in DOMAIN board \intersect DOMAIN board' : board[j].version <= board'[j].version
<1>1. board \in Snapshots /\ c.answer \in Snapshots
  BY DEF BoardInv, CallsInv, CallOK, Requests
<1>2. CASE ok /\ ~c.stale
  BY <1>1, <1>2, MergeKeeps
<1>3. CASE ~(ok /\ ~c.stale)
  <2>1. \A j \in DOMAIN board : board[j].version \in Nat
    BY <1>1, SnapshotType
  <2> QED
    BY <2>1, <1>3
<1> QED
  BY <1>2, <1>3

\* A board that takes over the answer of a request that is not stale.
LEMMA BoardMerged ==
    ASSUME BoardInv, NEW c \in calls, NEW ok \in BOOLEAN, UNCHANGED <<server, project>>,
           board' = IF ok /\ ~c.stale THEN MergeJobSnapshots(board, c.answer) ELSE board
    PROVE  /\ board' \in Snapshots
           /\ \A j \in DOMAIN board' : /\ ProjectOf[j] = project'
                                       /\ board'[j].version \in 1..server'[j].version
<1>1. CASE ok /\ ~c.stale
  <2>1. CallOK(c) /\ board \in Snapshots /\ c.answer \in Snapshots
    BY DEF BoardInv, CallsInv, CallOK, Requests
  <2> DEFINE r == MergeJobSnapshots(board, c.answer)
  <2>2. board' = r
    BY <1>1
  <2>3. r \in Snapshots
    BY <2>1, MergeKeeps
  <2>4. \A j \in DOMAIN r : \/ j \in DOMAIN board /\ r[j] = board[j]
                            \/ j \in DOMAIN c.answer /\ r[j] = c.answer[j]
    BY DEF MergeJobSnapshots
  <2> HIDE DEF r
  <2> QED
    BY <2>1, <2>2, <2>3, <2>4, <1>1 DEF BoardInv, BoardTypeOK, CallOK
<1>2. CASE ~(ok /\ ~c.stale)
  BY <1>2 DEF BoardInv, BoardTypeOK
<1> QED
  BY <1>1, <1>2

-----------------------------------------------------------------------------
(* Every step keeps the invariant *)

\* What a step does to the requests that cancel, and to the mark of their jobs.
SameCancels ==
    /\ {c \in calls' : c.op = "cancel"} = {c \in calls : c.op = "cancel"}
    /\ canceling' = canceling

LEMMA CancelsKept ==
    ASSUME CancelingHasCall, SameCancels
    PROVE  CancelingHasCall'
BY DEF CancelingHasCall, SameCancels

LEMMA BoardInitInv == BoardInit => BoardInv
<1> SUFFICES ASSUME BoardInit PROVE BoardInv
  OBVIOUS
<1> USE DEF BoardInit
<1>1. board \in Snapshots /\ DOMAIN board = {}
  BY EmptySnapshot
<1>2. BoardTypeOK
  BY <1>1 DEF BoardTypeOK
<1>3. CallsInv /\ CancelingHasCall
  BY DEF CallsInv, CancelingHasCall
<1> QED
  BY <1>1, <1>2, <1>3 DEF BoardInv

LEMMA ProceedsInv == ASSUME BoardInv, NEW j \in Jobs, JobProceeds(j) PROVE BoardInv'
<1> USE DEF BoardInv, JobProceeds
<1>1. PICK status \in {"queued", "running", "succeeded", "failed"} :
          server' = [server EXCEPT ![j] = Touched(j, status)]
  OBVIOUS
<1>2. server[j].version \in Nat
  BY ServerType
<1>3. server' \in [Jobs -> Job \union {NotYet}] /\ Grows
  <2>1. Touched(j, status) \in Job /\ Touched(j, status).version = server[j].version + 1
    BY <1>2 DEF Touched
  <2>2. server \in [Jobs -> Job \union {NotYet}]
    BY DEF BoardTypeOK
  <2>3. server' \in [Jobs -> Job \union {NotYet}]
    BY <1>1, <2>1, <2>2
  <2>4. \A k \in Jobs : server'[k] = IF k = j THEN Touched(j, status) ELSE server[k]
    BY <1>1, <2>2
  <2>5. \A k \in Jobs : server[k].version \in Nat
    BY ServerType
  <2> QED
    BY <1>2, <2>1, <2>3, <2>4, <2>5 DEF Grows
<1>4. CallsInv'
  BY <1>3, CallKept DEF CallsInv
<1>5. \A k \in DOMAIN board : k \in Jobs /\ board[k].version \in Nat
  BY SnapshotType
<1>6. \A k \in DOMAIN board : board[k].version \in 1..server'[k].version
  BY <1>3, <1>5 DEF BoardTypeOK, Grows
<1>7. BoardTypeOK'
  BY <1>3, <1>6 DEF BoardTypeOK
<1>8. CancelingHasCall'
  BY DEF CancelingHasCall
<1> QED
  BY <1>4, <1>7, <1>8

LEMMA ServedInv == ASSUME BoardInv, NEW c \in calls, Served(c) PROVE BoardInv'
<1> USE DEF BoardInv
<1> DEFINE changed == [j \in Jobs |->
                IF c.op = "cancel" /\ j \in c.jobs /\ server[j].status \in Active
                THEN Touched(j, "canceled") ELSE server[j]]
           answer == [j \in {k \in c.jobs : Exists(k)} |-> changed[j]]
<1>0. PICK d : d = [c EXCEPT !.served = TRUE, !.answer = answer]
  OBVIOUS
<1>1. server' = changed /\ calls' = (calls \ {c}) \union {d}
      /\ UNCHANGED <<project, timer, board, canceling>>
  BY <1>0 DEF Served
<1>2. server \in [Jobs -> Job \union {NotYet}] /\ \A j \in Jobs : server[j].version \in Nat
  BY ServerType DEF BoardTypeOK
<1>3. \A j \in Jobs : /\ changed[j] \in Job \union {NotYet}
                      /\ server[j].version <= changed[j].version
                      /\ Exists(j) => changed[j] \in Job /\ changed[j].version \in Nat \ {0}
  <2> SUFFICES ASSUME NEW j \in Jobs
               PROVE  /\ changed[j] \in Job \union {NotYet}
                      /\ server[j].version <= changed[j].version
                      /\ Exists(j) => changed[j] \in Job /\ changed[j].version \in Nat \ {0}
    OBVIOUS
  <2>1. Touched(j, "canceled") \in Job /\ Touched(j, "canceled").version = server[j].version + 1
    BY <1>2 DEF Touched
  <2>2. /\ server[j] \in Job \union {NotYet} /\ server[j].version \in Nat
        /\ Exists(j) => server[j] \in Job /\ server[j].version \in Nat \ {0}
    BY <1>2, ServerType
  <2>3. changed[j] = Touched(j, "canceled") \/ changed[j] = server[j]
    OBVIOUS
  <2> HIDE DEF changed
  <2> QED
    BY <2>1, <2>2, <2>3
<1>4. Grows /\ server' \in [Jobs -> Job \union {NotYet}]
  <2>1. changed \in [Jobs -> Job \union {NotYet}]
    BY <1>3
  <2> HIDE DEF changed
  <2>2. \A j \in Jobs : changed[j].version \in Nat
    BY <2>1
  <2> QED
    BY <1>1, <1>2, <1>3, <2>1, <2>2 DEF Grows
<1>5. CallOK(c)
  BY DEF CallsInv
<1>6. answer \in Snapshots /\ DOMAIN answer \subseteq c.jobs /\ c.jobs \subseteq Jobs
      /\ \A j \in DOMAIN answer : answer[j] = changed[j] /\ Exists(j)
  <2>1. c.jobs \subseteq Jobs
    BY <1>5 DEF CallOK, Requests
  <2>2. answer \in [{k \in c.jobs : Exists(k)} -> Job]
    BY <2>1, <1>3
  <2> QED
    BY <2>1, <2>2, SnapshotIntro
<1> HIDE DEF changed, answer
<1>7. d \in Requests /\ d.op = c.op /\ d.jobs = c.jobs /\ d.stale = c.stale /\ d.answer = answer
  BY <1>0, <1>5, <1>6 DEF CallOK, Requests
<1>8. CallOK(d)'
  <2>1. \A j \in DOMAIN d.answer : d.answer[j].version \in 1..server'[j].version
    BY <1>1, <1>3, <1>6, <1>7
  <2>2. ~d.stale => \A j \in d.jobs : ProjectOf[j] = project'
    BY <1>1, <1>5, <1>7 DEF CallOK
  <2> QED
    BY <1>6, <1>7, <2>1, <2>2 DEF CallOK
<1>9. CallsInv'
  BY <1>1, <1>4, <1>8, CallKept DEF CallsInv
<1>10. \A k \in DOMAIN board : k \in Jobs /\ board[k].version \in Nat
  BY SnapshotType
<1>11. \A k \in DOMAIN board : board[k].version \in 1..server'[k].version
  BY <1>4, <1>10 DEF BoardTypeOK, Grows
<1>12. BoardTypeOK'
  BY <1>1, <1>4, <1>7, <1>11 DEF BoardTypeOK, Requests
<1>13. CancelingHasCall'
  BY <1>1, <1>7 DEF CancelingHasCall
<1> QED
  BY <1>1, <1>9, <1>12, <1>13

LEMMA SwitchInv == ASSUME BoardInv, NEW p \in Projects \union {NoProject}, Switch(p) PROVE BoardInv'
<1> USE DEF BoardInv, Switch
<1> DEFINE asked == IF p = NoProject THEN {} ELSE {ListRequest(p)}
           stale(c) == [c EXCEPT !.stale = TRUE]
<1>1. \A c \in asked : CallOK(c)' /\ c.op = "list"
  BY RequestOK DEF ListRequest
<1>2. \A c \in calls : /\ CallOK(stale(c))'
                       /\ stale(c).op = c.op /\ stale(c).jobs = c.jobs
  BY StaleKept DEF CallsInv, CallOK, Requests
<1>3. calls' = {stale(c) : c \in calls} \union asked
  OBVIOUS
<1> HIDE DEF asked, stale
<1>4. CallsInv'
  BY <1>1, <1>2, <1>3 DEF CallsInv
<1>5. board' \in Snapshots /\ DOMAIN board' = {}
  BY EmptySnapshot
<1>6. \A c \in calls' : /\ c.op \in {"list", "track", "cancel"}
                         /\ c.jobs \subseteq Jobs /\ {c.stale, c.served} \subseteq BOOLEAN
  BY <1>4 DEF CallsInv, CallOK, Requests
<1>7. BoardTypeOK'
  BY <1>5, <1>6 DEF BoardTypeOK
<1>8. CancelingHasCall'
  BY <1>1, <1>2, <1>3 DEF CancelingHasCall
<1> QED
  BY <1>4, <1>5, <1>7, <1>8

\* A new request, or fewer of them, under an unchanged server and project.
LEMMA CallsTyped ==
    ASSUME BoardTypeOK, CallsInv', UNCHANGED <<server, project>>, timer' \in BOOLEAN,
           canceling' \subseteq Jobs,
           \A j \in DOMAIN board' : ProjectOf[j] = project' /\ board'[j].version \in 1..server'[j].version
    PROVE  BoardTypeOK'
<1>1. \A c \in calls' : /\ c.op \in {"list", "track", "cancel"}
                         /\ c.jobs \subseteq Jobs /\ {c.stale, c.served} \subseteq BOOLEAN
  BY DEF CallsInv, CallOK, Requests
<1> QED
  BY <1>1 DEF BoardTypeOK

LEMMA PollAgainInv == ASSUME BoardInv, PollAgain PROVE BoardInv'
<1> USE DEF BoardInv, PollAgain
<1>1. CallOK(ListRequest(project))' /\ ListRequest(project).op = "list"
  BY RequestOK DEF ListRequest
<1>2. CallsInv'
  BY <1>1, CallKept, NothingGrows DEF CallsInv
<1>3. BoardTypeOK'
  BY <1>2, CallsTyped DEF BoardTypeOK
<1>4. CancelingHasCall'
  BY <1>1, CancelsKept DEF SameCancels
<1> QED
  BY <1>2, <1>3, <1>4

LEMMA TrackInv == ASSUME BoardInv, NEW j \in Jobs, Track(j) PROVE BoardInv'
<1> USE DEF BoardInv, Track
<1>1. CallOK(Request("track", {j}))' /\ Request("track", {j}).op = "track"
  BY RequestOK
<1>2. CallsInv'
  BY <1>1, CallKept, NothingGrows DEF CallsInv
<1>3. BoardTypeOK'
  BY <1>2, CallsTyped DEF BoardTypeOK
<1>4. CancelingHasCall'
  BY <1>1, CancelsKept DEF SameCancels
<1> QED
  BY <1>2, <1>3, <1>4

LEMMA CancelJobInv == ASSUME BoardInv, NEW j \in Jobs, CancelJob(j) PROVE BoardInv'
<1> USE DEF BoardInv, CancelJob
<1> DEFINE c == Request("cancel", {j})
<1>1. ProjectOf[j] = project
  BY DEF BoardTypeOK
<1>2. CallOK(c)' /\ c.op = "cancel" /\ c.jobs = {j}
  BY <1>1, RequestOK
<1> HIDE DEF c
<1>3. CallsInv'
  BY <1>2, CallKept, NothingGrows DEF CallsInv, c
<1>4. BoardTypeOK'
  BY <1>3, CallsTyped DEF BoardTypeOK
<1>5. calls' = calls \union {c} /\ canceling' = canceling \union {j} /\ j \notin canceling
  BY DEF c
<1>6. CancelingHasCall'
  <2> DEFINE cancels == {x \in calls : x.op = "cancel"}
  <2>1. {x \in calls' : x.op = "cancel"} = cancels \union {c}
    BY <1>2, <1>5
  <2>2. canceling = UNION {x.jobs : x \in cancels}
    BY DEF CancelingHasCall
  <2>3. \A x \in cancels : x.jobs \intersect c.jobs = {}
    BY <1>2, <1>5, <2>2
  <2>4. canceling' = UNION {x.jobs : x \in cancels \union {c}}
    BY <1>2, <1>5, <2>2
  <2>5. \A x, y \in cancels \union {c} : x # y => x.jobs \intersect y.jobs = {}
    BY <2>3 DEF CancelingHasCall
  <2> QED
    BY <2>1, <2>4, <2>5 DEF CancelingHasCall
<1> QED
  BY <1>3, <1>4, <1>6

LEMMA PolledInv == ASSUME BoardInv, NEW c \in calls, NEW ok \in BOOLEAN, Polled(c, ok) PROVE BoardInv'
<1> USE DEF BoardInv, Polled
<1>1. CallsInv'
  BY CallKept, NothingGrows DEF CallsInv
<1>2. /\ board' \in Snapshots
      /\ \A j \in DOMAIN board' : ProjectOf[j] = project' /\ board'[j].version \in 1..server'[j].version
  BY BoardMerged
<1>3. BoardTypeOK'
  BY <1>1, <1>2, CallsTyped DEF BoardTypeOK
<1>4. CancelingHasCall'
  BY CancelsKept DEF SameCancels
<1> QED
  BY <1>1, <1>2, <1>3, <1>4

LEMMA TrackedInv == ASSUME BoardInv, NEW c \in calls, NEW ok \in BOOLEAN, Tracked(c, ok) PROVE BoardInv'
<1> USE DEF BoardInv, Tracked
<1> DEFINE d == [Request("track", c.jobs) EXCEPT !.stale = c.stale]
<1>1. CallOK(d)' /\ d.op = "track"
  <2>1. CallOK(c) /\ c.stale \in BOOLEAN /\ c.jobs \subseteq Jobs
    BY DEF CallsInv, CallOK, Requests
  <2> DEFINE r == Request("track", c.jobs)
  <2>2. r \in Requests /\ r.op = "track" /\ r.jobs = c.jobs /\ DOMAIN r.answer = {}
    BY <2>1, RequestType
  <2>3. d = [r EXCEPT !.stale = c.stale]
    OBVIOUS
  <2> HIDE DEF r, d
  <2>4. d \in Requests /\ d.op = "track" /\ d.jobs = c.jobs /\ d.stale = c.stale
        /\ DOMAIN d.answer = {}
    BY <2>1, <2>2, <2>3 DEF Requests
  <2> QED
    BY <2>1, <2>4 DEF CallOK
<1> HIDE DEF d
<1>2. calls' \subseteq (calls \ {c}) \union {d}
  BY DEF d
<1>3. CallsInv'
  BY <1>1, <1>2, CallKept, NothingGrows DEF CallsInv
<1>4. /\ board' \in Snapshots
      /\ \A j \in DOMAIN board' : ProjectOf[j] = project' /\ board'[j].version \in 1..server'[j].version
  BY BoardMerged
<1>5. BoardTypeOK'
  BY <1>3, <1>4, CallsTyped DEF BoardTypeOK
<1>6. {x \in calls' : x.op = "cancel"} = {x \in calls : x.op = "cancel"}
  BY <1>1, <1>2
<1>7. CancelingHasCall'
  BY <1>6, CancelsKept DEF SameCancels
<1> QED
  BY <1>3, <1>4, <1>5, <1>7

LEMMA CanceledInv == ASSUME BoardInv, NEW c \in calls, NEW ok \in BOOLEAN, Canceled(c, ok) PROVE BoardInv'
<1> USE DEF BoardInv, Canceled
<1>1. CallsInv'
  BY CallKept, NothingGrows DEF CallsInv
<1>2. /\ board' \in Snapshots
      /\ \A j \in DOMAIN board' : ProjectOf[j] = project' /\ board'[j].version \in 1..server'[j].version
  BY BoardMerged
<1>3. BoardTypeOK'
  BY <1>1, <1>2, CallsTyped DEF BoardTypeOK
<1>4. CancelingHasCall'
  BY DEF CancelingHasCall
<1> QED
  BY <1>1, <1>2, <1>3, <1>4

LEMMA BoardStepInv == BoardInv /\ [BoardNext]_boardVars => BoardInv'
<1> SUFFICES ASSUME BoardInv, [BoardNext]_boardVars PROVE BoardInv'
  OBVIOUS
<1>1. CASE UNCHANGED boardVars
  BY <1>1 DEF boardVars, BoardInv, BoardTypeOK, CallsInv, CallOK, CancelingHasCall
<1>2. CASE BoardNext
  BY <1>2, SwitchInv, PollAgainInv, ProceedsInv, TrackInv, CancelJobInv, ServedInv,
     PolledInv, TrackedInv, CanceledInv DEF BoardNext
<1> QED
  BY <1>1, <1>2

-----------------------------------------------------------------------------
\* BoardInv is inductive: types, what the requests hold, and who cancels what.
THEOREM BoardInvariance == BoardSpec => []BoardInv
BY BoardInitInv, BoardStepInv, PTL DEF BoardSpec

\* A job is marked as being canceled exactly while one request to cancel it waits,
\* for any jobs, projects and requests.
THEOREM BoardCancelsSettle == BoardSpec => []CancelsSettle
<1>1. BoardInv => CancelsSettle
  BY DEF BoardInv, CancelsSettle
<1> QED
  BY <1>1, BoardInvariance, PTL

LEMMA StepKeepsVersions ==
    BoardInv /\ [BoardNext]_boardVars =>
        [\A j \in DOMAIN board \intersect DOMAIN board' : board[j].version <= board'[j].version]_boardVars
<1> SUFFICES ASSUME BoardInv, BoardNext
             PROVE  \A j \in DOMAIN board \intersect DOMAIN board' :
                        board[j].version <= board'[j].version
  OBVIOUS
<1>1. \A j \in DOMAIN board : board[j].version \in Nat
  BY SnapshotType DEF BoardInv
<1>2. CASE UNCHANGED board
  BY <1>1, <1>2
<1>3. ASSUME NEW p \in Projects \union {NoProject}, Switch(p)
      PROVE  DOMAIN board' = {}
  BY <1>3, EmptySnapshot DEF Switch
<1>4. ASSUME NEW c \in calls, NEW ok \in BOOLEAN, Polled(c, ok) \/ Tracked(c, ok) \/ Canceled(c, ok)
      PROVE  \A j \in DOMAIN board \intersect DOMAIN board' : board[j].version <= board'[j].version
  BY <1>4, KeepsVersions DEF Polled, Tracked, Canceled
<1> QED
  BY <1>2, <1>3, <1>4 DEF BoardNext, PollAgain, JobProceeds, Track, CancelJob, Served

\* No answer, however late, takes a job on the page back to an older version.
THEOREM BoardNeverRegresses == BoardSpec => NeverRegresses
BY BoardInvariance, StepKeepsVersions, PTL DEF BoardSpec, NeverRegresses
=============================================================================
