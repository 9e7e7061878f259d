----------------------------- MODULE VectorGlyphs -----------------------------
(***************************************************************************)
(* The arrows of a scene: vectorGlyph.ts. Of a point array, only which     *)
(* points have a finite vector that is not zero is known.                  *)
(***************************************************************************)
EXTENDS Integers, Sequences, FiniteSets, SequencesExt, FiniteSetsExt

CONSTANTS
    VectorArrays,       \* the names of the three-component point arrays
    ValidPoints,        \* the sets of points that an array may have vectors at
    PointLimits,        \* MAX_VECTOR_GLYPHS
    Scales,
    NoVectors           \* no name is chosen

ASSUME GlyphAssumption ==
    /\ NoVectors \notin VectorArrays /\ PointLimits \subseteq Nat
    /\ ValidPoints \subseteq SUBSET Nat /\ \A points \in ValidPoints : IsFiniteSet(points)

VARIABLES
    valid,              \* the points of each array that have a vector
    limit,
    glyphActors,        \* the actors of the renderer: [array, points, scale]
    glyphs,             \* resources: the actor that is owned, as a set
    glyphSettings,      \* what was applied last
    summary             \* how many arrows the user is told of, 0 for null

glyphVars == <<valid, limit, glyphActors, glyphs, glyphSettings, summary>>

\* Math.round(index * last / (limit - 1)).
Spread(total, count) ==
    [n \in 1..count |-> (2 * (n - 1) * (total - 1) + count - 1) \div (2 * (count - 1))]

DeterministicSampleIndices(total, count) ==
    CASE total = 0 \/ count = 0 -> <<>>
      [] total # 0 /\ count # 0 /\ total <= count -> [n \in 1..total |-> n - 1]
      [] total > count /\ count = 1 -> <<0>>
      [] OTHER -> Spread(total, count)

\* The point that so many points with a vector come before.
PointAt(points, ordinal) ==
    CHOOSE p \in points : Cardinality({q \in points : q < p}) = ordinal

\* The ordinals that are sampled count the points with a vector only.
SampledPoints(array) ==
    LET ordinals == DeterministicSampleIndices(Cardinality(valid[array]), limit)
    IN [n \in DOMAIN ordinals |-> PointAt(valid[array], ordinals[n])]

GlyphsInit ==
    /\ valid \in [VectorArrays -> ValidPoints] /\ limit \in PointLimits
    /\ glyphActors = {} /\ glyphs = {} /\ summary = 0
    /\ glyphSettings = [enabled |-> FALSE, array |-> NoVectors, scale |-> 1]

Rescaled(glyph, scale) == [glyph EXCEPT !.scale = scale]

\* The controller's apply(): the arrows of the same array are only scaled.
ApplyGlyphsKeeping(settings) ==
    /\ glyphSettings' = settings
    /\ IF ~settings.enabled \/ settings.array = NoVectors
       THEN glyphActors' = glyphActors \ glyphs /\ glyphs' = {} /\ summary' = 0
       ELSE IF glyphs # {}
       THEN LET scaled == {Rescaled(glyph, settings.scale) : glyph \in glyphs}
            IN /\ glyphActors' = (glyphActors \ glyphs) \union scaled
               /\ glyphs' = scaled /\ UNCHANGED summary
       ELSE LET sampled == SampledPoints(settings.array)
                glyph == [array |-> settings.array, points |-> sampled, scale |-> settings.scale]
            IN /\ glyphs' = IF sampled = <<>> THEN {} ELSE {glyph}
               /\ glyphActors' = (glyphActors \ glyphs) \union glyphs'
               /\ summary' = Len(sampled)
    /\ UNCHANGED <<valid, limit>>
ApplyGlyphs(settings) ==
    /\ glyphSettings' = settings
    /\ IF ~settings.enabled \/ settings.array = NoVectors
       THEN glyphActors' = glyphActors \ glyphs /\ glyphs' = {} /\ summary' = 0
       ELSE IF \E glyph \in glyphs : glyph.array = settings.array
       THEN LET scaled == {Rescaled(glyph, settings.scale) : glyph \in glyphs}
            IN /\ glyphActors' = (glyphActors \ glyphs) \union scaled
               /\ glyphs' = scaled /\ UNCHANGED summary
       ELSE LET sampled == SampledPoints(settings.array)
                glyph == [array |-> settings.array, points |-> sampled, scale |-> settings.scale]
            IN /\ glyphs' = IF sampled = <<>> THEN {} ELSE {glyph}
               /\ glyphActors' = (glyphActors \ glyphs) \union glyphs'
               /\ summary' = Len(sampled)
    /\ UNCHANGED <<valid, limit>>

GlyphsNext ==
    \E enabled \in BOOLEAN, array \in VectorArrays \union {NoVectors}, scale \in Scales :
        ApplyGlyphs([enabled |-> enabled, array |-> array, scale |-> scale])

GlyphsSpec == GlyphsInit /\ [][GlyphsNext]_glyphVars

-----------------------------------------------------------------------------
(* After any sequence of changes, the arrows of the scene are those of the *)
(* array that is chosen and no others: distinct points with a vector, as   *)
(* many as there are or as the limit allows, spread from the first such    *)
(* point to the last, and as many as the user is told of                   *)
(* (deterministicSampleIndices, samplePointVectors, apply).                *)
ArrowsOfArray ==
    LET wanted == valid[glyphSettings.array]
        count == Min({Cardinality(wanted), limit})
        shows == glyphSettings.enabled /\ glyphSettings.array # NoVectors /\ count > 0
    IN IF ~shows THEN glyphActors = {} /\ summary = 0
       ELSE \E glyph \in glyphActors :
            /\ glyphActors = {glyph}
            /\ glyph.array = glyphSettings.array /\ glyph.scale = glyphSettings.scale
            /\ Len(glyph.points) = count /\ summary = count
            /\ Range(glyph.points) \subseteq wanted
            /\ \A n \in 2..count : glyph.points[n - 1] < glyph.points[n]
            /\ glyph.points[1] = Min(wanted)
            /\ count > 1 => Last(glyph.points) = Max(wanted)
=============================================================================
