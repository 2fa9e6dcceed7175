-------------------------- MODULE ScenePreparation --------------------------
(***************************************************************************)
(* detail::ScenePreparer (src/scene/scene.cpp): the preflight that lets a  *)
(* command schedule its geometry, and the preparation itself, which walks  *)
(* the kinds of layers in a fixed order and may be stopped before each     *)
(* layer.  What comes out is the prepared scene every backend draws.       *)
(*                                                                         *)
(* Millimetres, depths and values are integers; the instances are chosen   *)
(* so that their quotients are exact.  A linear scale gives one unit a     *)
(* millimetre and a logarithmic one a doubling.  What a spec may have      *)
(* wrong in itself (a size, a width, a colour) is its "flaw"; what it may  *)
(* have wrong with others is modelled.  A layer's range of a shared stream *)
(* is the sequence it ranges over.                                         *)
(***************************************************************************)
EXTENDS Integers, Sequences, SequencesExt, FiniteSets, FiniteSetsExt, Functions

CONSTANTS
  Requests,     \* [document, presentation, lod, engine]: what may be prepared
  Missing,      \* null, or no finite number
  None,
  BinHeight,    \* target_pick_bin_height
  MaximumBins   \* maximum_pick_bins

SceneAssumption == BinHeight \in Nat \ {0} /\ MaximumBins \in Nat \ {0}

Kinds == <<"track", "scale", "curve", "pattern", "interval", "fill", "image",
           "custom", "marker", "symbol", "text", "header", "label">>

VARIABLES
  request,  \* the task's document, presentation, LOD query and text engine
  stopped,  \* its stop token
  kind,     \* index into Kinds of what is prepared now, 0 before preflight
  todo,     \* specs of that kind still to be walked
  ids,      \* identities taken so far
  scene,    \* the scene so far
  result    \* "running", "ready", "cancelled", "refused" or "failed"

vars == <<request, stopped, kind, todo, ids, scene, result>>

document == request.document
presentation == request.presentation

EmptyScene ==
  [tracks |-> <<>>, curves |-> <<>>, patterns |-> {}, intervals |-> <<>>, fills |-> <<>>,
   images |-> <<>>, customs |-> <<>>, markers |-> <<>>, symbols |-> <<>>, texts |-> <<>>,
   headers |-> <<>>, nonpositive |-> 0, labels |-> <<>>, suppressed |-> 0]

page == presentation.page  \* the display window and its height: top, bottom, height
specs(k) == presentation.specs[k]
WithId(s, id) == CHOOSE e \in ToSet(s) : e.id = id
IdsOf(s) == {e.id : e \in ToSet(s)}

-----------------------------------------------------------------------------
(* Depths.                                                                 *)

Quotient(a, b) == IF b < 0 THEN (-a) \div (-b) ELSE a \div b  \* \div wants b positive
Lower(a, b) == IF a < b THEN a ELSE b
Upper(a, b) == IF a < b THEN b ELSE a
clamp(x, low, high) == Lower(Upper(x, low), high)

\* On the line through two control points.
interpolate_segment(x, x0, x1, y0, y1) ==
  IF x1 = x0 THEN y0 ELSE y0 + Quotient((x - x0) * (y1 - y0), x1 - x0)

validate_depth_transform(points) ==
  \/ points = <<>>
  \/ /\ Len(points) # 1
     /\ \A i \in 2..Len(points) :
          /\ points[i].reference > points[i - 1].reference
          /\ points[i].display # points[i - 1].display
          /\ (points[i].display > points[i - 1].display)
               = (points[2].display > points[1].display)

\* The segment of the depth, the nearest one for a depth beyond the ends.
map_reference_to_display(points, depth) ==
  LET inner == {i \in 2..(Len(points) - 1) : depth <= points[i].reference}
      i == Min(inner \cup {Len(points)})
  IN  IF points = <<>> THEN depth
      ELSE interpolate_segment(depth, points[i - 1].reference, points[i].reference,
                               points[i - 1].display, points[i].display)

Between(x, a, b) == (x >= a /\ x <= b) \/ (x <= a /\ x >= b)
map_display_to_reference(points, depth) ==
  LET n == Len(points)
      holds == {i \in 2..n : Between(depth, points[i - 1].display, points[i].display)}
      beyond_top == IF points[n].display < points[1].display
                    THEN depth > points[1].display ELSE depth <= points[1].display
      i == IF holds # {} THEN Min(holds) ELSE IF beyond_top THEN 2 ELSE n
  IN  IF points = <<>> THEN depth
      ELSE interpolate_segment(depth, points[i - 1].display, points[i].display,
                               points[i - 1].reference, points[i].reference)

Display(depth) == map_reference_to_display(presentation.transform, depth)
depth_to_top(depth) ==
  Quotient((Display(depth) - page.top) * page.height, page.bottom - page.top)

\* The window whichever way its depths run.
WindowLow == Lower(page.top, page.bottom)
WindowHigh == Upper(page.top, page.bottom)
\* A plausible slip.
InWindowOfIncreasingDepths(depth) == Display(depth) >= page.top /\ Display(depth) <= page.bottom

InWindow(depth) == Display(depth) >= WindowLow /\ Display(depth) <= WindowHigh

\* A plausible slip.
PickedWithoutTransform(top) ==
  IF page.bottom <= page.top THEN page.top
  ELSE page.top + Quotient(top * (page.bottom - page.top), page.height)

\* What a pick on an image or a custom layer reports for a height on the page.
pick_top_to_reference(top) ==
  IF page.bottom <= page.top THEN page.top
  ELSE map_display_to_reference(presentation.transform,
         page.top + Quotient(top * (page.bottom - page.top), page.height))

-----------------------------------------------------------------------------
(* Preflight.                                                              *)

OnTrack(l) == l.track \in IdsOf(specs("track"))
SoundScale(s) ==
  ~s.flaw /\ OnTrack(s) /\ s.minimum < s.maximum /\ (s.logarithmic => s.minimum > 0)

SoundCurve(l) ==
  /\ ~l.flaw /\ OnTrack(l)
  /\ l.scale \in IdsOf(specs("scale")) /\ l.curve \in DOMAIN document.curves
  /\ LET scale == WithId(specs("scale"), l.scale)
         curve == document.curves[l.curve]
     IN  scale.track = l.track /\ curve.axis = page.axis /\ curve.unit = scale.unit

SoundInterval(l) == ~l.flaw /\ OnTrack(l)
KnownPattern(id) == id = None \/ id \in IdsOf(specs("pattern"))

\* A colour or a pattern, not both, between two curves of the track.
SoundFill(l) ==
  /\ OnTrack(l) /\ {l.upper, l.lower} \subseteq IdsOf(specs("curve")) /\ l.upper # l.lower
  /\ \A c \in {l.upper, l.lower} : WithId(specs("curve"), c).track = l.track
  /\ (l.color = None) # (l.pattern = None) /\ KnownPattern(l.pattern)

SoundImage(l) ==
  OnTrack(l) /\ l.source \in DOMAIN document.images /\ ~document.images[l.source].flaw
SoundCustom(l) ==
  /\ OnTrack(l) /\ l.source \in DOMAIN document.customs
  /\ ~document.customs[l.source].flaw /\ document.customs[l.source].primitives # <<>>
SoundMarker(l) == ~l.flaw /\ OnTrack(l)
SoundAnnotation(a) == a.anchor = "track" => a.track \in IdsOf(specs("track"))

\* A plausible slip.
IdentitiesOfTheDocument == <<document.id>> \o document.ids

\* Every identity of the document and the presentation, as often as it is taken.
identities ==
  <<document.id>> \o document.ids
    \o FlattenSeq([k \in 1..11 |-> [i \in DOMAIN specs(Kinds[k]) |-> specs(Kinds[k])[i].id]])

SoundPage ==
  /\ ~page.flaw /\ page.top # page.bottom /\ presentation.document = document.id
  /\ specs("track") # <<>>
  /\ \E k \in ToSet(Kinds) \ {"track", "scale", "pattern", "fill", "header", "label"} :
       specs(k) # <<>>

preflight ==
  /\ validate_depth_transform(presentation.transform)
  /\ presentation.transform # <<>> =>
       \A c \in DOMAIN document.curves : document.curves[c].axis.domain = page.axis.domain
  /\ SoundPage /\ IsInjective(identities)
  /\ \A s \in ToSet(specs("track") \o specs("pattern")) : ~s.flaw
  /\ \A s \in ToSet(specs("scale")) : SoundScale(s)
  /\ \A l \in ToSet(specs("curve")) : SoundCurve(l)
  /\ \A l \in ToSet(specs("interval")) : SoundInterval(l)
  /\ specs("interval") # <<>> => \A i \in ToSet(document.intervals) : KnownPattern(i.pattern)
  /\ \A l \in ToSet(specs("fill")) : SoundFill(l)
  /\ \A l \in ToSet(specs("image")) : SoundImage(l)
  /\ \A l \in ToSet(specs("custom")) : SoundCustom(l)
  /\ \A l \in ToSet(specs("marker") \o specs("symbol") \o specs("text")) : SoundMarker(l)
  /\ specs("text") # <<>> => \A a \in ToSet(document.annotations) : SoundAnnotation(a)

-----------------------------------------------------------------------------
(* Curves.                                                                 *)

log2(v) == Max({e \in 0..v : 2^e <= v})  \* to the whole
Horizontal(scale, v) ==
  LET offset == IF scale.logarithmic THEN log2(v) - log2(scale.minimum) ELSE v - scale.minimum
      width  == IF scale.logarithmic THEN log2(scale.maximum) - log2(scale.minimum)
                ELSE scale.maximum - scale.minimum
  IN  IF scale.reversed THEN width - offset ELSE offset

Nonpositive(scale, sample) == scale.logarithmic /\ sample.value <= 0
\* A sample that is neither null nor hidden for its quality.
Present(l, sample) == sample.value # Missing /\ sample.qc \notin l.hides
Drawable(l, scale, sample) == Present(l, sample) /\ ~Nonpositive(scale, sample)

\* The maximal stretches of a sequence whose elements pass a test.
Stretches(seq, Test(_)) ==
  LET Passes(i) == i \in DOMAIN seq /\ Test(seq[i])
      from == SetToSortSeq({i \in DOMAIN seq : Passes(i) /\ ~Passes(i - 1)}, <)
      End(i) == Max({j \in i..Len(seq) : \A k \in i..j : Passes(k)})
  IN  [n \in DOMAIN from |-> SubSeq(seq, from[n], End(from[n]))]

\* The samples the level of detail hands over, a group for each run without
\* nulls: its ends in the prefetched range and its extremes.
Selection(c, q) ==
  LET samples == document.curves[c].samples
      margin == (q.bottom - q.top) * q.prefetch
      InRange(i) == samples[i].depth >= q.top - margin /\ samples[i].depth <= q.bottom + margin
      runs == Stretches([i \in DOMAIN samples |-> i], LAMBDA i : samples[i].value # Missing)
      Kept(run) ==
        LET in == SelectSeq(run, InRange)
            Extreme(i) == \/ i = in[1] \/ i = in[Len(in)]
                          \/ \A j \in ToSet(in) : samples[j].value >= samples[i].value
                          \/ \A j \in ToSet(in) : samples[j].value <= samples[i].value
        IN  SelectSeq(in, Extreme)
  IN  SelectSeq([n \in DOMAIN runs |-> Kept(runs[n])], LAMBDA g : g # <<>>)

\* The samples walked for a layer, in groups no line connects.
Groups(l) ==
  IF ~l.visible THEN <<>>
  ELSE IF request.lod # None THEN Selection(l.curve, request.lod)
  ELSE <<[i \in DOMAIN document.curves[l.curve].samples |-> i]>>

append_sample(l, scale, i) ==
  LET sample == document.curves[l.curve].samples[i]
  IN  [sample |-> i, depth |-> sample.depth, value |-> sample.value,
       left |-> Horizontal(scale, sample.value), top |-> depth_to_top(sample.depth)]

\* A plausible slip.
SegmentsNeverClosed(l, scale) ==
  LET samples == document.curves[l.curve].samples
      groups == Groups(l)
      Line(group) == SelectSeq(group, LAMBDA i : Drawable(l, scale, samples[i]))
      lines == SelectSeq([g \in DOMAIN groups |-> Line(groups[g])], LAMBDA g : g # <<>>)
  IN  [n \in DOMAIN lines |-> [k \in DOMAIN lines[n] |-> append_sample(l, scale, lines[n][k])]]

Segments(l, scale) ==
  LET samples == document.curves[l.curve].samples
      Lines(group) == Stretches(group, LAMBDA i : Drawable(l, scale, samples[i]))
      groups == Groups(l)
      lines == FlattenSeq([g \in DOMAIN groups |-> Lines(groups[g])])
  IN  [n \in DOMAIN lines |-> [k \in DOMAIN lines[n] |-> append_sample(l, scale, lines[n][k])]]

NonpositiveValues(l, scale) ==
  LET samples == document.curves[l.curve].samples
  IN  Cardinality({i \in ToSet(FlattenSeq(Groups(l))) :
                     Present(l, samples[i]) /\ Nonpositive(scale, samples[i])})

(* The pick index: what lies on the page, by the bins of heights it crosses. *)
bin_count == Min({MaximumBins, (page.height + BinHeight - 1) \div BinHeight})
bin_for(top) ==
  IF top <= 0 THEN 0
  ELSE IF top >= page.height THEN bin_count - 1
  ELSE Min({(top * bin_count) \div page.height, bin_count - 1})

Primitives(segment) ==
  IF Len(segment) = 1 THEN {<<segment[1], segment[1]>>}
  ELSE {<<segment[i], segment[i + 1]>> : i \in 1..(Len(segment) - 1)}
TopOf(primitive) == Lower(primitive[1].top, primitive[2].top)
BottomOf(primitive) == Upper(primitive[1].top, primitive[2].top)

\* A plausible slip.
PickIndexOfTops(segments) ==
  LET indexed == {p \in UNION {Primitives(s) : s \in ToSet(segments)} :
                    BottomOf(p) >= 0 /\ TopOf(p) <= page.height}
  IN  [bin \in 0..(bin_count - 1) |-> {p \in indexed : bin = bin_for(TopOf(p))}]

PickIndex(segments) ==
  LET indexed == {p \in UNION {Primitives(s) : s \in ToSet(segments)} :
                    BottomOf(p) >= 0 /\ TopOf(p) <= page.height}
  IN  [bin \in 0..(bin_count - 1) |->
         {p \in indexed : bin \in bin_for(TopOf(p))..bin_for(BottomOf(p))}]

PreparedCurve(l) ==
  LET segments == Segments(l, WithId(specs("scale"), l.scale))
  IN  [id |-> l.id, track |-> l.track, visible |-> l.visible, curve |-> l.curve,
       segments |-> segments, bins |-> PickIndex(segments)]

\* What pick_curve looks at around a height.
PickCandidates(layer, top, tolerance) ==
  UNION {layer.bins[b] : b \in bin_for(top - tolerance)..bin_for(top + tolerance)}

-----------------------------------------------------------------------------
(* The other layers.                                                       *)

PreparedLayer(kind_of, id) == WithId(scene[kind_of], id)

\* A curve's points in the order of their depths, each with its run.
collect_layer_samples(layer) ==
  SortSeq(FlattenSeq([r \in DOMAIN layer.segments |->
            [k \in DOMAIN layer.segments[r] |-> [run |-> r] @@ layer.segments[r][k]]]),
          LAMBDA p, q : p.depth < q.depth)

\* Where the lower curve is at a depth, or None beside it and in its gaps.
interpolate_left_at_depth(lower, depth) ==
  LET after == {i \in 2..Len(lower) : lower[i].depth >= depth}
      next == Min(after)
      p == lower[next - 1]
      q == lower[next]
  IN  IF Len(lower) < 2 THEN None
      ELSE IF after = {} \/ depth < lower[1].depth \/ p.run # q.run THEN None
      ELSE interpolate_segment(depth, p.depth, q.depth, p.left, q.left)

\* A plausible slip.
BuiltWithoutCrossings(upper, lower) ==
  LET rows == [i \in DOMAIN upper |->
                 [row |-> i, depth |-> upper[i].depth, top |-> upper[i].top,
                  right |-> upper[i].left,
                  left |-> interpolate_left_at_depth(lower, upper[i].depth)]]
      regions == SelectSeq(Stretches(rows, LAMBDA r : r.left # None), LAMBDA r : Len(r) >= 2)
  IN  [n \in DOMAIN regions |-> [rows |-> regions[n], top |-> regions[n][1].depth,
                                 bottom |-> regions[n][Len(regions[n])].depth]]

\* Rows open with the upper curve strictly to the right, go on while it is not
\* to the left, and make a region when there are two of them.
build_crossover_regions(upper, lower) ==
  LET rows == [i \in DOMAIN upper |->
                 [row |-> i, depth |-> upper[i].depth, top |-> upper[i].top,
                  right |-> upper[i].left,
                  left |-> interpolate_left_at_depth(lower, upper[i].depth)]]
      Right(r) == r.left # None /\ r.right > r.left
      Touches(r) == r.left # None /\ r.right >= r.left
      stretches == Stretches(rows, Touches)
      Opened(stretch) ==
        LET open == {k \in DOMAIN stretch : Right(stretch[k])}
        IN  IF open = {} THEN <<>> ELSE SubSeq(stretch, Min(open), Len(stretch))
      regions == SelectSeq([n \in DOMAIN stretches |-> Opened(stretches[n])],
                           LAMBDA r : Len(r) >= 2)
      \* A crossing closes the region at the row beyond it.
      Bottom(region) ==
        LET after == region[Len(region)].row + 1
        IN  IF after \in DOMAIN rows /\ rows[after].left # None THEN rows[after].depth
            ELSE region[Len(region)].depth
  IN  [n \in DOMAIN regions |-> [rows |-> regions[n], top |-> regions[n][1].depth,
                                 bottom |-> Bottom(regions[n])]]

PreparedFill(l) ==
  LET upper == PreparedLayer("curves", l.upper)
      lower == PreparedLayer("curves", l.lower)
      shown == l.visible /\ upper.visible /\ lower.visible
  IN  [id |-> l.id, track |-> l.track, upper |-> l.upper, lower |-> l.lower,
       regions |-> IF shown THEN build_crossover_regions(collect_layer_samples(upper),
                                                         collect_layer_samples(lower))
                   ELSE <<>>]

PreparedInterval(l) ==
  LET Meets(i) == /\ l.semantic \in {None, i.semantic}
                  /\ Lower(Display(i.top), Display(i.bottom)) < WindowHigh
                  /\ Upper(Display(i.top), Display(i.bottom)) > WindowLow
      Placed(i) == [id |-> i.id, pattern |-> i.pattern,
                    top |-> clamp(depth_to_top(i.top), 0, page.height),
                    bottom |-> clamp(depth_to_top(i.bottom), 0, page.height)]
      met == SelectSeq(document.intervals, Meets)
  IN  [id |-> l.id, track |-> l.track,
       intervals |-> SelectSeq([n \in DOMAIN met |-> Placed(met[n])],
                               LAMBDA r : r.bottom > r.top)]

\* The pyramid of an image: edges halve, upwards, until one tile holds them;
\* coarser levels are left out when their tiles exceed the budget.
edge_at_level(edge, level) == (edge + 2^level - 1) \div 2^level
level_count_for(image) == Min({n \in 1..10 : edge_at_level(image.edge, n - 1) <= image.tile})
tiles_along(image, level) == (edge_at_level(image.edge, level) + image.tile - 1) \div image.tile
level_count(image) ==
  LET Tiles(n) == FoldFunction(+, 0, [k \in 1..n |-> tiles_along(image, k - 1)])
  IN  Max({n \in 1..level_count_for(image) : n = 1 \/ Tiles(n) <= image.budget})

\* A plausible slip.
ImageTilesRoundedDown(image, q) ==
  LET span == image.bottom - image.top
      margin == (q.bottom - q.top) * q.prefetch
      top == Upper(q.top - margin, image.top)
      bottom == Lower(q.bottom + margin, image.bottom)
      Dense(k) == (q.bottom - q.top) * image.edge <= image.tile * span * q.pixels * 2^k
      level == Min({k \in 0..(level_count(image) - 1) : k = level_count(image) - 1 \/ Dense(k)})
      rows == tiles_along(image, level)
      from == ((top - image.top) * rows) \div span
      to == ((bottom - image.top) * rows) \div span
  IN  IF q.bottom <= q.top \/ bottom <= top THEN <<>>
      ELSE [n \in 1..(to - from) |->
              [level |-> level, row |-> from + n - 1,
               top |-> image.top + ((from + n - 1) * span) \div rows,
               bottom |-> image.top + ((from + n) * span) \div rows]]

\* The rows of tiles that meet the prefetched range, at the level whose tiles
\* still cover a pixel.  Rows share the image's depths evenly.
ImageTiles(image, q) ==
  LET span == image.bottom - image.top
      margin == (q.bottom - q.top) * q.prefetch
      top == Upper(q.top - margin, image.top)
      bottom == Lower(q.bottom + margin, image.bottom)
      Dense(k) == (q.bottom - q.top) * image.edge <= image.tile * span * q.pixels * 2^k
      level == Min({k \in 0..(level_count(image) - 1) : k = level_count(image) - 1 \/ Dense(k)})
      rows == tiles_along(image, level)
      from == ((top - image.top) * rows) \div span
      to == Lower(rows, ((bottom - image.top) * rows + span - 1) \div span)
  IN  IF q.bottom <= q.top \/ bottom <= top THEN <<>>
      ELSE [n \in 1..(to - from) |->
              [level |-> level, row |-> from + n - 1,
               top |-> image.top + ((from + n - 1) * span) \div rows,
               bottom |-> image.top + ((from + n) * span) \div rows]]

PreparedImage(l) ==
  LET Clipped(tile) == [level |-> tile.level, row |-> tile.row,
                        from |-> clamp(tile.top, WindowLow, WindowHigh),
                        to |-> clamp(tile.bottom, WindowLow, WindowHigh)]
      Rect(tile) == [level |-> tile.level, row |-> tile.row, from |-> tile.from, to |-> tile.to,
                     top |-> clamp(depth_to_top(tile.from), 0, page.height),
                     bottom |-> clamp(depth_to_top(tile.to), 0, page.height)]
      tiles == IF ~l.visible \/ request.lod = None THEN <<>>
               ELSE ImageTiles(document.images[l.source], request.lod)
      clipped == SelectSeq([n \in DOMAIN tiles |-> Clipped(tiles[n])], LAMBDA t : t.to > t.from)
  IN  [id |-> l.id, track |-> l.track, source |-> l.source,
       tiles |-> SelectSeq([n \in DOMAIN clipped |-> Rect(clipped[n])],
                           LAMBDA r : r.bottom > r.top)]

\* What a layer's own clip, a band of heights, leaves of a primitive: the part of
\* a polygon, a symbol by its centre, a polyline from its first point inside.
ClippedPrimitive(clip, e) ==
  LET Inside(h) == clip = None \/ (h >= clip[1] /\ h <= clip[2])
      inside == {k \in DOMAIN e.heights : Inside(e.heights[k])}
      Cut(h) == IF clip = None THEN h ELSE clamp(h, clip[1], clip[2])
  IN  CASE e.form = "polygon"  -> [e EXCEPT !.heights = <<Cut(@[1]), Cut(@[2])>>]
        [] e.form = "symbol"   -> [e EXCEPT !.heights = IF inside = {} THEN <<>> ELSE @]
        [] e.form = "polyline" -> [e EXCEPT !.heights = IF inside = {} THEN <<>>
                                                        ELSE SubSeq(@, Min(inside), Len(@))]

PreparedCustom(l) ==
  LET source == document.customs[l.source]
      parts == [n \in DOMAIN source.primitives |->
                  ClippedPrimitive(source.clip, source.primitives[n])]
      Left(e) == CASE e.form = "polygon"  -> e.heights[1] < e.heights[2]
                   [] e.form = "symbol"   -> e.heights # <<>>
                   [] e.form = "polyline" -> Len(e.heights) >= 2
  IN  [id |-> l.id, track |-> l.track,
       primitives |-> IF l.visible THEN SelectSeq(parts, Left) ELSE <<>>]

Placed(e) == [id |-> e.id, top |-> depth_to_top(e.depth)]
PreparedMarker(l) ==
  LET within == SelectSeq(document.markers, LAMBDA m : InWindow(m.depth))
  IN  [id |-> l.id, track |-> l.track, markers |-> [n \in DOMAIN within |-> Placed(within[n])]]
PreparedSymbol(l) ==
  LET within == SelectSeq(document.symbols, LAMBDA m : InWindow(m.depth))
  IN  [id |-> l.id, track |-> l.track, symbols |-> [n \in DOMAIN within |-> Placed(within[n])]]

\* Annotations go with a depth of the layer's track, with a track or a point.
PreparedText(l) ==
  LET shown == SelectSeq(document.annotations,
                         LAMBDA a : a.anchor = "depth" => InWindow(a.depth))
      Anchor(a) == CASE a.anchor = "depth" -> depth_to_top(a.depth)
                     [] a.anchor = "track" -> (a.part * page.height) \div 100
                     [] a.anchor = "point" -> a.top
  IN  [id |-> l.id, track |-> l.track,
       runs |-> [n \in DOMAIN shown |-> [id |-> shown[n].id, top |-> Anchor(shown[n])]]]

\* The tile picked at a height: the last one there of the topmost layer.
pick_image(top) ==
  LET Hits(layer) == SelectSeq(layer.tiles, LAMBDA t : t.top <= top /\ top <= t.bottom)
      hits == FlattenSeq([n \in DOMAIN scene.images |-> Hits(scene.images[n])])
  IN  IF hits = <<>> THEN None
      ELSE [tile |-> hits[Len(hits)], depth |-> pick_top_to_reference(top)]

-----------------------------------------------------------------------------
(* The preparation.                                                        *)

\* Tracks and layers are walked by their z-order, the rest as it was added.
order_layers_by_z(k) ==
  SortSeq(specs(k), LAMBDA l, r : l.z < r.z \/ (l.z = r.z /\ l.id < r.id))

Todo(k) ==
  CASE k \in {"scale", "pattern"} -> specs(k)
    [] k = "header" -> specs("track")
    [] k = "label"  -> order_layers_by_z("interval") \o order_layers_by_z("marker")
    [] OTHER        -> order_layers_by_z(k)

HiddenTracks == {t.id : t \in {t \in ToSet(specs("track")) : ~t.visible}}

Init ==
  /\ request \in Requests
  /\ stopped = FALSE /\ kind = 0 /\ todo = <<>> /\ ids = {}
  /\ scene = EmptyScene /\ result = "running"

\* The session supersedes the task.
RequestStop ==
  /\ ~stopped /\ result = "running"
  /\ stopped' = TRUE
  /\ UNCHANGED <<request, kind, todo, ids, scene, result>>

\* The token is looked at before every layer.
Cancelled ==
  /\ stopped /\ result = "running"
  /\ result' = "cancelled"
  /\ UNCHANGED <<request, stopped, kind, todo, ids, scene>>

Ends(outcome) ==
  /\ result' = outcome
  /\ UNCHANGED <<request, stopped, kind, todo, ids, scene>>

Preflight ==
  /\ kind = 0 /\ result = "running" /\ ~stopped
  /\ \/ ~preflight /\ Ends("invalid")
     \/ /\ preflight
        /\ kind' = 1 /\ todo' = Todo("track") /\ ids' = {document.id} \cup DOMAIN document.curves
        /\ UNCHANGED <<request, stopped, scene, result>>

NextKind ==
  /\ kind \in DOMAIN Kinds /\ todo = <<>> /\ result = "running"
  /\ IF kind = Len(Kinds) THEN result' = "ready" /\ UNCHANGED <<kind, todo>>
     ELSE kind' = kind + 1 /\ todo' = Todo(Kinds[kind + 1]) /\ UNCHANGED result
  /\ UNCHANGED <<request, stopped, ids, scene>>

Walking(k) ==
  kind # 0 /\ Kinds[kind] = k /\ todo # <<>> /\ result = "running" /\ ~stopped
Walked == todo' = Tail(todo) /\ UNCHANGED <<request, stopped, kind, result>>

\* One spec: left out, refused, or prepared.
Walk(k, Skipped(_), Sound(_), Prepared(_)) ==
  /\ Walking(k)
  /\ LET l == Head(todo)
     IN  \/ Skipped(l) /\ Walked /\ UNCHANGED <<ids, scene>>
         \/ ~Skipped(l) /\ (l.id \in ids \/ ~Sound(l)) /\ Ends("refused")
         \/ ~Skipped(l) /\ l.id \notin ids /\ Sound(l) /\ Walked
            /\ ids' = ids \cup {l.id}
            /\ scene' = Prepared(l)

Never(l) == FALSE
OnHiddenTrack(l) == l.track \in HiddenTracks
Unflawed(l) == ~l.flaw

PrepareTrack ==
  Walk("track", Never, Unflawed,
       LAMBDA t : [scene EXCEPT !.tracks = Append(@,
         [id |-> t.id, width |-> t.width,
          left |-> IF @ = <<>> THEN 0 ELSE @[Len(@)].left + @[Len(@)].width])])
PrepareScale == Walk("scale", Never, SoundScale, LAMBDA s : scene)
PrepareCurve ==
  Walk("curve", OnHiddenTrack, SoundCurve,
       LAMBDA l : [scene EXCEPT
         !.curves = Append(@, PreparedCurve(l)),
         !.nonpositive = @ + NonpositiveValues(l, WithId(specs("scale"), l.scale))])
PreparePattern ==
  Walk("pattern", Never, Unflawed, LAMBDA p : [scene EXCEPT !.patterns = @ \cup {p.id}])
PrepareInterval ==
  Walk("interval", OnHiddenTrack,
       LAMBDA l : SoundInterval(l) /\ \A i \in ToSet(document.intervals) :
                    l.semantic \in {None, i.semantic} => i.pattern \in scene.patterns \cup {None},
       LAMBDA l : [scene EXCEPT !.intervals = Append(@, PreparedInterval(l))])
PrepareFill ==
  Walk("fill", OnHiddenTrack,
       LAMBDA l : {l.upper, l.lower} \subseteq IdsOf(scene.curves) /\ SoundFill(l),
       LAMBDA l : [scene EXCEPT !.fills = Append(@, PreparedFill(l))])
PrepareImage ==
  Walk("image", OnHiddenTrack, SoundImage,
       LAMBDA l : [scene EXCEPT !.images = Append(@, PreparedImage(l))])
\* Dash patterns are looked at here only.
PrepareCustom ==
  Walk("custom", OnHiddenTrack,
       LAMBDA l : SoundCustom(l) /\ ~document.customs[l.source].dash_flaw,
       LAMBDA l : [scene EXCEPT !.customs = Append(@, PreparedCustom(l))])
\* So are the sizes of the symbols drawn with markers.
PrepareMarker ==
  Walk("marker", OnHiddenTrack, LAMBDA l : SoundMarker(l) /\ ~(l.draw_symbols /\ l.symbol_flaw),
       LAMBDA l : [scene EXCEPT !.markers = Append(@, PreparedMarker(l))])
PrepareSymbol ==
  Walk("symbol", OnHiddenTrack, SoundMarker,
       LAMBDA l : [scene EXCEPT !.symbols = Append(@, PreparedSymbol(l))])

(* What is text needs an engine: without one it is counted, and one that   *)
(* fails fails the scene.                                                  *)
Shaped(runs, with) ==
  \/ request.engine = "none" /\ Walked /\ UNCHANGED ids
     /\ scene' = [with EXCEPT !.suppressed = @ + runs]
  \/ request.engine = "shapes" /\ Walked /\ UNCHANGED ids /\ scene' = with
  \/ request.engine = "fails" /\ runs > 0 /\ Ends("failed")
  \/ request.engine = "fails" /\ runs = 0 /\ Walked /\ UNCHANGED ids /\ scene' = with

PrepareText ==
  /\ Walking("text")
  /\ LET l == Head(todo)
         runs == PreparedText(l).runs
     IN  \/ (l.id \in ids \/ ~OnTrack(l)) /\ Ends("refused")
         \/ l.id \notin ids /\ OnHiddenTrack(l) /\ Walked /\ UNCHANGED <<ids, scene>>
         \/ l.id \notin ids /\ ~OnHiddenTrack(l) /\ Shaped(Len(runs), [scene EXCEPT
              !.texts = Append(@, [id |-> l.id, track |-> l.track,
                                   runs |-> IF request.engine = "none" THEN <<>> ELSE runs])])

\* A line for every visible curve of the track.
PrepareHeader ==
  /\ Walking("header")
  /\ LET t == Head(todo)
         layers == SelectSeq(order_layers_by_z("curve"), LAMBDA l : l.track = t.id /\ l.visible)
         lines == IF t.header /\ t.visible THEN layers ELSE <<>>
     IN  Shaped(Len(lines), [scene EXCEPT
           !.headers = @ \o [n \in DOMAIN lines |-> [track |-> t.id, layer |-> lines[n].id]]])

\* The labels of the intervals and markers that were drawn.
PrepareLabels ==
  /\ Walking("label")
  /\ LET l == Head(todo)
         Drawn(layers, of) == IF l.id \in IdsOf(layers) THEN IdsOf(WithId(layers, l.id)[of]) ELSE {}
         labelled == {e.id : e \in {e \in ToSet(document.intervals) \cup ToSet(document.markers) :
                                      e.label}}
         due == IF ~l.labels THEN {}
                ELSE labelled \cap
                       (IF l.id \in IdsOf(specs("interval")) THEN Drawn(scene.intervals, "intervals")
                        ELSE Drawn(scene.markers, "markers"))
     IN  Shaped(Cardinality(due), [scene EXCEPT !.labels = @ \o SetToSeq(due)])

Next ==
  \/ RequestStop \/ Cancelled \/ Preflight \/ NextKind
  \/ PrepareTrack \/ PrepareScale \/ PrepareCurve \/ PreparePattern \/ PrepareInterval
  \/ PrepareFill \/ PrepareImage \/ PrepareCustom \/ PrepareMarker \/ PrepareSymbol
  \/ PrepareText \/ PrepareHeader \/ PrepareLabels

Spec == Init /\ [][Next]_vars

-----------------------------------------------------------------------------
(* Properties.                                                             *)

Ready == result = "ready"

\* A line never joins two points across a sample that is not there
\* (close_segment, scene.cpp 2198-2239): samples are walked one by one without
\* the level of detail, and run by run with it.
MissingBreaksLines ==
  Ready => \A layer \in ToSet(scene.curves), r \in 1..10 : r \in DOMAIN layer.segments =>
    LET segment == layer.segments[r]
    IN  \A k \in 1..(Len(segment) - 1) :
          LET between == (segment[k].sample + 1)..(segment[k + 1].sample - 1)
          IN  /\ segment[k].sample < segment[k + 1].sample
              /\ request.lod = None => between = {}
              /\ \A i \in between : document.curves[layer.curve].samples[i].value # Missing

\* Every fill lies between its curves with the upper one to the right, over all
\* the samples the upper curve has there, and two neighbouring samples strictly
\* to the right are filled (build_crossover_regions, scene.cpp 849-950).
FillsAreCrossovers ==
  Ready => \A fill \in ToSet(scene.fills) :
    LET upper == collect_layer_samples(WithId(scene.curves, fill.upper))
        lower == collect_layer_samples(WithId(scene.curves, fill.lower))
        Ahead(p) == LET at == interpolate_left_at_depth(lower, p.depth)
                    IN  IF at = None THEN "off" ELSE IF p.left > at THEN "right"
                        ELSE IF p.left = at THEN "on" ELSE "left"
        Depths(region) == {row.depth : row \in ToSet(region.rows)}
    IN  fill.regions # <<>> =>
        /\ \A region \in ToSet(fill.regions) : \A p \in ToSet(upper) :
             p.depth >= region.top /\ p.depth <= Max(Depths(region)) =>
               p.depth \in Depths(region) /\ Ahead(p) \in {"right", "on"}
        /\ \A k \in 1..(Len(upper) - 1) :
             Ahead(upper[k]) = "right" /\ Ahead(upper[k + 1]) = "right" =>
               \E region \in ToSet(fill.regions) :
                 {upper[k].depth, upper[k + 1].depth} \subseteq Depths(region)

\* A marker, a symbol or an interval is in the scene if and only if some of it
\* is on the page: the culling compares display depths with a window that may
\* run either way, the placement computes heights (scene.cpp 2563-2586,
\* 3260-3270, 3323-3336).  But an interval whose bottom comes out above its top,
\* as in a window that runs against the transform, is dropped wherever it lies.
DrawnIffOnPage ==
  LET OnPage(top) == top >= 0 /\ top <= page.height
      Downwards(i) == depth_to_top(i.bottom) > depth_to_top(i.top)
      Meets(i) == /\ Lower(depth_to_top(i.top), depth_to_top(i.bottom)) < page.height
                  /\ Upper(depth_to_top(i.top), depth_to_top(i.bottom)) > 0
  IN  Ready =>
        /\ \A layer \in ToSet(scene.markers) :
             IdsOf(layer.markers) = {m.id : m \in {m \in ToSet(document.markers) :
                                                     OnPage(depth_to_top(m.depth))}}
        /\ \A layer \in ToSet(scene.symbols) :
             IdsOf(layer.symbols) = {m.id : m \in {m \in ToSet(document.symbols) :
                                                     OnPage(depth_to_top(m.depth))}}
        /\ \A layer \in ToSet(scene.intervals) :
             LET spec == WithId(specs("interval"), layer.id)
             IN  IdsOf(layer.intervals) =
                   {i.id : i \in {i \in ToSet(document.intervals) :
                                    /\ spec.semantic \in {None, i.semantic}
                                    /\ Downwards(i)
                                    /\ Meets(i)}}

\* What the view asked for is drawn: lines reach as far as the samples of the
\* view do, and tiles cover the part of the image in it (the LOD and the pyramid
\* are asked for the view's display depths, session.cpp 2098 and 5164, and
\* compare them with reference depths: hence no transform).  A window of
\* decreasing depths has its tiles upside down, and they are dropped.
WindowIsDrawn ==
  Ready /\ presentation.transform = <<>> =>
    LET InView(d) == InWindow(d) /\ (request.lod # None => d >= request.lod.top /\ d <= request.lod.bottom)
    IN  /\ \A layer \in {l \in ToSet(scene.curves) : l.visible} :
             LET samples == document.curves[layer.curve].samples
                 spec == WithId(specs("curve"), layer.id)
                 plain == spec.hides = {} /\ ~WithId(specs("scale"), spec.scale).logarithmic
                 Joined(i, j) == \A k \in i..j : samples[k].value # Missing
             IN  plain => \A i, j \in DOMAIN samples :
                   i <= j /\ Joined(i, j) /\ InView(samples[i].depth) /\ InView(samples[j].depth) =>
                     \E s \in ToSet(layer.segments) :
                       s[1].sample <= i /\ s[Len(s)].sample >= j
        /\ request.lod # None => \A layer \in ToSet(scene.images) :
             LET image == document.images[layer.source]
                 Covered(d) == \E t \in ToSet(layer.tiles) : t.from <= d /\ t.to >= d + 1
             IN  IF page.top > page.bottom THEN layer.tiles = <<>>
                 ELSE WithId(specs("image"), layer.id).visible =>
                        \A d \in image.top..(image.bottom - 1) :
                          InView(d) /\ InView(d + 1) => Covered(d)

\* A pick reaches every piece of a line that is within its tolerance of the page
\* (bin_for twice, scene.cpp 1357-1366 and 2406-2416): the index drops what is
\* off the page and looks through the bins the tolerance touches.
PickSeesEveryPrimitive ==
  Ready => \A layer \in ToSet(scene.curves) :
    \A p \in UNION {Primitives(s) : s \in ToSet(layer.segments)} :
      \A top \in 0..page.height, tolerance \in 0..1 :
        /\ BottomOf(p) >= 0 /\ TopOf(p) <= page.height
        /\ top - tolerance <= BottomOf(p) /\ top + tolerance >= TopOf(p)
        => p \in PickCandidates(layer, top, tolerance)

\* A pick on an image reports a depth of the tile it reports, for a window of
\* increasing depths (pick_top_to_reference, scene.cpp 1488-1500, undoes
\* depth_to_top over the part of the tile that is on the page).
PickReportsItsTile ==
  Ready /\ page.top < page.bottom =>
    \A top \in 0..page.height :
      LET pick == pick_image(top)
      IN  pick # None => pick.depth >= pick.tile.from /\ pick.depth <= pick.tile.to

\* What preflight let through ("Validates every static document/presentation
\* relationship ScenePreparer depends on", prepare.hpp:20-25) the preparation
\* refuses for two reasons only, long after the command was answered: a dash
\* pattern and the size of the symbols drawn with markers, which preflight does
\* not look at (scene.cpp 2952-2972, 3246-3252).
PreflightDecides ==
  result = "refused" =>
    LET refused == Head(todo)
    IN  \/ Kinds[kind] = "custom" /\ document.customs[refused.source].dash_flaw
        \/ Kinds[kind] = "marker" /\ refused.draw_symbols /\ refused.symbol_flaw

\* Fills break where a curve has no sample (scene.cpp 752-755 "breaks wherever
\* either curve is missing a sample"): two rows of a region are neighbours on
\* one line of the upper curve and lie on one line of the lower.
FillsBreakAtGaps ==
  Ready => \A fill \in ToSet(scene.fills) : \A region \in ToSet(fill.regions) :
    \A k \in 1..(Len(region.rows) - 1) :
      LET above == region.rows[k].depth
          below == region.rows[k + 1].depth
          Covers(s) == s[1].depth <= above /\ s[Len(s)].depth >= below
      IN  \A id \in {fill.upper, fill.lower} :
            \E s \in ToSet(WithId(scene.curves, id).segments) : Covers(s)

=============================================================================
