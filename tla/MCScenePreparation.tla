------------------------- MODULE MCScenePreparation -------------------------
(***************************************************************************)
(* Two tracks with every kind of layer; the documents, windows, views and  *)
(* engines vary, and some requests are wrong in one place.                 *)
(***************************************************************************)
EXTENDS Integers, Sequences, TLC

CONSTANTS Missing, None
VARIABLES request, stopped, kind, todo, ids, scene, result

MD == [domain |-> "md", unit |-> "m"]
TVD == [domain |-> "tvd", unit |-> "m"]

Sampled(values, step) ==
  [axis |-> MD, unit |-> "api",
   samples |-> [i \in DOMAIN values |->
     [depth |-> (i - 1) * step, value |-> values[i], qc |-> IF values[i] = 3 THEN "suspect" ELSE "good"]]]

Document(a, b) ==
  [id |-> 1, ids |-> <<2, 3, 4, 5, 11, 12, 13, 14, 15>>,
   curves |-> (2 :> a) @@ (3 :> b),
   images |-> 4 :> [top |-> 0, bottom |-> 8, edge |-> 8, tile |-> 2, budget |-> 6, flaw |-> FALSE],
   customs |-> 5 :> [flaw |-> FALSE, dash_flaw |-> FALSE, clip |-> <<4, 10>>,
                     primitives |-> <<[form |-> "polyline", heights |-> <<2, 6, 12>>],
                                      [form |-> "polygon", heights |-> <<0, 6>>],
                                      [form |-> "symbol", heights |-> <<12>>]>>],
   intervals |-> <<[id |-> 11, top |-> 0, bottom |-> 2, semantic |-> "shale", pattern |-> 40, label |-> TRUE],
                   [id |-> 12, top |-> 2, bottom |-> 8, semantic |-> "sand", pattern |-> None, label |-> FALSE]>>,
   markers |-> <<[id |-> 13, depth |-> 2, label |-> TRUE], [id |-> 14, depth |-> 8, label |-> FALSE]>>,
   symbols |-> <<[id |-> 15, depth |-> 6]>>,
   annotations |-> <<[id |-> 16, anchor |-> "depth", depth |-> 2],
                     [id |-> 17, anchor |-> "track", track |-> 21, part |-> 50],
                     [id |-> 18, anchor |-> "point", top |-> 3]>>]

Layer(id, track, z) == [id |-> id, track |-> track, z |-> z, visible |-> TRUE, flaw |-> FALSE]
Scale(id, track, minimum, logarithmic) ==
  [id |-> id, track |-> track, minimum |-> minimum, maximum |-> 8, logarithmic |-> logarithmic,
   reversed |-> logarithmic, unit |-> "api", flaw |-> FALSE]
CurveOn(id, track, scale, curve, hides) ==
  [scale |-> scale, curve |-> curve, hides |-> hides] @@ Layer(id, track, 0)

Specs ==
  [track |-> <<[header |-> TRUE, width |-> 8] @@ Layer(21, 0, 1), [header |-> FALSE, width |-> 3] @@ Layer(22, 0, 0)>>,
   scale |-> <<Scale(31, 21, 0, FALSE), Scale(32, 22, 1, TRUE)>>,
   curve |-> <<CurveOn(51, 21, 31, 2, {}), CurveOn(52, 21, 31, 3, {}), CurveOn(53, 22, 32, 2, {"suspect"})>>,
   pattern |-> <<[id |-> 40, flaw |-> FALSE]>>,
   interval |-> <<[semantic |-> None, labels |-> TRUE] @@ Layer(61, 21, 0),
                  [semantic |-> "sand", labels |-> FALSE] @@ Layer(62, 22, 0)>>,
   fill |-> <<[upper |-> 51, lower |-> 52, color |-> "red", pattern |-> None] @@ Layer(63, 21, 0)>>,
   image |-> <<[source |-> 4] @@ Layer(64, 21, 0)>>,
   custom |-> <<[source |-> 5] @@ Layer(65, 22, 0)>>,
   marker |-> <<[labels |-> TRUE, draw_symbols |-> TRUE, symbol_flaw |-> FALSE] @@ Layer(66, 21, 0)>>,
   symbol |-> <<Layer(67, 22, 0)>>,
   text |-> <<Layer(68, 21, 0)>>]

Page(top, bottom, height) == [top |-> top, bottom |-> bottom, height |-> height, axis |-> MD, flaw |-> FALSE]
Presentation(p, points) == [document |-> 1, page |-> p, transform |-> points, specs |-> Specs]
Point(reference, display) == [reference |-> reference, display |-> display]

Plain == Presentation(Page(0, 8, 16), <<>>)
\* A part of the well, a window of subsea depths, one that is stretched, one upside down.
Windows ==
  {Plain, Presentation(Page(2, 6, 16), <<>>), Presentation(Page(8, 0, 16), <<>>),
   Presentation(Page(20, 12, 16), <<Point(0, 20), Point(8, 12)>>),
   Presentation(Page(12, 20, 16), <<Point(0, 20), Point(8, 12)>>),
   Presentation(Page(0, 12, 24), <<Point(0, 0), Point(4, 2), Point(8, 12)>>)}
\* No view, an export of everything, a close view, a view between tiles.
View(top, bottom, pixels, prefetch) ==
  [top |-> top, bottom |-> bottom, pixels |-> pixels, prefetch |-> prefetch]
Views == {None, View(0, 8, 8, 0), View(4, 6, 1, 1), View(1, 5, 8, 0)}

Uppers == {<<4, 4, 6, 6, 4>>, <<1, 3, 2, 8, Missing>>, <<6, Missing, 6, 1, 5>>, <<2, 2, 0, 4, 4>>}
Lowers == {<<2, 2, 2, 2, 2>>, <<0, 4, 4, 4, Missing>>, <<1, 1, Missing, 2, 2>>}
Wide == {Sampled(<<2, Missing, 2, 2, 2, 2, 2, 2, 2>>, 1), Sampled(<<0, 4, 0>>, 4)}

Request(d, p, view, engine) == [document |-> d, presentation |-> p, lod |-> view, engine |-> engine]
Common == Document(Sampled(<<4, 4, 6, 6, 4>>, 2), Sampled(<<2, 2, 2, 2, 2>>, 2))

\* One thing wrong.
Wrong(k, n, field, value) == [Plain EXCEPT !.specs[k][n][field] = value]
Flawed ==
  {Wrong("track", 1, "flaw", TRUE), Wrong("scale", 2, "minimum", 0), Wrong("curve", 1, "scale", 32),
   Wrong("symbol", 1, "id", 51), Wrong("interval", 1, "track", 29), Wrong("fill", 1, "lower", 51),
   Wrong("fill", 1, "pattern", 40), Wrong("pattern", 1, "id", 41), Wrong("custom", 1, "source", 9),
   [Plain EXCEPT !.page.axis = TVD], [Plain EXCEPT !.transform = <<Point(0, 0)>>]}
Varied ==
  {Wrong("track", 1, "visible", FALSE), Wrong("track", 2, "visible", FALSE),
   Wrong("curve", 1, "visible", FALSE), Wrong("curve", 3, "hides", {}),
   Wrong("image", 1, "visible", FALSE), Wrong("custom", 1, "visible", FALSE)}

AllRequests ==
  {Request(Document(Sampled(a, 2), b), Plain, view, "shapes") :
     a \in Uppers, b \in {Sampled(l, 2) : l \in Lowers} \cup Wide, view \in Views}
  \cup {Request(Common, p, view, "none") : p \in Windows, view \in Views}
  \cup {Request(Common, p, None, engine) : p \in Flawed \cup Varied, engine \in {"none", "fails"}}
  \cup {Request(Common, Wrong("marker", 1, "symbol_flaw", TRUE), None, "none"),
        Request([Common EXCEPT !.customs[5].dash_flaw = TRUE], Plain, None, "none")}

INSTANCE ScenePreparation WITH Requests <- AllRequests, BinHeight <- 2, MaximumBins <- 6
=============================================================================
