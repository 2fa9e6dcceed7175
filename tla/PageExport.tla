----------------------------- MODULE PageExport -----------------------------
(***************************************************************************)
(* A prepared scene written to pages: PaginatedSvgExporter and             *)
(* PdfSceneExporter slice the scene's height into windows with one shared  *)
(* page model and emit, page by page, what reaches the window, track by    *)
(* track and kind by kind.  Heights are whole millimetres; a page          *)
(* millimetre is scale scene millimetres divided, as in                    *)
(* export_layout.hpp; overlaps are percents.                               *)
(***************************************************************************)
EXTENDS Integers, Sequences, SequencesExt, FiniteSets

CONSTANTS Scenes,       \* prepared scenes that may be exported
          PageSpecs,    \* page specifications that may be asked for
          MaxWindows    \* k_max_page_windows, 65536 in the code

(***************************************************************************)
(* Of a specification only the fields that snapshot_is_valid leaves alone. *)
(* Of a scene what its preparation grants: each track's clip reaches over  *)
(* its whole height, an item is of one of the tracks, and the run of a     *)
(* text bounds the origins of its glyphs.  Its ink reaches no further      *)
(* beyond its outline than it is padded by: a symbol or a line across its  *)
(* track lies within the pad, a glyph within an em, and the width of other *)
(* strokes is left out.                                                    *)
(***************************************************************************)
SoundSpec(p) ==
  /\ p.printable \in Int /\ p.scale \in Nat \ {0} /\ p.overlap \in Int
  /\ p.legend \in BOOLEAN

SoundItem(item) ==
  /\ {item.top, item.bottom, item.pad, item.reach} \subseteq Int
  /\ item.glyphs \in Seq(Int) /\ item.segments \in Seq(Seq(Int))
  /\ item.reach <= IF item.kind \in {"marker", "symbol", "text"} THEN item.pad ELSE 0
  /\ item.kind = "text" =>
       \A g \in DOMAIN item.glyphs :
         item.top <= item.glyphs[g] /\ item.glyphs[g] <= item.bottom

SoundScene(s) ==
  /\ s.height \in Int /\ s.headers \in Nat
  /\ \A t \in DOMAIN s.tracks :
       /\ {s.tracks[t].top, s.tracks[t].bottom} \subseteq Int
       /\ s.tracks[t].top <= 0 /\ s.height <= s.tracks[t].bottom
  /\ \A i \in DOMAIN s.items :
       /\ SoundItem(s.items[i])
       /\ \E t \in DOMAIN s.tracks : s.tracks[t].id = s.items[i].track
       /\ s.items[i].kind \in {"interval", "marker", "symbol", "curve", "fill", "image",
                               "custom", "text"}

PagesAssumption ==
  /\ MaxWindows \in Nat \ {0}
  /\ \A s \in Scenes : SoundScene(s)
  /\ \A p \in PageSpecs : SoundSpec(p)

VARIABLES scene,     \* the scene
          spec,      \* the page specification of the snapshot
          backend,   \* "svg" or "pdf"
          resolved,  \* images for which the host supplies pixels
          phase,     \* "asked", "writing", "refused", "failed" or "done"
          pages,     \* the pages written so far
          degraded   \* layers reported as over the complexity budget

pages_vars == <<scene, spec, backend, resolved, phase, pages, degraded>>

LegendRow == 4

Lower(a, b) == IF a < b THEN a ELSE b
Upper(a, b) == IF a < b THEN b ELSE a
CeilDiv(a, b) == (a + b - 1) \div b

-----------------------------------------------------------------------------
(* export_layout.hpp: the page model both backends share. *)

DepthHeight(p) == p.printable \div p.scale
LegendEntries(s, p) ==
  IF p.legend THEN Lower(s.headers, p.printable \div LegendRow) ELSE 0
LegendBand(s, p) == LegendEntries(s, p) * LegendRow
Step(p) == (DepthHeight(p) * (100 - p.overlap)) \div 100

\* A plausible slip.
WindowsRoundedDown(s, p) ==
  IF p.mode = "continuous"
  THEN <<[top |-> 0, bottom |-> s.height, clip |-> FALSE]>>
  ELSE LET count == s.height \div Upper(1, Step(p))
       IN  [i \in 1..count |-> [top |-> (i - 1) * Step(p),
                                bottom |-> Lower(s.height, (i - 1) * Step(p) + DepthHeight(p)),
                                clip |-> TRUE]]

Windows(s, p) ==
  IF p.mode = "continuous"
  THEN <<[top |-> 0, bottom |-> s.height, clip |-> FALSE]>>
  ELSE LET count == CeilDiv(s.height, Step(p))
           Window(i) == [top    |-> (i - 1) * Step(p),
                         bottom |-> IF i = count
                                    THEN s.height
                                    ELSE Lower(s.height, (i - 1) * Step(p) + DepthHeight(p)),
                         clip   |-> TRUE]
       IN  IF Step(p) <= 0 \/ count > MaxWindows
           THEN <<>>
           ELSE [i \in 1..count |-> Window(i)]

Meets(w, top, bottom, pad) ==
  w.clip => bottom >= w.top - pad /\ top <= w.bottom + pad

\* The scene rows whose drawing a page leaves visible.  append_fixed_page hangs
\* the clip of the body on the group that also carries the body's transform, and
\* a viewer reads a clip in the coordinates that transform sets up (SVG 1.1,
\* 14.3.5): the page millimetres of the rectangle count as scene millimetres.
BodyHeight(s, p) == Upper(0, p.printable - LegendBand(s, p))
SceneRows(s) == 0..(s.height - 1)
OnSvgPage(p, w, r) ==
  LET y == p.margin + (r - w.top) * p.scale
  IN  y >= 0 /\ y < p.printable + 2 * p.margin
SvgRows(s, p, w) ==
  {r \in SceneRows(s) :
     w.clip => r >= p.margin /\ r < p.margin + BodyHeight(s, p) /\ OnSvgPage(p, w, r)}
\* The PDF clip is written in scene millimetres under the page's matrix.
PdfRows(s, p, w) ==
  {r \in SceneRows(s) :
     w.clip => r >= w.top
               /\ r < Lower(w.bottom, w.top + DepthHeight(p) - LegendBand(s, p) \div p.scale)}

-----------------------------------------------------------------------------
(* What one page carries.  An item's parts are the edges of a curve, the   *)
(* glyphs of a text run, and one part otherwise.                           *)

EdgeSet(item) ==
  UNION {{<<g, i>> : i \in 1..(Len(item.segments[g]) - 1)} : g \in DOMAIN item.segments}
EdgeTop(item, e) == Lower(item.segments[e[1]][e[2]], item.segments[e[1]][e[2] + 1])
EdgeBottom(item, e) == Upper(item.segments[e[1]][e[2]], item.segments[e[1]][e[2] + 1])

\* A plausible slip.
CutCurveByPoint(item, w) ==
  {e \in EdgeSet(item) : LET y == item.segments[e[1]][e[2]] IN Meets(w, y, y, 0)}

CutCurve(item, w) ==
  {e \in EdgeSet(item) : Meets(w, EdgeTop(item, e), EdgeBottom(item, e), 0)}
WholeItem(item, w, pad) == IF Meets(w, item.top, item.bottom, pad) THEN {1} ELSE {}
Boxed(item, w, pad) == item.bottom > item.top => Meets(w, item.top, item.bottom, pad)

\* append_layer_body, kind by kind.
SvgInterval(item, w) == WholeItem(item, w, 0)
SvgMarker(item, w) == WholeItem(item, w, item.pad)
SvgSymbol(item, w) == WholeItem(item, w, item.pad)
SvgCurve(item, w) == CutCurve(item, w)
SvgFill(item, w) == WholeItem(item, w, 0)
SvgImage(item, w) == WholeItem(item, w, 0)
SvgCustom(item, w) == IF Boxed(item, w, 0) THEN {1} ELSE {}
SvgText(item, w) ==
  IF Boxed(item, w, item.pad)
  THEN {i \in DOMAIN item.glyphs : Meets(w, item.glyphs[i], item.glyphs[i], item.pad)}
  ELSE {}

\* emit_track_body and its emitters, kind by kind; an image needs its pixels.
PdfInterval(item, w) == WholeItem(item, w, 0)
\* A plausible slip.
PdfMarkerWithoutPad(item, w) == WholeItem(item, w, 0)

PdfMarker(item, w) == WholeItem(item, w, item.pad)
PdfSymbol(item, w) == WholeItem(item, w, item.pad)
PdfCurve(item, w) == CutCurve(item, w)
PdfFill(item, w) == WholeItem(item, w, 0)
PdfImage(item, w) == IF item.id \in resolved THEN WholeItem(item, w, 0) ELSE {}
PdfCustom(item, w) == IF Boxed(item, w, 0) THEN {1} ELSE {}
PdfText(item, w) ==
  IF Boxed(item, w, item.pad)
  THEN {i \in DOMAIN item.glyphs : Meets(w, item.glyphs[i], item.glyphs[i], item.pad)}
  ELSE {}

SvgParts(item, w) ==
  CASE item.kind = "interval" -> SvgInterval(item, w)
    [] item.kind = "marker"   -> SvgMarker(item, w)
    [] item.kind = "symbol"   -> SvgSymbol(item, w)
    [] item.kind = "curve"    -> SvgCurve(item, w)
    [] item.kind = "fill"     -> SvgFill(item, w)
    [] item.kind = "image"    -> SvgImage(item, w)
    [] item.kind = "custom"   -> SvgCustom(item, w)
    [] item.kind = "text"     -> SvgText(item, w)
PdfParts(item, w) ==
  CASE item.kind = "interval" -> PdfInterval(item, w)
    [] item.kind = "marker"   -> PdfMarker(item, w)
    [] item.kind = "symbol"   -> PdfSymbol(item, w)
    [] item.kind = "curve"    -> PdfCurve(item, w)
    [] item.kind = "fill"     -> PdfFill(item, w)
    [] item.kind = "image"    -> PdfImage(item, w)
    [] item.kind = "custom"   -> PdfCustom(item, w)
    [] item.kind = "text"     -> PdfText(item, w)

\* The kinds in the order of the emitters' loops.
SvgOrder == <<"interval", "marker", "symbol", "curve", "fill", "image", "custom", "text">>
PdfOrder == <<"interval", "marker", "symbol", "curve", "fill", "image", "custom", "text">>

\* A mark stands at the place <<track, kind, item>> of the nested loops, and
\* the marks of a page are drawn in the order of their places.
Places(s, order) ==
  {m \in (DOMAIN s.tracks) \X (DOMAIN order) \X (DOMAIN s.items) :
     s.items[m[3]].track = s.tracks[m[1]].id /\ s.items[m[3]].kind = order[m[2]]}

\* One group per track whose clip meets the window.
SvgMarks(s, w) ==
  [m \in {m \in Places(s, SvgOrder) :
            /\ Meets(w, s.tracks[m[1]].top, s.tracks[m[1]].bottom, 0)
            /\ SvgParts(s.items[m[3]], w) # {}} |-> SvgParts(s.items[m[3]], w)]
\* Every track, its clip written whether or not it meets the window.
PdfMarks(s, w) ==
  [m \in {m \in Places(s, PdfOrder) : PdfParts(s.items[m[3]], w) # {}} |->
     PdfParts(s.items[m[3]], w)]

SvgPage(s, p, w) == [window |-> w, rows |-> SvgRows(s, p, w), marks |-> SvgMarks(s, w)]
PdfPage(s, p, w) == [window |-> w, rows |-> PdfRows(s, p, w), marks |-> PdfMarks(s, w)]

-----------------------------------------------------------------------------
(* evaluate_complexity, snapshot_is_valid and the pixels a host prepares. *)

PointTotal(item) == Len(FlattenSeq(item.segments))
OverBudget(s, p) ==
  IF p.budget = 0
  THEN <<>>
  ELSE SelectSeq(s.items, LAMBDA item : item.kind = "curve" /\ PointTotal(item) > p.budget)

ValidSnapshot(s, p) ==
  /\ s.height > 0 /\ s.tracks # <<>>
  /\ p.printable > 0
  /\ p.overlap \in 0..99

\* required_aggregate_pixel_height, in pixels of one millimetre each.
AggregatePixels(s, p) == CeilDiv(s.height, Step(p)) * DepthHeight(p)

-----------------------------------------------------------------------------
PagesInit ==
  /\ scene \in Scenes /\ spec \in PageSpecs
  /\ backend \in {"svg", "pdf"}
  /\ resolved \in SUBSET {scene.items[i].id :
                            i \in {j \in DOMAIN scene.items : scene.items[j].kind = "image"}}
  /\ phase = "asked" /\ pages = <<>> /\ degraded = <<>>

\* An over-budget layer refuses a pure vector export and is reported by a mixed one.
Begin ==
  /\ phase = "asked"
  /\ LET over == OverBudget(scene, spec)
         refused == \/ ~ValidSnapshot(scene, spec)
                    \/ over # <<>> /\ spec.pure
     IN  /\ degraded' = IF refused THEN <<>> ELSE over
         /\ phase' = IF refused \/ Windows(scene, spec) = <<>> THEN "refused" ELSE "writing"
  /\ UNCHANGED <<scene, spec, backend, resolved, pages>>

WritePage ==
  /\ phase = "writing"
  /\ Len(pages) < Len(Windows(scene, spec))
  /\ LET w == Windows(scene, spec)[Len(pages) + 1]
     IN  pages' = Append(pages, IF backend = "svg"
                                THEN SvgPage(scene, spec, w)
                                ELSE PdfPage(scene, spec, w))
  /\ UNCHANGED <<scene, spec, backend, resolved, phase, degraded>>

\* Memory runs out, or a PDF object cannot be compressed: no document at all.
Fail ==
  /\ phase = "writing"
  /\ phase' = "failed" /\ pages' = <<>>
  /\ UNCHANGED <<scene, spec, backend, resolved, degraded>>

EndDocument ==
  /\ phase = "writing"
  /\ Len(pages) = Len(Windows(scene, spec))
  /\ phase' = "done"
  /\ UNCHANGED <<scene, spec, backend, resolved, pages, degraded>>

PagesNext == Begin \/ WritePage \/ Fail \/ EndDocument
PagesSpec == PagesInit /\ [][PagesNext]_pages_vars

-----------------------------------------------------------------------------
Covered == \A r \in SceneRows(scene) : \E i \in DOMAIN pages : r \in pages[i].rows
Overlap == DepthHeight(spec) - Step(spec)

(* The pages of a PDF together show every row of the scene, from the first *)
(* to the last, when the legend takes no more of a page than the next one  *)
(* repeats (compute_page_windows and the clip written from it).            *)
EveryRowPrinted ==
  phase = "done" /\ backend = "pdf" /\ LegendBand(scene, spec) <= Overlap * spec.scale
    => Covered

(* "only [window_top, window_bottom] of the scaled scene shows on this     *)
(* page" (pagination.cpp:374), above the reserved legend.                  *)
SvgShowsItsWindow ==
  backend = "svg" =>
    \A i \in DOMAIN pages : pages[i].rows = PdfRows(scene, spec, pages[i].window)

(* Fixed pages continue the depth from one to the next                     *)
(* (docs/table-and-export.md:228), whatever bands they repeat.             *)
LegendHidesNoRow == phase = "done" /\ backend = "pdf" => Covered

(* Both exporters, though each writes its own emitters, put the same parts *)
(* of the same items on a page in the same order; a PDF alone leaves out   *)
(* the images whose pixels the host did not give.                          *)
BackendsAgree ==
  \A n \in DOMAIN pages :
    LET svg == SvgPage(scene, spec, pages[n].window).marks
        Given(m) == LET item == scene.items[m[3]]
                    IN  item.kind = "image" => item.id \in resolved
        pdf == PdfPage(scene, spec, pages[n].window).marks
    IN  pdf = [m \in {m \in DOMAIN svg : Given(m)} |-> svg[m]]

Reaches(item, part, w) ==
  LET ink == IF item.kind = "curve" THEN <<EdgeTop(item, part), EdgeBottom(item, part)>>
             ELSE IF item.kind = "text" THEN <<item.glyphs[part], item.glyphs[part]>>
             ELSE <<item.top, item.bottom>>
  IN  ink[1] - item.reach < w.bottom /\ ink[2] + item.reach > w.top

AllParts(item) ==
  CASE item.kind = "curve" -> EdgeSet(item)
    [] item.kind = "text"  -> DOMAIN item.glyphs
    [] OTHER -> {1}

(* What is left out of a page could not be seen on it: an item, an edge of *)
(* a curve or a glyph whose ink reaches into the page's window is there.   *)
NothingVisibleCulled ==
  \A n \in DOMAIN pages : \A i \in DOMAIN scene.items :
    LET item == scene.items[i]
        marks == pages[n].marks
        shown == UNION {marks[m] : m \in {m \in DOMAIN marks : m[3] = i}}
    IN  (item.kind = "image" /\ backend = "pdf" => item.id \in resolved) =>
          \A part \in AllParts(item) : Reaches(item, part, pages[n].window) => part \in shown

(* The pages of a PDF together show every row of the scene when the legend *)
(* takes no more of a page than the next one repeats, nothing whose ink    *)
(* reaches into a page's window is left out of it, and SVG and PDF put the *)
(* same parts on a page in the same order (compute_page_windows and the    *)
(* emitters).                                                              *)
PagesShowEveryRow == EveryRowPrinted /\ NothingVisibleCulled /\ BackendsAgree

(* The pixel height a host is told to prepare (one pixel a millimetre) is  *)
(* enough for the whole printed length (ADR 0048, "每页深度像素 × 页数").     *)
AggregateIsEnough ==
  phase = "done" /\ spec.mode = "fixed"
    => AggregatePixels(scene, spec) >= scene.height * spec.scale
=============================================================================
