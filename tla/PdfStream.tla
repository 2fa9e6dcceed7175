----------------------------- MODULE PdfStream -----------------------------
(***************************************************************************)
(* The PDF exporter as a writer of operators: PdfSceneExporter emits one   *)
(* content stream per page, PageResources and PdfPathStream hand out the   *)
(* names the stream uses, and PdfWriter numbers the objects the names      *)
(* stand for.  What the file looks like is decided by a viewer, which is   *)
(* not part of this code: Seen interprets a stream as ISO 32000-1 does.    *)
(***************************************************************************)
EXTENDS Integers, Sequences, SequencesExt, FiniteSets, Functions

CONSTANTS Items,     \* things a prepared scene may hold
          Opaque,    \* the alpha 255
          Nothing,   \* no value
          Rgba,      \* the tiles among their images that have an alpha plane
          LayerNames, \* the names of the tracks of the scene, in order
          MaxPages, MaxItems

PdfAssumption ==
  LayerNames # <<>> /\ MaxPages \in Nat \ {0} /\ MaxItems \in Nat

Tracks == Len(LayerNames)

VARIABLES clipped,   \* fixed pages, clipped to their window
          layered,   \* one optional content group per track
          pages,     \* finished pages
          page,      \* the page being written
          track,     \* tracks of it begun so far
          inside,    \* TRUE between the begin and the end of a track
          layer,     \* the last item of the track, as its layer gives it, or Nothing
          count,     \* items emitted so far
          file       \* <<number, content>> of every object, once written

vars == <<clipped, layered, pages, page, track, inside, layer, count, file>>

KindOrder == <<"interval", "marker", "symbol", "curve", "fill", "image", "custom", "text">>
Rank(k) == CHOOSE r \in DOMAIN KindOrder : KindOrder[r] = k

-----------------------------------------------------------------------------
(* PdfPathStream.  "meant" is what the emitter names with the operand.     *)

Op(name, arg, meant) == [op |-> name, arg |-> arg, meant |-> meant]
Bare(name) == Op(name, Nothing, Nothing)
Blank == [ops |-> <<>>, fills |-> <<>>, strokes |-> <<>>, patterns |-> <<>>,
          images |-> <<>>, layers |-> <<>>]

Put(pg, ops) == [pg EXCEPT !.ops = @ \o ops]
Interned(list, value) == IF Contains(list, value) THEN list ELSE Append(list, value)
Place(list, value) == CHOOSE i \in DOMAIN list : list[i] = value
                                              /\ \A j \in 1..(i - 1) : list[j] # value

set_fill_alpha(pg, alpha) ==
  LET fills == Interned(pg.fills, alpha)
  IN  Put([pg EXCEPT !.fills = fills], <<Op("gs", <<"GS", Place(fills, alpha)>>, alpha)>>)
set_stroke_alpha(pg, alpha) ==
  LET strokes == Interned(pg.strokes, alpha)
  IN  Put([pg EXCEPT !.strokes = strokes], <<Op("gs", <<"GSs", Place(strokes, alpha)>>, alpha)>>)
set_pattern_fill(pg, name, item) == Put(pg, <<Op("cs scn", name, item.pattern), Op("f", Nothing, item)>>)
invoke_xobject(pg, name, item) == Put(pg, <<Op("Do", name, item)>>)

name_for_pattern(pg, pattern) == <<"P", Place(Interned(pg.patterns, pattern), pattern)>>
name_for_image(pg, tile) == <<"Im", Place(Interned(pg.images, tile), tile)>>

-----------------------------------------------------------------------------
(* The emitters. *)

WithFillAlpha(pg, item) == IF item.alpha = Opaque THEN pg ELSE set_fill_alpha(pg, item.alpha)
WithStrokeAlpha(pg, item) == IF item.alpha = Opaque THEN pg ELSE set_stroke_alpha(pg, item.alpha)
set_solid_fill(pg, item) == WithFillAlpha(Put(pg, <<Op("rg", item.colour, Nothing)>>), item)
set_solid_stroke(pg, item) == WithStrokeAlpha(Put(pg, <<Op("RG", item.colour, Nothing)>>), item)
Fill(pg, item) == Put(pg, <<Op("f", Nothing, item)>>)
Stroke(pg, item) == Put(pg, <<Op("S", Nothing, item)>>)
Width(pg, width) == Put(pg, <<Op("w", width, Nothing)>>)

PatternOrSolid(pg, item) ==
  IF item.pattern = Nothing
  THEN Fill(set_solid_fill(pg, item), item)
  ELSE set_pattern_fill([pg EXCEPT !.patterns = Interned(@, item.pattern)],
                        name_for_pattern(pg, item.pattern), item)

emit_interval(pg, item) == PatternOrSolid(pg, item)
emit_fill_region(pg, item) == PatternOrSolid(pg, item)

\* A cross is two strokes a third of the half-extent wide; other shapes are filled.
CrossWidth == "cross"
Shape(pg, item) ==
  IF item.shape = "cross"
  THEN Stroke(Width(pg, CrossWidth), [item EXCEPT !.width = CrossWidth])
  ELSE Fill(pg, item)
emit_symbol(pg, item) ==
  Shape(WithStrokeAlpha(WithFillAlpha(
          Put(pg, <<Op("rg", item.colour, Nothing), Op("RG", item.colour, Nothing)>>),
        item), item), item)

\* The pen is set once for the markers of a layer, without an alpha: their lines
\* are opaque or as what was painted before them.
MarkerPen(pg, item) == Width(Put(pg, <<Op("RG", item.colour, Nothing)>>), item.width)
MarkerLine(pg, item) == Stroke(pg, [item EXCEPT !.alpha = Opaque])

\* A plausible slip.
MarkerWithoutSave(pg, item, begun) ==
  LET line == MarkerLine(IF begun THEN pg ELSE MarkerPen(pg, item), item)
  IN  IF item.shape = Nothing THEN line ELSE emit_symbol(line, item)
\* A symbol is saved apart, for the pen of the markers that follow.
emit_marker(pg, item, begun) ==
  LET line == MarkerLine(IF begun THEN pg ELSE MarkerPen(pg, item), item)
  IN  IF item.shape = Nothing
      THEN line
      ELSE Put(emit_symbol(Put(line, <<Bare("q")>>), item), <<Bare("Q")>>)

emit_curve_layer(pg, item) == Stroke(Width(set_solid_stroke(pg, item), item.width), item)

emit_image(pg, item) ==
  LET named == [pg EXCEPT !.images = Interned(@, item.tile)]
  IN  Put(invoke_xobject(Put(named, <<Bare("q"), Op("cm", "tile", Nothing)>>),
                         name_for_image(pg, item.tile), item), <<Bare("Q")>>)

\* A plausible slip.
PolylineLeavesDash(pg, item) ==
  LET pen == Width(set_solid_stroke(pg, item), item.width)
  IN  IF item.dash = Nothing
      THEN Stroke(pen, item)
      ELSE Stroke(Put(pen, <<Op("d", item.dash, Nothing)>>), item)
\* The dash is reset after the stroke that used it.
Polyline(pg, item) ==
  LET pen == Width(set_solid_stroke(pg, item), item.width)
  IN  IF item.dash = Nothing
      THEN Stroke(pen, item)
      ELSE Put(Stroke(Put(pen, <<Op("d", item.dash, Nothing)>>), item),
               <<Op("d", Nothing, Nothing)>>)
emit_custom_layer(pg, item) ==
  CASE item.form = "polyline" -> Polyline(pg, item)
    [] item.form = "polygon"  -> PatternOrSolid(pg, item)
    [] item.form = "symbol"   -> emit_symbol(pg, item)

\* Each glyph is filled under a matrix of its own.
emit_text_run(pg, item) ==
  Put(Fill(Put(set_solid_fill(Put(pg, <<Bare("q")>>), item),
               <<Bare("q"), Op("cm", "glyph", Nothing)>>), item),
      <<Bare("Q"), Bare("Q")>>)

\* "begun": the item is not the first of its layer.
Emit(pg, item, begun) ==
  CASE item.kind = "interval" -> emit_interval(pg, item)
    [] item.kind = "marker"   -> emit_marker(pg, item, begun)
    [] item.kind = "symbol"   -> emit_symbol(pg, item)
    [] item.kind = "curve"    -> emit_curve_layer(pg, item)
    [] item.kind = "fill"     -> emit_fill_region(pg, item)
    [] item.kind = "image"    -> emit_image(pg, item)
    [] item.kind = "custom"   -> emit_custom_layer(pg, item)
    [] item.kind = "text"     -> emit_text_run(pg, item)

\* Header, ruler, footer, legend and crop marks, authored in page millimetres.
Band(form) == [kind |-> "band", form |-> form, colour |-> "black", alpha |-> Opaque,
               pattern |-> Nothing, width |-> "thin", dash |-> Nothing, shape |-> Nothing,
               at |-> <<0, 0>>]
emit_page_bands(pg) ==
  LET label   == emit_text_run(pg, Band("label"))
      tick    == Put(Stroke(Width(Put(label, <<Bare("q"), Op("RG", "black", Nothing)>>), "thin"),
                            Band("tick")), <<Bare("Q")>>)
  IN  Fill(Put(tick, <<Op("rg", "black", Nothing)>>), Band("swatch"))
emit_crop_marks(pg) ==
  Stroke(Width(Put(pg, <<Op("RG", "black", Nothing)>>), "thin"), Band("crop"))

-----------------------------------------------------------------------------
(* PdfWriter::write: the objects and their numbers. *)

SumOver(n, F(_)) == FoldLeft(LAMBDA total, i : total + F(i), 0, [i \in 1..n |-> i])
Objects(pg) ==
  [i \in DOMAIN pg.patterns |-> [name |-> <<"P", i>>, is |-> pg.patterns[i], children |-> 0]]
  \o [i \in DOMAIN pg.images |-> [name |-> <<"Im", i>>, is |-> pg.images[i],
                                  children |-> IF pg.images[i] \in Rgba THEN 1 ELSE 0]]
Occupied(pg, k) == 1 + Objects(pg)[k].children
Alphas(pg) == Len(pg.fills) + Len(pg.strokes)

AlphaBase(p) == 3 + 2 * Len(pages) + SumOver(p - 1, LAMBDA q : Alphas(pages[q]))
StrokeBase(p) == AlphaBase(p) + Len(pages[p].fills)
ObjectBase(p) ==
  AlphaBase(Len(pages)) + Alphas(pages[Len(pages)])
    + SumOver(p - 1, LAMBDA q : SumOver(Len(Objects(pages[q])),
                                        LAMBDA k : Occupied(pages[q], k)))
LayerBase == ObjectBase(Len(pages))
             + SumOver(Len(Objects(pages[Len(pages)])),
                       LAMBDA k : Occupied(pages[Len(pages)], k))

\* A plausible slip.
NumberByIndex(p, k) == ObjectBase(p) + k - 1
\* The number a resource dictionary gives the k-th object of page p.
NumberInDictionary(p, k) ==
  ObjectBase(p) + SumOver(k - 1, LAMBDA j : Occupied(pages[p], j))
Resources(p) ==
  LET pg == pages[p]
      named == {<<<<"GS", g>>, AlphaBase(p) + g - 1>> : g \in DOMAIN pg.fills}
        \cup {<<<<"GSs", g>>, StrokeBase(p) + g - 1>> : g \in DOMAIN pg.strokes}
        \cup {<<Objects(pg)[k].name, NumberInDictionary(p, k)>> : k \in DOMAIN Objects(pg)}
        \cup {<<<<"Lay", t>>, LayerBase + t - 1>> : t \in ToSet(pg.layers)}
  IN  named

\* The objects of page p as the emission loop counts them: children follow.
WrittenObjects(p) ==
  FoldLeft(LAMBDA out, k :
             LET next == ObjectBase(p) + Len(out)
                 object == Objects(pages[p])[k]
             IN  out \o <<<<next, object.is>>>>
                     \o [c \in 1..object.children |-> <<next + c, "soft mask">>],
           <<>>, [k \in DOMAIN Objects(pages[p]) |-> k])

Written ==
  LET n == Len(pages)
      each(F(_)) == FlattenSeq([p \in 1..n |-> F(p)])
  IN  <<<<1, "catalog">>, <<2, "pages">>>>
      \o each(LAMBDA p : <<<<1 + 2 * p, "contents">>, <<2 + 2 * p, "page">>>>)
      \o each(LAMBDA p : [g \in DOMAIN pages[p].fills |-> <<AlphaBase(p) + g - 1, pages[p].fills[g]>>]
                      \o [g \in DOMAIN pages[p].strokes |-> <<StrokeBase(p) + g - 1, pages[p].strokes[g]>>])
      \o each(WrittenObjects)
      \o (IF layered THEN [t \in 1..Tracks |-> <<LayerBase + t - 1, LayerNames[t]>>] ELSE <<>>)

object_count ==
  2 + 2 * Len(pages) + SumOver(Len(pages), LAMBDA p : Alphas(pages[p]))
    + SumOver(Len(pages), LAMBDA p : SumOver(Len(Objects(pages[p])),
                                             LAMBDA k : Occupied(pages[p], k)))
    + (IF layered THEN Tracks ELSE 0) + 1

-----------------------------------------------------------------------------
\* A page starts with the matrix from scene millimetres to points, outside any q.
PageStart ==
  Put(Blank, <<Op("cm", "scene", Nothing)>> \o (IF clipped THEN <<Bare("q"), Bare("W n")>> ELSE <<>>))

Init ==
  /\ clipped \in BOOLEAN /\ layered \in BOOLEAN
  /\ pages = <<>> /\ page = PageStart
  /\ track = 0 /\ inside = FALSE /\ layer = Nothing /\ count = 0 /\ file = <<>>

\* A plausible slip.
TrackStartWithoutSave(pg) == Put(pg, <<Bare("W n")>>)
TrackStart(pg) == Put(pg, <<Bare("q"), Bare("W n")>>)

BeginTrack ==
  /\ file = <<>> /\ ~inside /\ track < Tracks
  /\ track' = track + 1 /\ inside' = TRUE /\ layer' = Nothing
  /\ page' = TrackStart(IF layered
                        THEN Put(page, <<Op("BMC", <<"Lay", track + 1>>, LayerNames[track + 1])>>)
                        ELSE page)
  /\ UNCHANGED <<clipped, layered, pages, count, file>>

EmitItem(item) ==
  /\ inside /\ count < MaxItems
  /\ layer # Nothing => Rank(item.kind) >= Rank(layer.kind)
  /\ layer' = item /\ count' = count + 1
  /\ page' = Emit(page, [item EXCEPT !.at = <<Len(pages) + 1, track>>], item = layer)
  /\ UNCHANGED <<clipped, layered, pages, track, inside, file>>

EndTrack ==
  /\ inside
  /\ inside' = FALSE
  /\ page' = LET closed == Put(page, <<Bare("Q")>>)
             IN  IF layered
                 THEN [Put(closed, <<Bare("EMC")>>) EXCEPT !.layers = Append(@, track)]
                 ELSE closed
  /\ UNCHANGED <<clipped, layered, pages, track, layer, count, file>>

\* The bands and the crop marks, under a second matrix, end the page.
EndPage ==
  /\ file = <<>> /\ ~inside /\ track = Tracks
  /\ LET body == IF clipped THEN Put(page, <<Bare("Q")>>) ELSE page
         bands == emit_crop_marks(emit_page_bands(
                    Put(body, <<Bare("q"), Op("cm", "page", Nothing)>>)))
     IN  pages' = Append(pages, Put(bands, <<Bare("Q")>>))
  /\ page' = PageStart /\ track' = 0 /\ layer' = Nothing
  /\ Len(pages) < MaxPages
  /\ UNCHANGED <<clipped, layered, inside, count, file>>

WriteFile ==
  /\ file = <<>> /\ pages # <<>> /\ track = 0 /\ ~inside
  /\ file' = Written
  /\ UNCHANGED <<clipped, layered, pages, page, track, inside, layer, count>>

Next ==
  \/ BeginTrack
  \/ \E item \in Items : EmitItem(item)
  \/ EndTrack \/ EndPage \/ WriteFile
Spec == Init /\ [][Next]_vars

-----------------------------------------------------------------------------
(* The viewer (external): one pass over the operators of a page.           *)

Fresh == [space |-> <<>>, fill |-> "black", stroke |-> "black", pattern |-> Nothing,
          ca |-> Opaque, CA |-> Opaque, width |-> "default", dash |-> Nothing]
Lookup(p, name) ==
  {file[i][2] : i \in {j \in DOMAIN file : <<name, file[j][1]>> \in Resources(p)}}
The(set) == IF Cardinality(set) = 1 THEN CHOOSE x \in set : TRUE ELSE Nothing

Step(p, v, o) ==
  CASE o.op = "q"  -> [v EXCEPT !.saved = Append(@, v.gs)]
    [] o.op = "Q"  -> IF v.saved = <<>> THEN [v EXCEPT !.unbalanced = TRUE]
                      ELSE [v EXCEPT !.gs = Last(v.saved), !.saved = Front(@)]
    [] o.op = "cm" -> [v EXCEPT !.gs.space = Append(@, o.arg)]
    [] o.op = "rg" -> [v EXCEPT !.gs.fill = o.arg, !.gs.pattern = Nothing]
    [] o.op = "RG" -> [v EXCEPT !.gs.stroke = o.arg]
    [] o.op = "w"  -> [v EXCEPT !.gs.width = o.arg]
    [] o.op = "d"  -> [v EXCEPT !.gs.dash = o.arg]
    [] o.op = "gs" -> IF o.arg[1] = "GS" THEN [v EXCEPT !.gs.ca = The(Lookup(p, o.arg))]
                      ELSE [v EXCEPT !.gs.CA = The(Lookup(p, o.arg))]
    [] o.op = "cs scn" -> [v EXCEPT !.gs.pattern = The(Lookup(p, o.arg))]
    [] o.op = "f"  -> [v EXCEPT !.ink = Append(@, [how |-> "f", item |-> o.meant, gs |-> v.gs])]
    [] o.op = "S"  -> [v EXCEPT !.ink = Append(@, [how |-> "S", item |-> o.meant, gs |-> v.gs])]
    [] o.op = "Do" -> [v EXCEPT !.ink = Append(@, [how |-> "Do", item |-> o.meant, gs |-> v.gs,
                                                   image |-> The(Lookup(p, o.arg))])]
    [] OTHER -> v
Seen(p) ==
  FoldLeft(LAMBDA v, o : Step(p, v, o),
           [gs |-> Fresh, saved |-> <<>>, unbalanced |-> FALSE, ink |-> <<>>], pages[p].ops)

(* Every mark is painted with what its own item asks for: its colour or    *)
(* pattern, the width and dash of its line, its pixels; whatever was       *)
(* painted before it in the same stream, by other layers or by the marks   *)
(* of its own layer, whose pen is set once (the emitters of pdf_scene.cpp). *)
OwnPaint ==
  file # <<>> =>
    \A p \in DOMAIN pages : LET seen == Seen(p).ink IN \A i \in DOMAIN seen :
      LET ink == seen[i]
          item == ink.item
      IN  /\ ink.how = "f" => IF item.pattern = Nothing
                              THEN ink.gs.fill = item.colour /\ ink.gs.pattern = Nothing
                              ELSE ink.gs.pattern = item.pattern
          /\ ink.how = "S" => /\ ink.gs.stroke = item.colour
                              /\ ink.gs.width = item.width
                              /\ ink.gs.dash = item.dash
          /\ ink.how = "Do" => ink.image = item.tile

(* The names of a page's stream stand, in the finished file, for what the  *)
(* emitter named with them, and every number of the cross-reference table  *)
(* is one object (PdfWriter::write).                                       *)
NamesResolve ==
  file # <<>> =>
    /\ \A p \in DOMAIN pages : \A i \in DOMAIN pages[p].ops :
         LET o == pages[p].ops[i]
         IN  o.op \in {"gs", "cs scn", "BMC"} => Lookup(p, o.arg) = {o.meant}
    /\ [i \in DOMAIN file |-> file[i][1]] = [i \in 1..(object_count - 1) |-> i]

PaintedAlpha(ink) == IF ink.how = "S" THEN ink.gs.CA ELSE ink.gs.ca

(* A translucent mark has its own alpha.  One that asks for none, opaque   *)
(* or not, is painted opaque or with the alpha of an earlier mark of its   *)
(* own track, never of another track, page or band: the emitters set an    *)
(* alpha and never take it back; the q and Q around each track do, and     *)
(* those around a text and around a marker's symbol.                       *)
AlphaStaysInTrack ==
  file # <<>> =>
    \A p \in DOMAIN pages :
      LET seen == Seen(p)
          ink == seen.ink
      IN  /\ ~seen.unbalanced /\ seen.saved = <<>>
          /\ \A i \in DOMAIN ink :
               IF ink[i].item.alpha # Opaque
               THEN PaintedAlpha(ink[i]) = ink[i].item.alpha
               ELSE PaintedAlpha(ink[i]) \in {Opaque} \cup
                      {ink[j].item.alpha :
                         j \in {k \in 1..(i - 1) : /\ ink[k].item.at = ink[i].item.at
                                                   /\ ink[k].item.kind \notin {"marker", "text"}}}

(* The bands are authored "in PAGE-mm space (y-down), separate from the    *)
(* scene body's flipped cm" (pdf_scene.cpp:1491).                          *)
BandsInPageSpace ==
  file # <<>> =>
    \A p \in DOMAIN pages : LET seen == Seen(p).ink IN \A i \in DOMAIN seen :
      LET ink == seen[i]
      IN  ink.item.kind = "band" => Head(ink.gs.space) = "page"

(* An item is painted with its own transparency: alpha "shared by          *)
(* curve/marker/symbol/custom-stroke emission" (pdf_scene.cpp:160).        *)
OwnAlpha ==
  file # <<>> =>
    \A p \in DOMAIN pages : LET seen == Seen(p).ink IN \A i \in DOMAIN seen :
      LET ink == seen[i]
      IN  PaintedAlpha(ink) = ink.item.alpha
=============================================================================
