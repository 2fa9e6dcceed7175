---------------------------- MODULE RasterTiles ----------------------------
(***************************************************************************)
(* What a raster export writes (src/src/export_raster/raster_export.cpp):  *)
(* the geometry of the image, the rows each primitive paints in each tile, *)
(* and the rows of a PNG and the strips of a TIFF.                         *)
(*                                                                         *)
(* A tile is drawn from the whole scene, less what scene_y_hits_tile says  *)
(* cannot reach it.  Columns are left out: a primitive is the rows it      *)
(* paints.  Heights are in half pixels, so that what is rounded matters;   *)
(* thicknesses and sizes are in pixels.                                    *)
(***************************************************************************)
EXTENDS Integers, Sequences, FiniteSets, FiniteSetsExt, SequencesExt

CONSTANTS Requests,        \* what may be asked for, see the MC module
          Samples,         \* values of a byte: 256 in the code
          LongestRun,      \* of PackBits: 128 in the code
          MaximumPixels, MaximumTileBytes

VARIABLES request, tile, result, prev_row
vars == <<request, tile, result, prev_row>>

----------------------------------------------------------------------------
(* Geometry.                                                               *)

resolve_geometry(width, height, tile_height, channels) ==
    LET tile_h == Min({tile_height, height})
        sound == /\ tile_height > 0
                 /\ width * height \in 1 .. MaximumPixels
                 /\ width * tile_h * channels \in 1 .. MaximumTileBytes
    IN [sound |-> sound, height |-> height, tile_height |-> tile_h]

tile_count(geometry) == (geometry.height + geometry.tile_height - 1) \div geometry.tile_height

(* The rows of a tile, which is counted from 0.                            *)
TileRows(geometry, t) ==
    LET top == t * geometry.tile_height
    IN top .. top + Min({geometry.tile_height, geometry.height - top}) - 1

----------------------------------------------------------------------------
(* Primitives.                                                             *)

lround(half_pixels) == (half_pixels + 1) \div 2

(* Bresenham from row to row, as thick as it is wide.                      *)
draw_line(from, to, thickness) ==
    LET radius == Max({0, thickness \div 2})
    IN Min({from, to}) - radius .. Max({from, to}) + radius

fill_rect(top, bottom) == lround(top) .. lround(bottom) - 1

(* The rows whose middle the polygon spans.                                *)
fill_polygons(lo, hi) == {y \in lo \div 2 .. hi \div 2 : lo <= 2 * y + 1 /\ 2 * y + 1 < hi}

(* A cross is two diagonals, any other glyph an outline.                   *)
CrossStroke(size) == Max({1, (size + 3) \div 6})
symbol_glyph(center, size, cross) ==
    IF cross
      THEN LET arm == lround(size)
           IN draw_line(lround(center) - arm, lround(center) + arm, CrossStroke(size))
      ELSE fill_polygons(center - size, center + size)

(* The rows a primitive paints, and the spans that must, with a margin,    *)
(* touch a tile for it to be drawn there.                                  *)
Interval(p) == [rows |-> fill_rect(p.lo, p.hi), spans |-> {<<p.lo, p.hi>>}, pad |-> 1]

Symbol(p) == [rows |-> symbol_glyph(p.lo, p.size, p.cross), spans |-> {<<p.lo, p.lo>>},
              pad |-> p.size]

Curve(p) == [rows |-> draw_line(lround(p.lo), lround(p.hi), p.thickness),
             spans |-> {<<p.lo, p.hi>>}, pad |-> p.thickness + 1]

Marker(p) == [rows |-> draw_line(lround(p.lo), lround(p.lo), p.thickness)
                          \cup (IF p.size > 0 THEN symbol_glyph(p.lo, p.size, p.cross) ELSE {}),
              spans |-> {<<p.lo, p.lo>>}, pad |-> p.thickness + p.size]

Fill(p) == [rows |-> fill_polygons(p.lo, p.hi), spans |-> {<<p.lo, p.hi>>}, pad |-> 1]

(* A symbol, which has no stroke of its own, a polyline or a polygon.      *)
Custom(p) ==
    IF p.size > 0
      THEN [rows |-> symbol_glyph(p.lo, p.size, p.cross),
            spans |-> {<<p.lo - p.size, p.lo + p.size>>}, pad |-> 1]
      ELSE [rows |-> IF p.thickness > 0 THEN draw_line(lround(p.lo), lround(p.hi), p.thickness)
                                        ELSE fill_polygons(p.lo, p.hi),
            spans |-> {<<p.lo, p.hi>>}, pad |-> p.thickness + 1]

(* A glyph within an em of its origin, in a run with bounds of its own.    *)
Text(p) == [rows |-> fill_polygons(p.lo, p.hi),
            spans |-> {<<p.origin, p.origin>>, <<p.top, p.bottom>>}, pad |-> p.size]

Drawn(p) == CASE p.kind = "interval" -> Interval(p)
              [] p.kind = "symbol" -> Symbol(p)
              [] p.kind = "curve" -> Curve(p)
              [] p.kind = "marker" -> Marker(p)
              [] p.kind = "fill" -> Fill(p)
              [] p.kind = "custom" -> Custom(p)
              [] p.kind = "text" -> Text(p)

\* A plausible slip.
scene_y_hits_tileUnpadded(span, pad, rows) ==
    2 * Min(rows) <= Max(Range(span)) /\ Min(Range(span)) < 2 * (Max(rows) + 1)

scene_y_hits_tile(span, pad, rows) ==
    /\ Max(Range(span)) + 2 * pad >= 2 * Min(rows)
    /\ Min(Range(span)) - 2 * pad < 2 * (Max(rows) + 1)

(* The passes of rasterize_tile, from the bottom up.                       *)
Passes == <<"interval", "symbol", "curve", "marker", "fill", "custom", "text">>

(* A row of a tile: the primitives that paint it, in order.                *)
rasterize_tile(scene, rows) ==
    LET Painters(y, kind) ==
            SelectSeq(scene, LAMBDA p : /\ p.kind = kind
                                        /\ y \in Drawn(p).rows
                                        /\ \A span \in Drawn(p).spans :
                                              scene_y_hits_tile(span, Drawn(p).pad, rows))
    IN [y \in rows |-> FlattenSeq([k \in DOMAIN Passes |-> Painters(y, Passes[k])])]

----------------------------------------------------------------------------
(* A row of a PNG.                                                         *)

Filter(type, raw, prior) ==
    [i \in DOMAIN raw |->
        CASE type = 0 -> raw[i]
          [] type = 1 -> (raw[i] - (IF i > 1 THEN raw[i - 1] ELSE 0)) % Samples
          [] type = 2 -> (raw[i] - prior[i]) % Samples]

(* None, Sub or Up, by the least sum of what is left.                      *)
filter_type(raw, prior) ==
    LET sum(type) == FoldLeft(LAMBDA a, b : a + b, 0, Filter(type, raw, prior))
    IN IF sum(1) < sum(0) /\ sum(1) <= sum(2) THEN 1
       ELSE IF sum(2) < sum(0) THEN 2 ELSE 0

FilteredRow(raw, prior) ==
    LET type == filter_type(raw, prior) IN [type |-> type, bytes |-> Filter(type, raw, prior)]

(* What a PNG reader makes of a filtered row.                              *)
Unfiltered(row, prior) ==
    IF row.type = 1
      THEN [i \in DOMAIN row.bytes |->
               FoldLeft(LAMBDA a, b : (a + b) % Samples, 0, SubSeq(row.bytes, 1, i))]
      ELSE [i \in DOMAIN row.bytes |->
               (row.bytes[i] + (IF row.type = 2 THEN prior[i] ELSE 0)) % Samples]

RECURSIVE ReadRows(_, _)
ReadRows(rows, prior) ==
    IF rows = <<>> THEN <<>>
    ELSE LET row == Unfiltered(Head(rows), prior)
         IN <<row>> \o ReadRows(Tail(rows), row)

----------------------------------------------------------------------------
(* A strip of a TIFF.                                                      *)

Repeats(data, i) ==
    Max({n \in 1 .. Min({LongestRun, Len(data) - i + 1}) :
            \A k \in i .. i + n - 1 : data[k] = data[i]})

\* A plausible slip.
LiteralUnbounded(data, i) ==
    LET stops == {n \in 0 .. Len(data) - i - 2 :
                    data[i + n] = data[i + n + 1] /\ data[i + n] = data[i + n + 2]}
    IN Max({1, Min({Len(data) - i + 1} \cup stops)})

(* Bytes up to three equal ones.                                           *)
Literal(data, i) ==
    LET stops == {n \in 0 .. Len(data) - i - 2 :
                    data[i + n] = data[i + n + 1] /\ data[i + n] = data[i + n + 2]}
    IN Max({1, Min({LongestRun, Len(data) - i + 1} \cup stops)})

RECURSIVE packbits_from(_, _)
packbits_from(data, i) ==
    IF i > Len(data) THEN <<>>
    ELSE IF i < Len(data) /\ data[i] = data[i + 1]
      THEN LET n == Repeats(data, i)
           IN <<2 * LongestRun + 1 - n, data[i]>> \o packbits_from(data, i + n)
      ELSE LET n == Literal(data, i)
           IN <<n - 1>> \o SubSeq(data, i, i + n - 1) \o packbits_from(data, i + n)

packbits_encode(data) == packbits_from(data, 1)

(* What a TIFF reader makes of it.                                         *)
RECURSIVE Unpacked(_)
Unpacked(bytes) ==
    IF bytes = <<>> THEN <<>>
    ELSE LET n == Head(bytes)
         IN IF n < LongestRun
              THEN SubSeq(bytes, 2, Min({n + 2, Len(bytes)}))
                       \o Unpacked(SubSeq(bytes, n + 3, Len(bytes)))
            ELSE IF n = LongestRun THEN Unpacked(Tail(bytes))
            ELSE [k \in 1 .. 2 * LongestRun + 1 - n |-> bytes[Min({2, Len(bytes)})]]
                     \o Unpacked(SubSeq(bytes, 3, Len(bytes)))

----------------------------------------------------------------------------
(* The loop over the tiles.                                                *)

Geometry == resolve_geometry(request.width, request.height, request.tile_height,
                             request.channels)
ImageRow(y) == request.rows[y + 1]

Init == /\ request \in Requests
        /\ tile = 0 /\ result = <<>>
        /\ prev_row = [i \in 1 .. request.width |-> 0]

(* A geometry that is refused has no first tile.                           *)
NextTile == /\ Geometry.sound /\ tile < tile_count(Geometry)
            /\ tile' = tile + 1
            /\ UNCHANGED request

Rasterize ==
    /\ request.of = "scene" /\ NextTile
    /\ result' = LET painted == rasterize_tile(request.scene, TileRows(Geometry, tile))
                 IN result \o [n \in 1 .. Cardinality(TileRows(Geometry, tile)) |->
                                  painted[tile * Geometry.tile_height + n - 1]]
    /\ UNCHANGED prev_row

\* A plausible slip.
WritePngTileFromTileAbove ==
    /\ request.of = "png" /\ NextTile
    /\ LET rows == TileRows(Geometry, tile)
           prior(y) == prev_row
       IN /\ result' = result \o [n \in 1 .. Cardinality(rows) |->
                           FilteredRow(ImageRow(Min(rows) + n - 1), prior(Min(rows) + n - 1))]
          /\ prev_row' = ImageRow(Max(rows))

(* The rows of a tile are filtered against the row above, the last row of  *)
(* the tile before for the first.                                          *)
WritePngTile ==
    /\ request.of = "png" /\ NextTile
    /\ LET rows == TileRows(Geometry, tile)
           prior(y) == IF y = Min(rows) THEN prev_row ELSE ImageRow(y - 1)
       IN /\ result' = result \o [n \in 1 .. Cardinality(rows) |->
                           FilteredRow(ImageRow(Min(rows) + n - 1), prior(Min(rows) + n - 1))]
          /\ prev_row' = ImageRow(Max(rows))

WriteTiffStrip ==
    /\ request.of = "tiff" /\ NextTile
    /\ LET rows == TileRows(Geometry, tile)
       IN result' = Append(result, packbits_encode(
              FlattenSeq([n \in 1 .. Cardinality(rows) |-> ImageRow(Min(rows) + n - 1)])))
    /\ UNCHANGED prev_row

Next == Rasterize \/ WritePngTile \/ WriteTiffStrip

Spec == Init /\ [][Next]_vars

----------------------------------------------------------------------------
Written == Geometry.sound /\ tile = tile_count(Geometry)

(* A cross that may outgrow the margin it is culled by: a custom one whose *)
(* strokes are more than a pixel thick, and a symbol of one pixel.         *)
CrossOutgrows(p) ==
    \/ p.kind = "custom" /\ p.cross /\ CrossStroke(p.size) > 1
    \/ p.kind = "symbol" /\ p.cross /\ p.size = 1

InBox(p, y) == p.lo - p.size <= 2 * y /\ 2 * (y + 1) <= p.lo + p.size

(* However the page is cut into tiles, the image is the one a single tile  *)
(* gives: what is culled from a tile paints nothing of it, and every row   *)
(* of the page is drawn once.  All that may be missing is the ends, beyond *)
(* its box, of a cross that outgrows its margin.                           *)
TilesComposeTheImage ==
    request.of = "scene" /\ Written =>
        /\ Len(result) = request.height
        /\ \A y \in 0 .. request.height - 1 :
              LET whole == FlattenSeq([k \in DOMAIN Passes |->
                             SelectSeq(request.scene,
                                       LAMBDA p : p.kind = Passes[k] /\ y \in Drawn(p).rows)])
                  row == result[y + 1]
              IN /\ row = SelectSeq(whole, LAMBDA p : Contains(row, p))
                 /\ \A p \in ToSet(whole) \ ToSet(row) : CrossOutgrows(p) /\ ~InBox(p, y)

(* A PNG reads back as the image, across the tiles' edges too.             *)
PngReadsBack ==
    request.of = "png" /\ Written =>
        ReadRows(result, [i \in 1 .. request.width |-> 0]) = request.rows

(* The strips of a TIFF read back as the image, and each grows by no more  *)
(* than a byte for every longest run.                                      *)
StripsReadBack ==
    request.of = "tiff" /\ Written =>
        /\ FlattenSeq([t \in DOMAIN result |-> Unpacked(result[t])]) = FlattenSeq(request.rows)
        /\ \A t \in DOMAIN result :
              LET size == request.width * Cardinality(TileRows(Geometry, t - 1))
              IN Len(result[t]) <= size + (size + LongestRun - 1) \div LongestRun
=============================================================================
