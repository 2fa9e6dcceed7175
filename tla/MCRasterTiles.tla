--------------------------- MODULE MCRasterTiles ---------------------------
(***************************************************************************)
(* Every primitive of a page of six rows, every image of four rows of two  *)
(* pixels, every strip of nine bytes of two values.                        *)
(* Custom crosses are also larger than the page, with one end on it.       *)
(***************************************************************************)
EXTENDS Integers, Sequences

CONSTANT CrossSizes    \* sizes of custom crosses, in pixels
VARIABLES request, tile, result, prev_row

Page == 0 .. 12

Primitives ==
    [kind : {"interval", "fill"}, lo : Page, hi : Page]
    \cup [kind : {"symbol"}, lo : Page, size : 1 .. 4, cross : BOOLEAN]
    \cup [kind : {"curve"}, lo : Page, hi : Page, thickness : 1 .. 3]
    \cup [kind : {"marker"}, lo : Page, thickness : 1 .. 3, size : {0, 1, 4}, cross : BOOLEAN]
    \cup {[kind |-> "custom", lo |-> a, hi |-> b, thickness |-> c, size |-> 0, cross |-> FALSE] :
             a \in Page, b \in Page, c \in {0, 1, 3}}
    \cup [kind : {"custom"}, lo : -26 .. 38, hi : {0}, thickness : {0}, size : CrossSizes,
          cross : BOOLEAN]
    \cup {[kind |-> "text", origin |-> o, lo |-> o - a, hi |-> o + b, top |-> o - a,
           bottom |-> o + b, size |-> 2] : o \in Page, a \in 0 .. 4, b \in 0 .. 4}

FewItemScenes ==
  {<<p>> : p \in Primitives}
    \cup {<<[kind |-> "fill", lo |-> 2, hi |-> 8],
            [kind |-> "curve", lo |-> a, hi |-> 5, thickness |-> 2],
            [kind |-> "interval", lo |-> 1, hi |-> 10]>> : a \in Page}

AllRequests ==
    [of : {"scene"}, scene : FewItemScenes, rows : {<<>>}, width : {1}, height : {6},
     tile_height : {1, 2, 4}, channels : {4}]
    \cup [of : {"png"}, scene : {<<>>}, rows : [1 .. 4 -> [1 .. 2 -> 0 .. 2]],
          width : {2}, height : {4}, tile_height : {0, 2}, channels : {1}]
    \cup [of : {"tiff"}, scene : {<<>>}, rows : [1 .. 3 -> [1 .. 3 -> {0, 1}]], width : {3},
          height : {3}, tile_height : {1, 2, 3}, channels : {1}]

INSTANCE RasterTiles WITH Requests <- AllRequests, Samples <- 3, LongestRun <- 3,
  MaximumPixels <- 9, MaximumTileBytes <- 16
=============================================================================
