---------------------------- MODULE MCPdfStream ----------------------------
(***************************************************************************)
(* One item of every kind and paint, up to two of them on two tracks and *)
(* two pages.                                                              *)
(***************************************************************************)
EXTENDS Naturals

CONSTANTS opaque, half, none
VARIABLES clipped, layered, pages, page, track, inside, layer, count, file

Item(k, colour, alpha, pattern, width, dash, shape, form, tile) ==
  [kind |-> k, colour |-> colour, alpha |-> alpha, pattern |-> pattern, width |-> width,
   dash |-> dash, shape |-> shape, form |-> form, tile |-> tile, at |-> <<0, 0>>]
MCRgba == {"a"}
MCLayerNames == <<"track-0", "track-1">>

MCItems ==
  {Item("interval", "red", half, none, "thin", none, none, none, none),
   Item("interval", "red", opaque, "brick", "thin", none, none, none, none),
   Item("marker", "blue", opaque, none, "thick", none, none, none, none),
   Item("marker", "red", half, none, "thick", none, "cross", none, none),
   Item("symbol", "green", half, none, "thin", none, "disc", none, none),
   Item("curve", "blue", opaque, none, "thin", none, none, none, none),
   Item("fill", "red", opaque, "sand", "thin", none, none, none, none),
   Item("image", none, opaque, none, "thin", none, none, none, "a"),
   Item("image", none, opaque, none, "thin", none, none, none, "b"),
   Item("custom", "green", opaque, none, "thick", "dashed", none, "polyline", none),
   Item("custom", "red", opaque, "brick", "thin", none, none, "polygon", none),
   Item("custom", "red", opaque, none, "thin", none, "cross", "symbol", none),
   Item("text", "blue", half, none, "thin", none, none, none, none)}

INSTANCE PdfStream WITH Items <- MCItems, Opaque <- opaque, Nothing <- none,
  Rgba <- MCRgba, LayerNames <- MCLayerNames, MaxPages <- 2, MaxItems <- 2
=============================================================================
