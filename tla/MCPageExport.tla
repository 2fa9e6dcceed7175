---------------------------- MODULE MCPageExport ----------------------------
(***************************************************************************)
(* Scenes of sixteen and ten rows, one item of every kind near a page cut, *)
(* printed on pages of eight rows.                                         *)
(***************************************************************************)
EXTENDS PageExport

Item(id, kind, track, top, bottom, pad, reach, segments, glyphs) ==
  [id |-> id, kind |-> kind, track |-> track, top |-> top, bottom |-> bottom,
   pad |-> pad, reach |-> reach, segments |-> segments, glyphs |-> glyphs]
Track(id, top, bottom) == [id |-> id, top |-> top, bottom |-> bottom]

Shapes(track, y) ==
  <<Item("interval", "interval", track, y, y + 3, 0, 0, <<>>, <<>>),
    Item("fill", "fill", track, y - 2, y - 1, 0, 0, <<>>, <<>>),
    Item("image", "image", track, y, y + 2, 0, 0, <<>>, <<>>),
    Item("custom", "custom", track, y - 1, y, 0, 0, <<>>, <<>>)>>
Strokes(track, y) ==
  <<Item("marker", "marker", track, y, y, 2, 1, <<>>, <<>>),
    Item("symbol", "symbol", track, y, y, 2, 1, <<>>, <<>>),
    Item("curve", "curve", track, 0, 0, 0, 0, <<<<0, y - 1, y + 3>>, <<y + 4, y + 5, 15>>>>, <<>>),
    Item("text", "text", track, y - 1, y + 1, 1, 1, <<>>, <<y - 1, y, y + 1>>)>>

MCScenes ==
  {[height |-> h, headers |-> n, items |-> Shapes("t1", y) \o Strokes("t2", y),
    tracks |-> <<Track("t1", 0, h), Track("t2", 0, h)>>] :
     h \in {10, 16}, n \in {0, 1}, y \in 3..9}
MCPageSpecs ==
  {[mode |-> mode, printable |-> 8 * scale, margin |-> margin, scale |-> scale,
    overlap |-> overlap, legend |-> legend, budget |-> budget, pure |-> pure] :
     mode \in {"fixed", "continuous"}, margin \in {0, 4}, scale \in {1, 2},
     overlap \in {0, 50}, legend \in BOOLEAN, budget \in {0, 5}, pure \in BOOLEAN}

ASSUME PagesAssumption
=============================================================================
