---------------------------- MODULE MCPatchEdits ----------------------------
(***************************************************************************)
(* Two raw curves of different units, a derived curve, a mask and a mark;  *)
(* two tracks with a fill in the first and other layers in the second.     *)
(***************************************************************************)
EXTENDS Naturals, Sequences

CONSTANTS axis, g, r, d, m, k, t1, t2, s1, s2, l1, l2, fill, text, n1, n2, None
VARIABLES document, presentation, entry, refused, commands

MCIds == {g, r, d, m, k, t1, t2, s1, s2, l1, l2, fill, text, n1, n2}

Curve(id, unit, derived, samples) ==
  [kind |-> "curve", id |-> id, unit |-> unit, derived |-> derived, samples |-> samples,
   value |-> 0]
Mask(id, curve, fits) ==
  [kind |-> "mask", id |-> id, curve |-> curve, fits |-> fits, value |-> 0]
Mark(id, track, value) == [kind |-> "mark", id |-> id, track |-> track, value |-> value]
Track(id, z) == [kind |-> "track", id |-> id, z |-> z, look |-> 0]
Scale(id, track, unit) ==
  [kind |-> "scale", id |-> id, track |-> track, unit |-> unit, mode |-> "linear",
   range |-> "any"]
Layer(id, track, curve, scale, z) ==
  [kind |-> "layer", id |-> id, track |-> track, curve |-> curve, scale |-> scale,
   z |-> z, look |-> 0]

Document == [axis |-> axis,
             curves |-> {Curve(g, "api", None, "positive"), Curve(r, "ohm", None, "mixed"),
                         Curve(d, "api", g, "none")},
             masks |-> {Mask(m, g, TRUE)},
             marks |-> {Mark(k, None, 0)}]
Plain == [tracks |-> <<Track(t1, 0), Track(t2, 1)>>, scales |-> <<Scale(s1, t1, "api")>>,
          layers |-> <<Layer(l1, t1, g, s1, 0)>>, fills |-> {}, others |-> {}]
Rich == [Plain EXCEPT !.layers = @ \o <<Layer(l2, t1, d, s1, 1)>>,
                      !.fills = {[kind |-> "fill", id |-> fill, track |-> t1,
                                  upper |-> l1, lower |-> l2]},
                      !.others = {[kind |-> "other", id |-> text, track |-> t2,
                                   of |-> "text"]}]
\* validate_document lets a mask have a raw curve's id.
MCDocuments == {Document, [Document EXCEPT !.masks = @ \cup {Mask(r, g, TRUE)}]}
MCPresentations == {None, Rich}
MCTemplates == {Plain}
MCOffered == {Mark(k, None, 1), Mark(n1, t2, 0), Mask(m, r, TRUE), Mask(n1, d, FALSE),
              Curve(d, "api", g, "mixed"), Curve(n1, "ohm", d, "positive"),
              Curve(r, "ohm", None, "none"), Curve(r, "ohm", g, "none"), Layer(l1, t2, g, s1, 0),
              Mark(m, None, 0), Curve(t2, "api", g, "mixed"),
              [Scale(s2, t2, "api") EXCEPT !.mode = "logarithmic"]}

INSTANCE PatchEdits WITH Ids <- MCIds, InitialDocuments <- MCDocuments,
  InitialPresentations <- MCPresentations, Templates <- MCTemplates,
  Offered <- MCOffered, ChosenIds <- {n1, r}, MaxEdits <- 2, MaxCommands <- 3
=============================================================================
