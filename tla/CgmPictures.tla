---------------------------- MODULE CgmPictures -----------------------------
(***************************************************************************)
(* CgmSceneExporter::write: a prepared scene as a binary CGM metafile, one *)
(* picture for each window of the depth axis.  Scene positions are whole   *)
(* millimetres, <<x, y>> with y growing downwards; a picture's             *)
(* coordinates (VDC) are 16-bit integers, a hundredth of a millimetre      *)
(* each, or coarser where the window is too large for them.  Colours are   *)
(* grey levels.  A command is [cls, id, params], params a tuple of bytes;  *)
(* an element is what one call of the writer's polyline, polygon or text   *)
(* asks for: the commands that set its attributes, the scene points        *)
(* converted for it and the VDC points written.                            *)
(***************************************************************************)
EXTENDS Integers, Sequences, SequencesExt, FiniteSets

CONSTANTS Scenes,      \* prepared scenes that may be exported
          Options,     \* export options: page height, overlap and hatch step
          MaxWindows,  \* k_max_page_windows, 65536 in the code
          MaxPoints    \* points of one command, 8191 in the code

CgmAssumption == MaxWindows \in Nat \ {0} /\ MaxPoints \in Nat \ {0, 1}

VARIABLES scene,     \* the scene
          options,   \* the options
          phase,     \* "asked", "writing", "refused" or "done"
          at,        \* windows handled
          commands,  \* the commands of the metafile so far
          pictures,  \* per picture written: its window and its elements
          diag       \* CgmExportDiagnostics

vars == <<scene, options, phase, at, commands, pictures, diag>>

Lower(a, b) == IF a < b THEN a ELSE b
Upper(a, b) == IF a < b THEN b ELSE a
CeilDiv(a, b) == (a + b - 1) \div b

-----------------------------------------------------------------------------
(* The binary encoding. *)

MaxI16 == 32767
MinI16 == -32768
Wrap16(n) == ((n - MinI16) % 65536) + MinI16

\* append_i16_be, append_rgb and append_cgm_string (of n printable characters).
I16(n) == <<(n % 65536) \div 256, n % 256>>
Rgb(level) == <<level, level, level>>
CgmString(n) ==
  LET kept == Lower(n, 254)
  IN  <<kept>> \o [i \in 1..(kept + ((kept + 1) % 2)) |-> IF i <= kept THEN 65 ELSE 0]

Command(cls, id, params) == [cls |-> cls, id |-> id, params |-> params]

\* append_command: a short header under 31 bytes of parameters, else a long
\* one, the parameters cut to what its length field holds, and a pad byte.
MaxParams == 4 * MaxPoints + 3
Encode(c) ==
  LET kept == SubSeq(c.params, 1, Lower(Len(c.params), MaxParams))
      head == c.cls * 4096 + c.id * 32
      all  == IF Len(c.params) < 31
              THEN I16(head + Len(kept)) \o kept
              ELSE I16(head + 31) \o I16(Len(kept)) \o kept
  IN  IF Len(all) % 2 = 1 THEN Append(all, 0) ELSE all

\* A plausible slip.
ReadAtUnpadded(bytes, offset) ==
  LET header == bytes[offset + 1] * 256 + bytes[offset + 2]
      length == header % 32
  IN  [command |-> Command(header \div 4096, (header \div 32) % 128,
                           SubSeq(bytes, offset + 3, offset + 2 + length)),
       end     |-> offset + 2 + length, next |-> offset + 2 + length]

\* read_command: the command at an offset, counted from 0, and where it ends;
\* an end past the bytes is no command.
ReadAt(bytes, offset) ==
  LET header == bytes[offset + 1] * 256 + bytes[offset + 2]
      long   == header % 32 = 31
      length == IF ~long THEN header % 32
                ELSE IF offset + 4 > Len(bytes) THEN Len(bytes)
                ELSE (bytes[offset + 3] % 128) * 256 + bytes[offset + 4]
      start  == offset + (IF long THEN 4 ELSE 2)
      end    == start + length
  IN  [command |-> Command(header \div 4096, (header \div 32) % 128,
                           SubSeq(bytes, start + 1, end)),
       end |-> end, next |-> end + (end % 2)]

\* The walk of cgm_count_polylines and its siblings.
RECURSIVE ReadFrom(_, _)
ReadFrom(bytes, offset) ==
  IF offset + 2 > Len(bytes) \/ ReadAt(bytes, offset).end > Len(bytes)
  THEN <<>>
  ELSE <<ReadAt(bytes, offset).command>> \o ReadFrom(bytes, ReadAt(bytes, offset).next)

-----------------------------------------------------------------------------
(* Windows and coordinates. *)

WindowStep(o) == (o.page * (100 - o.overlap)) \div 100

\* build_depth_windows; no window where the request is refused.
Windows(s, o) ==
  LET count == CeilDiv(s.height, WindowStep(o))
      Top(i) == (i - 1) * WindowStep(o)
      Bottom(i) == IF i = count THEN s.height ELSE Lower(s.height, Top(i) + o.page)
  IN  IF o.page <= 0
      THEN <<[top |-> 0, bottom |-> s.height]>>
      ELSE IF count > MaxWindows
      THEN <<>>
      ELSE [i \in 1..count |-> [top |-> Top(i), bottom |-> Bottom(i)]]

WindowHeight(w) == w.bottom - w.top

\* A plausible slip.
ScaleOfWidth(s, w) ==
  IF s.width * 100 <= MaxI16 THEN [num |-> 100, den |-> 1] ELSE [num |-> MaxI16, den |-> s.width]

\* vdc_scale_for_window, as a fraction.
Scale(s, w) ==
  LET size == Upper(s.width, WindowHeight(w))
  IN  IF size * 100 <= MaxI16
      THEN [num |-> 100, den |-> 1]
      ELSE [num |-> MaxI16, den |-> size]

\* clamp_i16 (rounding half away from zero) of v millimetres.
Rounded(v, k) ==
  IF v >= 0 THEN (2 * v * k.num + k.den) \div (2 * k.den)
            ELSE -((2 * (-v) * k.num + k.den) \div (2 * k.den))
ToI16(v, k) == Upper(MinI16, Lower(MaxI16, Rounded(v, k)))
Overflows(v, k) == v * k.num > MaxI16 * k.den \/ v * k.num < MinI16 * k.den

\* scene_to_vdc_scaled: y counts upwards from the bottom of the window.
FromBottom(w, p) == WindowHeight(w) - (p[2] - w.top)
ToVdc(s, w, p) == <<ToI16(p[1], Scale(s, w)), ToI16(FromBottom(w, p), Scale(s, w))>>
Clamps(s, w, p) ==
  (IF Overflows(p[1], Scale(s, w)) THEN 1 ELSE 0)
  + (IF Overflows(FromBottom(w, p), Scale(s, w)) THEN 1 ELSE 0)
Extent(s, w) == <<ToI16(s.width, Scale(s, w)), ToI16(WindowHeight(w), Scale(s, w))>>

InWindow(w, y) == w.top <= y /\ y <= w.bottom
Intersects(w, top, bottom) == bottom >= w.top /\ top <= w.bottom

-----------------------------------------------------------------------------
(* The writer's drawing calls. *)

LineColour(level) == Command(5, 4, Rgb(level))
FillColour(level) == Command(5, 23, Rgb(level))
LineWidth(n, k) == Command(5, 3, I16(Upper(1, ToI16(n, [num |-> k.num, den |-> 100 * k.den]))))
SolidFill == <<Command(5, 22, I16(1)), Command(5, 30, I16(0))>>

\* A plausible slip.
ChunksApart(points) ==
  [k \in 1..CeilDiv(Len(points), MaxPoints) |->
     SubSeq(points, 1 + (k - 1) * MaxPoints, Lower(Len(points), k * MaxPoints))]

\* polyline and polygon: commands of at most MaxPoints points, each after the
\* first beginning with the last point of the one before.
Chunks(points) ==
  [k \in 1..CeilDiv(Len(points) - 1, MaxPoints - 1) |->
     SubSeq(points, 1 + (k - 1) * (MaxPoints - 1),
            Lower(Len(points), 1 + k * (MaxPoints - 1)))]

PointBytes(points) == FlattenSeq([i \in DOMAIN points |-> I16(points[i][1]) \o I16(points[i][2])])
Element(op, before, ink, asked, points) ==
  [op |-> op, before |-> before, ink |-> ink, asked |-> asked, points |-> points]

ElementCommands(e) ==
  LET chunks == Chunks(e.points)
      Drawn(id) == [k \in DOMAIN chunks |-> Command(4, id, PointBytes(chunks[k]))]
  IN  e.before \o (CASE e.op = "polyline" -> IF Len(e.points) < 2 THEN <<>> ELSE Drawn(1)
                     [] e.op = "polygon" -> IF Len(e.points) < 3 THEN <<>> ELSE Drawn(7)
                     [] e.op = "text" -> <<Command(4, 4, PointBytes(e.points) \o I16(1)
                                                         \o CgmString(e.ink))>>
                     [] e.op = "set" -> <<>>)

\* The rectangle between two corners, as write hands it to rectangle_fill and
\* rectangle_polyline: its sizes are narrowed to 16 bits.
Rectangle(s, w, corners) ==
  LET tl == ToVdc(s, w, corners[1])
      br == ToVdc(s, w, corners[2])
      Distance(i) == IF tl[i] < br[i] THEN br[i] - tl[i] ELSE tl[i] - br[i]
  IN  [x |-> Lower(tl[1], br[1]), y |-> Lower(tl[2], br[2]),
       w |-> Wrap16(Distance(1)), h |-> Wrap16(Distance(2))]
Corners(r) ==
  <<<<r.x, r.y>>, <<Wrap16(r.x + r.w), r.y>>, <<Wrap16(r.x + r.w), Wrap16(r.y + r.h)>>,
    <<r.x, Wrap16(r.y + r.h)>>>>
Ring(r) == IF r.w <= 0 \/ r.h <= 0 THEN <<>> ELSE Corners(r)

\* A plausible slip.
HatchUnclipped(b, step) ==
  [i \in 1..((b.height + b.width) \div step + 1) |->
     LET c == b.top - b.left - b.width + (i - 1) * step
     IN  <<<<b.left, b.left + c>>, <<b.left + b.width, b.left + b.width + c>>>>]

\* emit_hatch: the diagonals of a box, step apart, cut to the box.
Hatch(b, step) ==
  LET right == b.left + b.width
      bottom == b.top + b.height
      Diagonal(i) == b.top - right + (i - 1) * step
      Low(c) == IF b.left + c < b.top THEN <<b.top - c, b.top>> ELSE <<b.left, b.left + c>>
      High(c) == IF right + c > bottom THEN <<bottom - c, bottom>> ELSE <<right, right + c>>
      lines == [i \in 1..((b.height + b.width) \div step + 1) |->
                  <<Low(Diagonal(i)), High(Diagonal(i))>>]
  IN  SelectSeq(lines, LAMBDA l : l[1] # l[2])

HatchElements(s, w, o, b, level) ==
  LET lines == Hatch(b, o.hatch)
      pens  == <<LineColour(level \div 2), LineWidth(15, Scale(s, w))>>
      Line(l) == Element("polyline", <<>>, level \div 2, l, <<ToVdc(s, w, l[1]), ToVdc(s, w, l[2])>>)
  IN  <<Element("set", pens, 0, <<>>, <<>>)>> \o [i \in DOMAIN lines |-> Line(lines[i])]

-----------------------------------------------------------------------------
(* One picture, kind by kind, in the order write draws them. *)

EachOf(items, Drawn(_)) == FlattenSeq([i \in DOMAIN items |-> Drawn(items[i])])

BoxOf(item) == <<<<item.left, item.top>>, <<item.left + item.width, item.top + item.height>>>>
Reaches(w, item) == Intersects(w, item.top, item.top + item.height)

Intervals(s, w, o) ==
  LET One(iv) ==
        IF ~Reaches(w, iv) THEN <<>>
        ELSE LET ring == Ring(Rectangle(s, w, BoxOf(iv)))
             IN  <<Element("polygon",
                           <<FillColour(iv.fill)>> \o (IF ring = <<>> THEN <<>> ELSE SolidFill),
                           iv.fill, BoxOf(iv), ring)>>
                 \o (IF iv.pattern THEN HatchElements(s, w, o, iv, iv.fill) ELSE <<>>)
  IN  EachOf(s.intervals, One)

Fills(s, w, o) ==
  LET One(f) ==
        IF Len(f.ring) < 3 \/ ~Reaches(w, f) THEN <<>>
        ELSE <<Element("polygon", <<FillColour(f.fill)>> \o SolidFill, f.fill, f.ring,
                       [i \in DOMAIN f.ring |-> ToVdc(s, w, f.ring[i])])>>
             \o (IF f.pattern THEN HatchElements(s, w, o, f, f.fill) ELSE <<>>)
  IN  EachOf(s.fills, One)

\* A plausible slip.
FramesInTheLastPen(s, w) ==
  LET One(t) == <<Element("polyline", <<>>, 180, BoxOf(t),
                          LET ring == Ring(Rectangle(s, w, BoxOf(t))) IN ring \o SubSeq(ring, 1, 1))>>
  IN  EachOf(s.tracks, One)

Frames(s, w) ==
  LET Cut(t) == <<<<t.left, Upper(t.top, w.top)>>,
                  <<t.left + t.width, Lower(t.top + t.height, w.bottom)>>>>
      One(t) ==
        IF ~Reaches(w, t) THEN <<>>
        ELSE LET ring == Ring(Rectangle(s, w, Cut(t)))
             IN  <<Element("polyline", <<LineColour(180), LineWidth(10, Scale(s, w))>>, 180,
                           Cut(t), ring \o SubSeq(ring, 1, 1))>>
  IN  EachOf(s.tracks, One)

\* A plausible slip.
HeaderPlaceUnstacked(s, w, i) ==
  LET mine == {t \in ToSet(s.tracks) : t.id = s.headers[i].track}
  IN  IF mine = {}
      THEN <<2, w.top + 5>>
      ELSE LET t == CHOOSE t \in mine : TRUE IN <<t.left + 1, Upper(t.top, w.top) + 4>>

HeaderPlace(s, w, i) ==
  LET entry == s.headers[i]
      mine  == {t \in ToSet(s.tracks) : t.id = entry.track}
      line  == Cardinality({j \in 1..(i - 1) : s.headers[j].track = entry.track})
  IN  IF mine = {}
      THEN <<2, w.top + 5>>
      ELSE LET t == CHOOSE t \in mine : TRUE
           IN  <<t.left + 1, Upper(t.top, w.top) + 4 + 4 * line>>

\* The ink of a text element is the number of printable ASCII characters left.
Headers(s, w) ==
  LET One(i) ==
        IF ~InWindow(w, HeaderPlace(s, w, i)[2]) THEN <<>>
        ELSE <<Element(IF s.headers[i].latin = 0 THEN "set" ELSE "text", <<>>,
                       s.headers[i].latin, <<HeaderPlace(s, w, i)>>,
                       <<ToVdc(s, w, HeaderPlace(s, w, i))>>)>>
      pens == <<Command(5, 14, Rgb(40)), Command(5, 15, I16(Upper(1, ToI16(3, Scale(s, w)))))>>
  IN  <<Element("set", pens, 0, <<>>, <<>>)>>
      \o FlattenSeq([i \in DOMAIN s.headers |-> One(i)])
HeadersCut(s, w) ==
  Cardinality({i \in DOMAIN s.headers : InWindow(w, HeaderPlace(s, w, i)[2])
                                        /\ s.headers[i].other > 0})

\* A plausible slip.
RunsBridged(segment, w) == <<SelectSeq(segment, LAMBDA p : InWindow(w, p[2]))>>

\* The stretches of a segment whose points all lie in the window.
Runs(segment, w) ==
  LET Inside(i) == i \in DOMAIN segment /\ InWindow(w, segment[i][2])
      starts == SetToSortSeq({i \in DOMAIN segment : Inside(i) /\ ~Inside(i - 1)}, <)
      End(i) == CHOOSE j \in i..Len(segment) :
                  ~Inside(j + 1) /\ \A k \in i..j : Inside(k)
  IN  [n \in DOMAIN starts |-> SubSeq(segment, starts[n], End(starts[n]))]

Curves(s, w) ==
  LET Line(layer, run) == Element("polyline", <<>>, layer.colour, run,
                                  [i \in DOMAIN run |-> ToVdc(s, w, run[i])])
      Segment(layer, segment) ==
        IF Len(segment) < 2 THEN <<>>
        ELSE LET runs == Runs(segment, w) IN [n \in DOMAIN runs |-> Line(layer, runs[n])]
      One(layer) ==
        IF ~layer.visible \/ layer.segments = <<>> THEN <<>>
        ELSE <<Element("set", <<LineColour(layer.colour), LineWidth(layer.width, Scale(s, w))>>,
                       0, <<>>, <<>>)>>
             \o FlattenSeq([g \in DOMAIN layer.segments |-> Segment(layer, layer.segments[g])])
  IN  EachOf(s.curves, One)

Body(s, w, o) == Intervals(s, w, o) \o Fills(s, w, o) \o Frames(s, w) \o Headers(s, w) \o Curves(s, w)

-----------------------------------------------------------------------------
(* The export. *)

Preamble ==
  <<Command(0, 1, CgmString(13)), Command(1, 1, I16(3)), Command(1, 2, CgmString(38)),
    Command(1, 3, I16(0)), Command(1, 4, I16(16)), Command(1, 7, I16(8)),
    Command(1, 10, Rgb(0) \o Rgb(255)), Command(1, 11, I16(-1))>>
PictureHead(s, w) ==
  <<Command(0, 3, CgmString(5)), Command(2, 2, I16(1)),
    Command(2, 6, PointBytes(<<<<0, 0>>, Extent(s, w)>>)), Command(2, 7, Rgb(255)),
    Command(0, 4, <<>>)>>
PictureCommands(s, w, body) ==
  PictureHead(s, w) \o FlattenSeq([i \in DOMAIN body |-> ElementCommands(body[i])])
  \o <<Command(0, 5, <<>>)>>

ClampsOf(s, w, body) ==
  FoldLeft(LAMBDA n, e : FoldLeft(LAMBDA k, p : k + Clamps(s, w, p), n, e.asked), 0, body)
Shown(items, w) == SelectSeq(items, LAMBDA item : Reaches(w, item))
ShownFills(items, w) == SelectSeq(items, LAMBDA item : Len(item.ring) >= 3 /\ Reaches(w, item))

NoDiagnostics ==
  [patterns |-> 0, flattened |-> 0, text |-> 0, intervals |-> 0, fills |-> 0,
   pictures |-> 0, clamped |-> 0]
\* A layer's alpha is looked at for intervals and fills only; a pen's is dropped.
Counted(d, s, w, body) ==
  LET drawn == Shown(s.intervals, w) \o ShownFills(s.fills, w)
      Number(Test(_)) == Len(SelectSeq(drawn, Test))
  IN  [patterns  |-> d.patterns + Number(LAMBDA item : item.pattern),
       flattened |-> d.flattened + Number(LAMBDA item : item.alpha),
       text      |-> d.text + HeadersCut(s, w),
       intervals |-> d.intervals + Len(Shown(s.intervals, w)),
       fills     |-> d.fills + Len(ShownFills(s.fills, w)),
       pictures  |-> d.pictures + 1,
       clamped   |-> d.clamped + ClampsOf(s, w, body)]

Init ==
  /\ scene \in Scenes /\ options \in Options
  /\ phase = "asked" /\ at = 0
  /\ commands = <<>> /\ pictures = <<>> /\ diag = NoDiagnostics

Refuse ==
  /\ phase = "asked"
  /\ scene.width <= 0 \/ scene.height <= 0 \/ Windows(scene, options) = <<>>
  /\ phase' = "refused"
  /\ UNCHANGED <<scene, options, at, commands, pictures, diag>>

Start ==
  /\ phase = "asked"
  /\ scene.width > 0 /\ scene.height > 0 /\ Windows(scene, options) # <<>>
  /\ phase' = "writing" /\ commands' = Preamble
  /\ UNCHANGED <<scene, options, at, pictures, diag>>

WritePicture ==
  /\ phase = "writing" /\ at < Len(Windows(scene, options))
  /\ LET w == Windows(scene, options)[at + 1]
         body == Body(scene, w, options)
     IN  IF Extent(scene, w)[1] <= 0 \/ Extent(scene, w)[2] <= 0
         THEN UNCHANGED <<commands, pictures, diag>>
         ELSE /\ commands' = commands \o PictureCommands(scene, w, body)
              /\ pictures' = Append(pictures, [window |-> w, body |-> body])
              /\ diag' = Counted(diag, scene, w, body)
  /\ at' = at + 1
  /\ UNCHANGED <<scene, options, phase>>

Finish ==
  /\ phase = "writing" /\ at = Len(Windows(scene, options))
  /\ phase' = "done" /\ commands' = Append(commands, Command(0, 2, <<>>))
  /\ UNCHANGED <<scene, options, at, pictures, diag>>

Next == Refuse \/ Start \/ WritePicture \/ Finish

Spec == Init /\ [][Next]_vars

-----------------------------------------------------------------------------
(* Properties. *)

\* A reader that follows the length fields finds the commands that were written,
\* whatever their parameters' length: cgm_count_polylines and its siblings see
\* the metafile the writer meant (append_command against read_command).
MetafileReadsBack ==
  phase = "done" => ReadFrom(FlattenSeq([i \in DOMAIN commands |-> Encode(commands[i])]), 0) = commands

EdgesOf(points) == {<<points[i], points[i + 1]>> : i \in 1..(Len(points) - 1)}

\* On every page the polylines of a curve draw exactly the edges of the curve
\* whose two ends lie on the page: none is lost where a long line is cut into
\* commands, and none bridges a stretch that left the page.
CurvesKeepTheirEdges ==
  \A p \in ToSet(pictures) :
    \A layer \in {l \in ToSet(scene.curves) : l.visible} :
      LET owned == {<<ToVdc(scene, p.window, e[1]), ToVdc(scene, p.window, e[2])>> :
                      e \in {e \in UNION {EdgesOf(g) : g \in ToSet(layer.segments)} :
                               \A end \in ToSet(e) : InWindow(p.window, end[2])}}
          lines == UNION {EdgesOf(q) : q \in UNION {ToSet(Chunks(e.points)) :
                            e \in {e \in ToSet(p.body) : /\ e.op = "polyline"
                                                         /\ e.ink = layer.colour
                                                         /\ Len(e.points) >= 2}}}
      IN  owned = lines

\* What lies on a page lies inside the extent its picture declares, and none of
\* it is clamped: a window too large for 16-bit hundredths of a millimetre is
\* drawn in coarser units.
PageFitsItsExtent ==
  \A p \in ToSet(pictures) : \A e \in ToSet(p.body) : \A point \in ToSet(e.asked) :
    InWindow(p.window, point[2]) =>
      LET v == ToVdc(scene, p.window, point)
      IN  /\ Clamps(scene, p.window, point) = 0
          /\ \A i \in 1..2 : v[i] \in 0..Extent(scene, p.window)[i]

\* The lines that stand for a pattern stay inside the box they fill.
HatchStaysInside ==
  \A item \in ToSet(scene.intervals) \cup ToSet(scene.fills) :
    item.pattern =>
      \A line \in ToSet(Hatch(item, options.hatch)) : \A p \in ToSet(line) :
        /\ p[1] \in item.left..(item.left + item.width)
        /\ p[2] \in item.top..(item.top + item.height)

\* Each line is drawn in its own colour and each area filled with its own,
\* whatever pen a hatch, a frame or another curve selected before.
InkIsOwn ==
  \A p \in ToSet(pictures) :
    LET Level(id, i) ==
          LET set == FlattenSeq([j \in 1..i |-> SelectSeq(p.body[j].before,
                                                          LAMBDA c : c.cls = 5 /\ c.id = id)])
          IN  IF set = <<>> THEN 0 ELSE set[Len(set)].params[1]
    IN  \A i \in DOMAIN p.body :
          LET e == p.body[i]
          IN  (e.points # <<>> =>
                 CASE e.op = "polyline" -> Level(4, i) = e.ink
                   [] e.op = "polygon" -> Level(23, i) = e.ink
                   [] OTHER -> TRUE)

\* Two labels of one page never share a place.
HeadersApart ==
  \A p \in ToSet(pictures) : \A i, j \in DOMAIN p.body :
    i # j /\ p.body[i].op = "text" /\ p.body[j].op = "text" => p.body[i].points # p.body[j].points

\* Every interval a page counts as emitted is painted there, over all of the page
\* it covers.
IntervalsArePainted ==
  \A p \in ToSet(pictures) : \A iv \in ToSet(Shown(scene.intervals, p.window)) :
    \E e \in ToSet(p.body) : e.op = "polygon" /\ e.asked = BoxOf(iv) /\ e.points # <<>>

\* An edge of a visible curve is drawn on some page.
EveryEdgeOnSomePage ==
  phase = "done" =>
    \A layer \in {l \in ToSet(scene.curves) : l.visible} :
      \A g \in ToSet(layer.segments) : \A e \in EdgesOf(g) :
        \E p \in ToSet(pictures) : \A end \in ToSet(e) : InWindow(p.window, end[2])
=============================================================================
