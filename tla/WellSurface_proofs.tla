------------------------- MODULE WellSurface_proofs -------------------------
(***************************************************************************)
(* Proofs about WellSurface, for any wells, documents, layouts, windows    *)
(* and alignments: the visible wells are at the shared window, the cached  *)
(* surface is the one that would be composed now, and aligned wells are    *)
(* drawn at the target's depths.                                           *)
(***************************************************************************)
EXTENDS WellSurface, SessionSlot_proofs, Loops_proofs, FiniteSetTheorems

(***************************************************************************)
(* Sessions whose maps agree with each other: slots are sound, a well that *)
(* is prepared on the spot has its scene in its own presentation, and no   *)
(* window is shared by no wells.                                           *)
(***************************************************************************)
DrawnOnTheSpot(slot) ==
  slot.preparation.state = "none" /\ slot.scene # None
    => slot.scene.presentation = slot.presentation

Sessions ==
  {s \in SessionMaps : /\ \A w \in Wells : SlotOK(s.slots[w]) /\ DrawnOnTheSpot(s.slots[w])
                       /\ s.shared # None => s.layout # <<>>}

\* From s to t nothing between wells is changed.
SameSurface(s, t) ==
  /\ t.layout = s.layout
  /\ t.shared = s.shared
  /\ t.overlays = s.overlays
  /\ t.same_generation = s.same_generation

\* Nor any other well than w.
TouchesOne(s, t, w) ==
  /\ SameSurface(s, t)
  /\ \A o \in Wells : o # w => t.slots[o] = s.slots[o] /\ t.transforms[o] = s.transforms[o]

(***************************************************************************)
(* From s to t, wells that are pinned without their address being recycled *)
(* were pinned before and have their scene and document, wells that are    *)
(* not remapped have their transform, and the generation moves with the    *)
(* overlays.                                                               *)
(***************************************************************************)
KeepsPins(s, t) ==
  /\ s.recycled \subseteq t.recycled /\ s.remapped \subseteq t.remapped
  /\ t.pinned \ t.recycled \subseteq s.pinned
  /\ t.same_generation => s.same_generation /\ t.overlays = s.overlays
  /\ \A w \in t.pinned \ t.recycled : /\ t.slots[w].scene = s.slots[w].scene
                                      /\ t.slots[w].document = s.slots[w].document
  /\ \A w \in Wells \ t.remapped : t.transforms[w] = s.transforms[w]

-----------------------------------------------------------------------------
(***************************************************************************)
(* The commands on one well.                                               *)
(***************************************************************************)
LEMMA NothingKept ==
  ASSUME NEW s \in Sessions
  PROVE  /\ Fail(s) \in Sessions /\ ~Fail(s).ok
         /\ SameSurface(s, Fail(s)) /\ KeepsPins(s, Fail(s))
         /\ Fail(s).slots = s.slots /\ Fail(s).transforms = s.transforms
  BY DEF Sessions, SessionMaps, Fail, TouchesOne, SameSurface, KeepsPins

\* A typed slot in a typed session.
LEMMA SlotReplaced ==
  ASSUME NEW s \in Sessions, NEW w \in Wells, NEW slot \in Slots({0, 1}),
         SlotOK(slot), DrawnOnTheSpot(slot)
  PROVE  LET t == [s EXCEPT !.slots[w] = slot] IN
         /\ t \in Sessions
         /\ TouchesOne(s, t, w)
         /\ t.slots[w] = slot
         /\ t.transforms = s.transforms /\ t.pinned = s.pinned /\ t.ok = s.ok
         /\ t.crosshairs = s.crosshairs
         /\ t.recycled = s.recycled /\ t.remapped = s.remapped
  BY DEF Sessions, SessionMaps, TouchesOne, SameSurface

\* Crosshairs and pins beside it.
Repinned(s, w, P, R) == [s EXCEPT !.crosshairs[w] = None, !.pinned = P, !.recycled = R]

LEMMA PinsReplaced ==
  ASSUME NEW s \in Sessions, NEW w \in Wells, NEW P \in SUBSET Wells, NEW R \in SUBSET Wells
  PROVE  LET t == Repinned(s, w, P, R) IN
         /\ t \in Sessions
         /\ SameSurface(s, t)
         /\ t.slots = s.slots /\ t.transforms = s.transforms /\ t.ok = s.ok
         /\ t.pinned = P /\ t.recycled = R /\ t.remapped = s.remapped
  BY DEF Repinned, Sessions, SessionMaps, TouchesOne, SameSurface

LEMMA SetDocumentKeeps ==
  ASSUME NEW s \in Sessions, NEW w \in Wells, NEW doc \in Documents
  PROVE  LET t == SetDocumentIn(s, w, doc) IN
         /\ t \in Sessions /\ TouchesOne(s, t, w) /\ KeepsPins(s, t) /\ t.ok = s.ok
<1> DEFINE slot == AfterSetDocument(s.slots[w], doc, "none", 1)
           r == [s EXCEPT !.slots[w] = slot]
           t == Repinned(r, w, s.pinned \ {w}, s.recycled)
<1>1. s.slots[w] \in Slots({0, 1}) /\ SlotOK(s.slots[w])
  BY DEF Sessions, SessionMaps
<1>2. slot \in Slots({0, 1}) /\ SlotOK(slot)
  BY <1>1, AfterSetDocumentOK
<1>3. DrawnOnTheSpot(slot)
  BY DEF DrawnOnTheSpot, AfterSetDocument
<1> HIDE DEF slot
<1>4. r \in Sessions /\ TouchesOne(s, r, w) /\ r.pinned = s.pinned /\ r.ok = s.ok
      /\ r.transforms = s.transforms /\ r.recycled = s.recycled /\ r.remapped = s.remapped
  BY <1>2, <1>3, SlotReplaced
<1>5. s.pinned \ {w} \in SUBSET Wells /\ s.recycled \in SUBSET Wells
  BY DEF Sessions, SessionMaps
<1>6. t \in Sessions /\ SameSurface(r, t) /\ t.slots = r.slots /\ t.transforms = r.transforms
      /\ t.pinned = s.pinned \ {w} /\ t.ok = r.ok
      /\ t.recycled = s.recycled /\ t.remapped = r.remapped
  <2> HIDE DEF r
  <2> QED BY <1>4, <1>5, PinsReplaced
<1>7. SetDocumentIn(s, w, doc) = t
  BY DEF SetDocumentIn, slot, Repinned, Sessions, SessionMaps
<1> HIDE DEF r, t
<1>8. TouchesOne(s, t, w)
  BY <1>4, <1>6 DEF TouchesOne, SameSurface
<1>9. KeepsPins(s, t)
  BY <1>4, <1>6, <1>8 DEF KeepsPins, TouchesOne, SameSurface, Sessions, SessionMaps
<1> QED BY <1>4, <1>6, <1>7, <1>8, <1>9

LEMMA SetPresentationKeeps ==
  ASSUME NEW s \in Sessions, NEW w \in Wells, NEW p \in Presentations,
         NEW reuse \in BOOLEAN
  PROVE  LET t == SetPresentationIn(s, w, p, reuse) IN
         /\ t \in Sessions /\ TouchesOne(s, t, w)
         /\ KeepsPins(s, t)
         /\ t.transforms = s.transforms
         /\ t.slots[w].document = s.slots[w].document
         /\ t.ok => s.ok /\ t.slots[w].presentation = p
<1> DEFINE slot == AfterSetPresentation(s.slots[w], p, 1)
           P == IF PreparedInline(s.slots[w]) THEN PinnedAfterNewScene(s, w, reuse) ELSE s.pinned
           R == IF PreparedInline(s.slots[w]) THEN RecycledAfterNewScene(s, w, reuse)
                ELSE s.recycled
           r == [s EXCEPT !.slots[w] = slot]
           t == Repinned(r, w, P, R)
<1>1. s.slots[w] \in Slots({0, 1}) /\ SlotOK(s.slots[w]) /\ DrawnOnTheSpot(s.slots[w])
  BY DEF Sessions, SessionMaps
<1>2. CASE s.slots[w].document = None \/ s.slots[w].preparation.state = "unavailable"
  BY <1>2, NothingKept DEF SetPresentationIn, TouchesOne
<1>3. CASE ~(s.slots[w].document = None \/ s.slots[w].preparation.state = "unavailable")
  <2>1. slot \in Slots({0, 1}) /\ SlotOK(slot)
    BY <1>1, <1>3, AfterSetPresentationOK
  <2>2. DrawnOnTheSpot(slot)
    BY <1>1 DEF DrawnOnTheSpot, AfterSetPresentation, PreparedInline, Slots
  <2>3. slot.document = s.slots[w].document /\ slot.presentation = p
        /\ (~PreparedInline(s.slots[w]) => slot.scene = s.slots[w].scene)
    BY <1>1 DEF AfterSetPresentation, Slots
  <2>4. P \in SUBSET Wells /\ R \in SUBSET Wells
    BY DEF PinnedAfterNewScene, RecycledAfterNewScene, Sessions, SessionMaps
  <2>5. s.recycled \subseteq R /\ P \ R \subseteq s.pinned
        /\ (PreparedInline(s.slots[w]) => w \notin P \ R)
    BY DEF PinnedAfterNewScene, RecycledAfterNewScene
  <2>6. SetPresentationIn(s, w, p, reuse) = t
    BY <1>3 DEF SetPresentationIn, Repinned, Sessions, SessionMaps
  <2> HIDE DEF slot, P, R
  <2>7. r \in Sessions /\ TouchesOne(s, r, w) /\ r.pinned = s.pinned /\ r.ok = s.ok
        /\ r.slots[w] = slot /\ r.transforms = s.transforms /\ r.remapped = s.remapped
    BY <2>1, <2>2, SlotReplaced
  <2>8. t \in Sessions /\ SameSurface(r, t) /\ t.slots = r.slots /\ t.transforms = r.transforms
        /\ t.pinned = P /\ t.ok = r.ok /\ t.recycled = R /\ t.remapped = r.remapped
    <3> HIDE DEF r
    <3> QED BY <2>4, <2>7, PinsReplaced
  <2> HIDE DEF r, t
  <2>9. TouchesOne(s, t, w)
    BY <2>7, <2>8 DEF TouchesOne, SameSurface
  <2>10. KeepsPins(s, t)
    BY <2>3, <2>4, <2>5, <2>7, <2>8, <2>9 DEF KeepsPins, TouchesOne, SameSurface
  <2> QED BY <2>3, <2>6, <2>7, <2>8, <2>9, <2>10
<1> QED BY <1>2, <1>3

LEMMA SetViewportMetricsKeeps ==
  ASSUME NEW s \in Sessions, NEW w \in Wells, NEW v \in Viewports
  PROVE  LET t == SetViewportMetricsIn(s, w, v) IN
         /\ t \in Sessions /\ TouchesOne(s, t, w) /\ KeepsPins(s, t)
         /\ t.transforms = s.transforms
         /\ t.slots[w].document = s.slots[w].document
         /\ t.slots[w].presentation = s.slots[w].presentation
         /\ t.ok => s.ok /\ t.slots[w].viewport = v
<1> DEFINE slot == AfterSetViewportMetrics(s.slots[w], v, 1)
           t == [s EXCEPT !.slots[w] = slot]
<1>1. s.slots[w] \in Slots({0, 1}) /\ SlotOK(s.slots[w]) /\ DrawnOnTheSpot(s.slots[w])
  BY DEF Sessions, SessionMaps
<1>2. CASE s.slots[w].document = None \/ s.slots[w].viewport = None
  BY <1>2, NothingKept DEF SetViewportMetricsIn, TouchesOne
<1>3. CASE ~(s.slots[w].document = None \/ s.slots[w].viewport = None)
  <2>1. slot \in Slots({0, 1}) /\ SlotOK(slot)
    BY <1>1, <1>3, AfterSetViewportMetricsOK
  <2>2. /\ slot.document = s.slots[w].document /\ slot.presentation = s.slots[w].presentation
        /\ slot.scene = s.slots[w].scene /\ slot.viewport = v
        /\ slot.preparation = s.slots[w].preparation
    BY <1>1 DEF AfterSetViewportMetrics, Slots
  <2>3. DrawnOnTheSpot(slot)
    BY <1>1, <2>2 DEF DrawnOnTheSpot
  <2>4. SetViewportMetricsIn(s, w, v) = t
    BY <1>3 DEF SetViewportMetricsIn, Sessions, SessionMaps
  <2> HIDE DEF slot
  <2>5. t \in Sessions /\ TouchesOne(s, t, w) /\ t.pinned = s.pinned /\ t.ok = s.ok
        /\ t.slots[w] = slot /\ t.transforms = s.transforms
        /\ t.recycled = s.recycled /\ t.remapped = s.remapped
    BY <2>1, <2>3, SlotReplaced
  <2> HIDE DEF t
  <2>6. KeepsPins(s, t)
    BY <2>2, <2>5 DEF KeepsPins, TouchesOne, SameSurface, Sessions, SessionMaps
  <2> QED BY <2>2, <2>4, <2>5, <2>6
<1> QED BY <1>2, <1>3

LEMMA TransformStored ==
  ASSUME NEW s \in Sessions, NEW w \in Wells, NEW x \in Transforms
  PROVE  LET t == [s EXCEPT !.transforms[w] = x, !.remapped = @ \cup {w}] IN
         /\ t \in Sessions /\ TouchesOne(s, t, w) /\ KeepsPins(s, t)
         /\ t.slots = s.slots /\ t.transforms[w] = x /\ t.ok = s.ok /\ t.pinned = s.pinned
  BY DEF Sessions, SessionMaps, TouchesOne, SameSurface, KeepsPins, Transforms

LEMMA SetDepthTransformKeeps ==
  ASSUME NEW s \in Sessions, NEW w \in Wells, NEW x \in Transforms, NEW reuse \in BOOLEAN
  PROVE  LET t == SetDepthTransformIn(s, w, x, reuse) IN
         /\ t \in Sessions /\ TouchesOne(s, t, w)
         /\ KeepsPins(s, t)
         /\ t.slots[w].document = s.slots[w].document
         /\ t.ok => /\ s.ok
                    /\ t.transforms[w] = x
                    /\ t.slots[w].presentation = x \/ t.slots[w].presentation = None
<1> DEFINE stored == [s EXCEPT !.transforms[w] = x, !.remapped = @ \cup {w}]
           t == SetPresentationIn(stored, w, x, reuse)
<1>1. stored \in Sessions /\ TouchesOne(s, stored, w) /\ KeepsPins(s, stored)
      /\ stored.slots = s.slots /\ stored.transforms[w] = x /\ stored.ok = s.ok
  BY TransformStored
<1>2. CASE s.slots[w].document = None
  BY <1>2, NothingKept DEF SetDepthTransformIn, TouchesOne
<1>3. CASE s.slots[w].document # None /\ s.slots[w].presentation = None
  <2>1. SetDepthTransformIn(s, w, x, reuse) = stored
    BY <1>3 DEF SetDepthTransformIn
  <2> HIDE DEF stored
  <2> QED BY <2>1, <1>1, <1>3
<1>4. CASE s.slots[w].document # None /\ s.slots[w].presentation # None
  <2>1. SetDepthTransformIn(s, w, x, reuse) = t
    BY <1>4 DEF SetDepthTransformIn
  <2> HIDE DEF stored
  <2>2. /\ t \in Sessions /\ TouchesOne(stored, t, w) /\ KeepsPins(stored, t)
        /\ t.transforms = stored.transforms
        /\ t.slots[w].document = stored.slots[w].document
        /\ t.ok => stored.ok /\ t.slots[w].presentation = x
    BY <1>1, SetPresentationKeeps DEF Transforms
  <2> HIDE DEF t
  <2>3. TouchesOne(s, t, w) /\ KeepsPins(s, t)
    BY <1>1, <2>2 DEF TouchesOne, SameSurface, KeepsPins
  <2> QED BY <2>1, <2>2, <2>3, <1>1
<1> QED BY <1>2, <1>3, <1>4

\* Well w is drawn at the target's depths, unless it has no presentation yet.
FollowsTarget(t, w, target) ==
  /\ t.transforms[w] = Alignment[t.slots[w].document, t.slots[target].document]
  /\ t.slots[w].presentation = t.transforms[w] \/ t.slots[w].presentation = None

LEMMA AlignOneKeeps ==
  ASSUME NEW s \in Sessions, NEW w \in Wells, NEW target \in Wells, w # target,
         s.slots[target].document # None, NEW reuse \in BOOLEAN
  PROVE  LET t == AlignOne(s, w, target, reuse) IN
         /\ t \in Sessions /\ TouchesOne(s, t, w)
         /\ KeepsPins(s, t)
         /\ t.slots[w].document = s.slots[w].document
         /\ t.ok => s.ok /\ FollowsTarget(t, w, target)
<1> DEFINE transform == Alignment[s.slots[w].document, s.slots[target].document]
           t == SetDepthTransformIn(s, w, transform, reuse)
<1>1. CASE s.slots[w].document = None \/ transform = None
  BY <1>1, NothingKept DEF AlignOne, TouchesOne
<1>2. CASE ~(s.slots[w].document = None \/ transform = None)
  <2>1. AlignOne(s, w, target, reuse) = t
    BY <1>2 DEF AlignOne
  <2>2. transform \in Transforms
    <3>1. s.slots[w].document \in Documents /\ s.slots[target].document \in Documents
      BY <1>2 DEF Sessions, SessionMaps, Slots
    <3> QED BY <3>1, <1>2, SurfaceAssumption
  <2> HIDE DEF transform
  <2>3. /\ t \in Sessions /\ TouchesOne(s, t, w)
        /\ KeepsPins(s, t)
        /\ t.slots[w].document = s.slots[w].document
        /\ t.ok => /\ s.ok
                   /\ t.transforms[w] = transform
                   /\ t.slots[w].presentation = transform \/ t.slots[w].presentation = None
    BY <2>2, SetDepthTransformKeeps
  <2> HIDE DEF t
  <2>4. t.slots[target] = s.slots[target]
    BY <2>3 DEF TouchesOne
  <2>5. t.ok => FollowsTarget(t, w, target)
    BY <2>3, <2>4 DEF FollowsTarget, transform
  <2> QED BY <2>1, <2>3, <2>5
<1> QED BY <1>1, <1>2

-----------------------------------------------------------------------------
(***************************************************************************)
(* The commands that go from well to well.                                 *)
(***************************************************************************)
LEMMA MovesAreDefined ==
  ASSUME NEW s \in Sessions, NEW v \in Viewports
  PROVE  WellsMoved(s, v) =
           [i \in 0 .. Len(s.layout) |->
              IF i = 0 THEN s
              ELSE IF WellsMoved(s, v)[i - 1].ok /\ s.layout[i].visible
              THEN SetViewportMetricsIn(WellsMoved(s, v)[i - 1], s.layout[i].well, v)
              ELSE WellsMoved(s, v)[i - 1]]
<1> DEFINE n == Len(s.layout)
           Next1(i, r) == IF r.ok /\ s.layout[i].visible
                          THEN SetViewportMetricsIn(r, s.layout[i].well, v) ELSE r
           step == [i \in 1 .. n |-> [r \in Sessions |-> Next1(i, r)]]
<1>1. s.layout \in Seq(Placements) /\ n \in Nat
  BY DEF Sessions, SessionMaps
<1>2. ASSUME NEW i \in 1 .. n, NEW r \in Sessions PROVE Next1(i, r) \in Sessions
  <2>1. s.layout[i].well \in Wells
    <3>1. s.layout[i] \in Placements
      BY <1>1
    <3> QED BY <3>1 DEF Placements
  <2> QED BY <2>1, SetViewportMetricsKeeps
<1>3. step \in Steps(Sessions, n)
  BY <1>2 DEF Steps
<1>4. PICK f : IsLoop(f, Sessions, s, n, step)
  <2> HIDE DEF step, n
  <2> QED BY <1>1, <1>3, LoopsEnd
<1>5. f = [i \in 0 .. n |-> IF i = 0 THEN s
                            ELSE IF f[i - 1].ok /\ s.layout[i].visible
                            THEN SetViewportMetricsIn(f[i - 1], s.layout[i].well, v)
                            ELSE f[i - 1]]
  <2>1. ASSUME NEW i \in 0 .. n, i # 0 PROVE step[i][f[i - 1]] = Next1(i, f[i - 1])
    <3>1. i \in 1 .. n /\ i - 1 \in 0 .. n
      BY <1>1, <2>1
    <3>2. f[i - 1] \in Sessions
      BY <3>1, <1>4 DEF IsLoop
    <3> QED BY <3>1, <3>2
  <2> HIDE DEF step
  <2> QED BY <1>1, <1>4, <2>1 DEF IsLoop
<1> QED BY <1>5 DEF WellsMoved

\* From s to t windows move, and nothing is drawn another way.
SameDrawing(s, t, w) ==
  /\ t.transforms[w] = s.transforms[w]
  /\ t.slots[w].document = s.slots[w].document
  /\ t.slots[w].presentation = s.slots[w].presentation

SameDrawings(s, t) == \A w \in Wells : SameDrawing(s, t, w)

(***************************************************************************)
(* However far a broadcast comes, the session stays sound; and when it     *)
(* comes to the end, every visible well is at the window.                  *)
(***************************************************************************)
LEMMA BroadcastReaches ==
  ASSUME NEW s \in Sessions, NEW v \in Viewports
  PROVE  LET t == Broadcast(s, v) IN
         /\ t \in Sessions /\ SameSurface(s, t) /\ KeepsPins(s, t) /\ SameDrawings(s, t)
         /\ t.ok => \A w \in VisibleMembers(s.layout) : t.slots[w].viewport = v
<1> DEFINE n == Len(s.layout)
           f == WellsMoved(s, v)
           Reaches(i, t) ==
             /\ t \in Sessions /\ SameSurface(s, t) /\ KeepsPins(s, t) /\ SameDrawings(s, t)
             /\ t.ok => \A j \in 1 .. i : s.layout[j].visible =>
                          t.slots[s.layout[j].well].viewport = v
           G == {i \in 0 .. n : Reaches(i, f[i])}
<1>1. s.layout \in Seq(Placements) /\ n \in Nat
  BY DEF Sessions, SessionMaps
<1>2. ASSUME NEW i \in 1 .. n PROVE s.layout[i].well \in Wells
  <2>1. s.layout[i] \in Placements
    BY <1>1
  <2> QED BY <2>1 DEF Placements
<1>3. f[0] = s
  BY <1>1, MovesAreDefined
<1>4. ASSUME NEW i \in 1 .. n
      PROVE  f[i] = IF f[i - 1].ok /\ s.layout[i].visible
                    THEN SetViewportMetricsIn(f[i - 1], s.layout[i].well, v)
                    ELSE f[i - 1]
  BY <1>1, MovesAreDefined
<1> HIDE DEF n, f
<1>5. 0 \in G
  BY <1>1, <1>3 DEF SameSurface, KeepsPins, SameDrawings, SameDrawing, SameDrawing
<1>6. ASSUME NEW i \in 1 .. n, i - 1 \in G PROVE i \in G
  <2> DEFINE r == f[i - 1]
             w == s.layout[i].well
             t == SetViewportMetricsIn(r, w, v)
  <2>1. Reaches(i - 1, r)
    BY <1>6
  <2>2. w \in Wells
    BY <1>2
  <2> HIDE DEF r
  <2>3. CASE ~(r.ok /\ s.layout[i].visible)
    <3>1. f[i] = r
      BY <1>4, <2>3 DEF r
    <3>2. r.ok => \A j \in 1 .. i : s.layout[j].visible =>
                    r.slots[s.layout[j].well].viewport = v
      <4> SUFFICES ASSUME r.ok, NEW j \in 1 .. i, s.layout[j].visible
                   PROVE  r.slots[s.layout[j].well].viewport = v
        OBVIOUS
      <4>1. j # i
        BY <2>3
      <4>2. j \in 1 .. i - 1
        BY <4>1, <1>1
      <4> QED BY <4>2, <2>1
    <3> QED BY <3>1, <3>2, <2>1, <1>1
  <2>4. CASE r.ok /\ s.layout[i].visible
    <3> HIDE DEF w
    <3>1. f[i] = t
      BY <1>4, <2>4 DEF r, w
    <3>2. /\ t \in Sessions /\ TouchesOne(r, t, w) /\ KeepsPins(r, t)
          /\ t.transforms = r.transforms
          /\ t.slots[w].document = r.slots[w].document
          /\ t.slots[w].presentation = r.slots[w].presentation
          /\ t.ok => r.ok /\ t.slots[w].viewport = v
      BY <2>1, <2>2, SetViewportMetricsKeeps
    <3> HIDE DEF t
    <3>3. SameSurface(s, t) /\ KeepsPins(s, t)
      BY <2>1, <3>2 DEF SameSurface, TouchesOne, KeepsPins
    <3>4. SameDrawings(s, t)
      BY <2>1, <3>2 DEF SameDrawings, SameDrawing, TouchesOne
    <3>5. t.ok => \A j \in 1 .. i : s.layout[j].visible =>
                    t.slots[s.layout[j].well].viewport = v
      <4> SUFFICES ASSUME t.ok, NEW j \in 1 .. i, s.layout[j].visible
                   PROVE  t.slots[s.layout[j].well].viewport = v
        OBVIOUS
      <4>1. CASE s.layout[j].well = w
        BY <4>1, <3>2
      <4>2. CASE s.layout[j].well # w
        <5>1. j \in 1 .. i - 1 /\ j \in 1 .. n
          BY <4>2, <1>1 DEF w
        <5>2. r.slots[s.layout[j].well].viewport = v
          BY <5>1, <2>1, <3>2
        <5>3. s.layout[j].well \in Wells
          BY <5>1, <1>2
        <5> QED BY <5>2, <5>3, <4>2, <3>2 DEF TouchesOne
      <4> QED BY <4>1, <4>2
    <3> QED BY <3>1, <3>2, <3>3, <3>4, <3>5, <1>1
  <2> QED BY <2>3, <2>4
<1>7. n \in G
  <2>1. \A i \in 1 .. n : i - 1 \in G => i \in G
    BY <1>6
  <2> HIDE DEF G
  <2>2. 0 .. n \subseteq G
    BY <1>1, <1>5, <2>1, UpTo
  <2> QED BY <2>2, <1>1
<1>8. CASE VisibleMembers(s.layout) = {}
  <2>1. Broadcast(s, v) = Fail(s)
    BY <1>8 DEF Broadcast
  <2>2. SameDrawings(s, Fail(s))
    BY NothingKept DEF SameDrawings, SameDrawing
  <2> QED BY <2>1, <2>2, NothingKept
<1>9. CASE VisibleMembers(s.layout) # {}
  <2>1. Broadcast(s, v) = f[n]
    BY <1>9 DEF Broadcast, f, n
  <2>2. Reaches(n, f[n])
    BY <1>7
  <2>3. ASSUME NEW w \in VisibleMembers(s.layout)
        PROVE  \E j \in 1 .. n : s.layout[j].visible /\ s.layout[j].well = w
    BY <1>1 DEF VisibleMembers, n
  <2> QED BY <2>1, <2>2, <2>3
<1> QED BY <1>8, <1>9

\* A window that is shared is recorded, and then reaches the visible wells.
LEMMA WindowIsShared ==
  ASSUME NEW s \in Sessions, NEW v \in Viewports, s.layout # <<>>
  PROVE  LET t == SetSharedDepthViewportIn(s, v) IN
         /\ t \in Sessions /\ t.layout = s.layout /\ t.shared = v
         /\ KeepsPins(s, t) /\ SameDrawings(s, t)
         /\ t.ok => \A w \in VisibleMembers(t.layout) : t.slots[w].viewport = v
<1> DEFINE r == [s EXCEPT !.shared = v]
           t == Broadcast(r, v)
<1>1. r \in Sessions /\ r.layout = s.layout /\ r.shared = v /\ KeepsPins(s, r)
      /\ SameDrawings(s, r)
  BY DEF Sessions, SessionMaps, KeepsPins, SameDrawings, SameDrawing, SameDrawing
<1>2. SetSharedDepthViewportIn(s, v) = t
  BY DEF SetSharedDepthViewportIn
<1> HIDE DEF r
<1>3. /\ t \in Sessions /\ SameSurface(r, t) /\ KeepsPins(r, t) /\ SameDrawings(r, t)
      /\ t.ok => \A w \in VisibleMembers(r.layout) : t.slots[w].viewport = v
  BY <1>1, BroadcastReaches
<1> HIDE DEF t
<1>4. KeepsPins(s, t) /\ SameDrawings(s, t) /\ t.layout = s.layout /\ t.shared = v
  BY <1>1, <1>3 DEF KeepsPins, SameDrawings, SameDrawing, SameSurface
<1> QED BY <1>1, <1>2, <1>3, <1>4

LEMMA AlignmentsAreDefined ==
  ASSUME NEW s \in Sessions, NEW target \in Wells, s.slots[target].document # None,
         NEW wells \in Seq(Wells \ {target}), NEW reuse \in BOOLEAN
  PROVE  WellsAligned(s, target, wells, reuse) =
           [i \in 0 .. Len(wells) |->
              IF i = 0 THEN s
              ELSE IF WellsAligned(s, target, wells, reuse)[i - 1].ok
              THEN AlignOne(WellsAligned(s, target, wells, reuse)[i - 1], wells[i], target, reuse)
              ELSE WellsAligned(s, target, wells, reuse)[i - 1]]
<1> DEFINE n == Len(wells)
           S == {r \in Sessions : r.slots[target].document # None}
           Next1(i, r) == IF r.ok THEN AlignOne(r, wells[i], target, reuse) ELSE r
           step == [i \in 1 .. n |-> [r \in S |-> Next1(i, r)]]
<1>1. n \in Nat /\ \A i \in 1 .. n : wells[i] \in Wells /\ wells[i] # target
  OBVIOUS
<1>2. ASSUME NEW i \in 1 .. n, NEW r \in S PROVE Next1(i, r) \in S
  <2> DEFINE t == AlignOne(r, wells[i], target, reuse)
  <2>1. t \in Sessions /\ TouchesOne(r, t, wells[i])
    BY <1>1, AlignOneKeeps
  <2>2. t.slots[target] = r.slots[target]
    BY <1>1, <2>1 DEF TouchesOne
  <2> HIDE DEF t
  <2>3. t \in S
    BY <2>1, <2>2
  <2> QED BY <2>3 DEF t
<1>3. step \in Steps(S, n)
  BY <1>2 DEF Steps
<1>4. s \in S
  OBVIOUS
<1>5. PICK f : IsLoop(f, S, s, n, step)
  <2> HIDE DEF step, n, S
  <2>1. n \in Nat
    BY <1>1
  <2> QED BY <2>1, <1>3, <1>4, LoopsEnd
<1>6. f = [i \in 0 .. n |-> IF i = 0 THEN s
                            ELSE IF f[i - 1].ok THEN AlignOne(f[i - 1], wells[i], target, reuse)
                            ELSE f[i - 1]]
  <2>1. ASSUME NEW i \in 0 .. n, i # 0 PROVE step[i][f[i - 1]] = Next1(i, f[i - 1])
    <3>1. i \in 1 .. n /\ i - 1 \in 0 .. n
      BY <1>1, <2>1
    <3>2. f[i - 1] \in S
      BY <3>1, <1>5 DEF IsLoop
    <3> HIDE DEF S
    <3> QED BY <3>1, <3>2
  <2> HIDE DEF step
  <2> QED BY <1>1, <1>5, <2>1 DEF IsLoop
<1> QED BY <1>6 DEF WellsAligned

(***************************************************************************)
(* However many wells are aligned, the target is left alone and no         *)
(* document is changed; when none refuses, all of them follow the target.  *)
(***************************************************************************)
LEMMA AlignmentReaches ==
  ASSUME NEW s \in Sessions, NEW target \in Wells, s.slots[target].document # None,
         NEW wells \in Seq(Wells \ {target}), NEW reuse \in BOOLEAN
  PROVE  LET t == WellsAligned(s, target, wells, reuse)[Len(wells)] IN
         /\ t \in Sessions /\ SameSurface(s, t)
         /\ KeepsPins(s, t)
         /\ \A w \in Wells : w \notin ToSet(wells) => SameDrawing(s, t, w)
         /\ t.ok => s.ok /\ \A w \in ToSet(wells) : FollowsTarget(t, w, target)
<1> DEFINE n == Len(wells)
           f == WellsAligned(s, target, wells, reuse)
           Same(t) == \A w \in Wells : w \notin ToSet(wells) => SameDrawing(s, t, w)
           Reaches(i, t) ==
             /\ t \in Sessions /\ SameSurface(s, t) /\ Same(t)
             /\ KeepsPins(s, t)
             /\ t.ok => s.ok /\ \A j \in 1 .. i : FollowsTarget(t, wells[j], target)
           G == {i \in 0 .. n : Reaches(i, f[i])}
<1>1. n \in Nat /\ \A i \in 1 .. n : wells[i] \in Wells /\ wells[i] # target
  OBVIOUS
<1>9. target \notin ToSet(wells) /\ \A i \in 1 .. n : wells[i] \in ToSet(wells)
  BY <1>1 DEF ToSet
<1>2. f[0] = s
  BY <1>1, AlignmentsAreDefined
<1>3. ASSUME NEW i \in 1 .. n
      PROVE  f[i] = IF f[i - 1].ok THEN AlignOne(f[i - 1], wells[i], target, reuse)
                    ELSE f[i - 1]
  BY <1>1, AlignmentsAreDefined
<1> HIDE DEF n, f
<1>4. 0 \in G
  BY <1>1, <1>2 DEF SameSurface, KeepsPins, SameDrawing
<1>5. ASSUME NEW i \in 1 .. n, i - 1 \in G PROVE i \in G
  <2> DEFINE r == f[i - 1]
             w == wells[i]
             t == AlignOne(r, w, target, reuse)
  <2>1. Reaches(i - 1, r)
    BY <1>5
  <2>2. w \in Wells /\ w # target
    BY <1>1
  <2> HIDE DEF r
  <2>3. CASE ~r.ok
    <3>1. f[i] = r
      BY <1>3, <2>3 DEF r
    <3> QED BY <3>1, <2>1, <2>3, <1>1
  <2>4. CASE r.ok
    <3> HIDE DEF w
    <3>1. f[i] = t
      BY <1>3, <2>4 DEF r, w
    <3>2. r.slots[target].document # None
      BY <2>1, <1>9 DEF SameDrawing
    <3>3. /\ t \in Sessions /\ TouchesOne(r, t, w)
          /\ KeepsPins(r, t)
          /\ t.slots[w].document = r.slots[w].document
          /\ t.ok => r.ok /\ FollowsTarget(t, w, target)
      BY <2>1, <2>2, <3>2, AlignOneKeeps
    <3> HIDE DEF t
    <3>4. SameSurface(s, t) /\ Same(t)
      <4>1. SameSurface(s, t)
        BY <2>1, <2>2, <3>3 DEF SameSurface, TouchesOne
      <4>2. w \in ToSet(wells)
        BY <1>9 DEF w
      <4> QED BY <4>1, <4>2, <2>1, <3>3 DEF TouchesOne, SameDrawing
    <3>5. KeepsPins(s, t)
      BY <2>1, <3>3 DEF KeepsPins
    <3>6. t.slots[target] = r.slots[target]
      BY <2>2, <3>3 DEF TouchesOne
    <3>7. ASSUME t.ok, NEW j \in 1 .. i PROVE FollowsTarget(t, wells[j], target)
      <4>1. CASE wells[j] = w
        BY <4>1, <3>3, <3>7
      <4>2. CASE wells[j] # w
        <5>1. j \in 1 .. i - 1 /\ j \in 1 .. n
          BY <4>2, <1>1 DEF w
        <5>2. FollowsTarget(r, wells[j], target)
          BY <5>1, <2>1, <3>3, <3>7
        <5>3. wells[j] \in Wells
          BY <5>1, <1>1
        <5>4. t.slots[wells[j]] = r.slots[wells[j]]
              /\ t.transforms[wells[j]] = r.transforms[wells[j]]
          BY <5>3, <4>2, <3>3 DEF TouchesOne
        <5> QED BY <5>2, <5>4, <3>6 DEF FollowsTarget
      <4> QED BY <4>1, <4>2
    <3>8. t.ok => s.ok /\ \A j \in 1 .. i : FollowsTarget(t, wells[j], target)
      BY <3>3, <3>7, <2>1
    <3>9. Reaches(i, t)
      BY <3>3, <3>4, <3>5, <3>8
    <3> HIDE DEF Reaches
    <3> QED BY <3>1, <3>9, <1>1
  <2> QED BY <2>3, <2>4
<1>6. n \in G
  <2>1. \A i \in 1 .. n : i - 1 \in G => i \in G
    BY <1>5
  <2> HIDE DEF G
  <2>2. 0 .. n \subseteq G
    BY <1>1, <1>4, <2>1, UpTo
  <2> QED BY <2>2, <1>1
<1>7. Reaches(n, f[n])
  BY <1>6
<1>8. ASSUME NEW w \in ToSet(wells) PROVE \E j \in 1 .. n : wells[j] = w
  BY DEF ToSet, n
<1> QED BY <1>7, <1>8 DEF f, n

-----------------------------------------------------------------------------
(***************************************************************************)
(* The layout.                                                             *)
(***************************************************************************)
LEMMA CursorsAreDefined ==
  ASSUME NEW s \in Sessions, NEW wells \in Seq(Placements)
  PROVE  /\ \A i \in 1 .. Len(wells) : PackedWidth(s, wells[i]) \in Int
         /\ \A i \in 0 .. Len(wells) : Cursor(s, wells)[i] \in Int
<1> DEFINE n == Len(wells)
           width(i) == PackedWidth(s, wells[i])
           step == [i \in 1 .. n |-> [left \in Int |-> left + width(i) + Gap]]
<1>1. n \in Nat /\ SceneWidth \in Int /\ DefaultWidth \in Int /\ Gap \in Int
  BY SurfaceAssumption
<1>2. ASSUME NEW i \in 1 .. n PROVE width(i) \in Int
  <2>1. wells[i] \in Placements
    OBVIOUS
  <2> QED BY <1>1, <2>1 DEF PackedWidth, Placements
<1>3. step \in Steps(Int, n)
  <2> HIDE DEF width
  <2> QED BY <1>1, <1>2 DEF Steps
<1>4. PICK f : IsLoop(f, Int, 0, n, step)
  <2> HIDE DEF step, n
  <2>1. n \in Nat
    BY <1>1
  <2>2. 0 \in Int
    OBVIOUS
  <2> QED BY <2>1, <2>2, <1>3, LoopsEnd
<1>5. f = [i \in 0 .. n |-> IF i = 0 THEN 0 ELSE f[i - 1] + width(i) + Gap]
  <2>1. ASSUME NEW i \in 0 .. n, i # 0 PROVE step[i][f[i - 1]] = f[i - 1] + width(i) + Gap
    <3>1. i \in 1 .. n /\ i - 1 \in 0 .. n
      BY <1>1, <2>1
    <3>2. f[i - 1] \in Int
      BY <3>1, <1>4 DEF IsLoop
    <3> HIDE DEF width
    <3> QED BY <3>1, <3>2
  <2> HIDE DEF step, width
  <2> QED BY <1>1, <1>4, <2>1 DEF IsLoop
<1>6. Cursor(s, wells) = [i \in 0 .. n |-> IF i = 0 THEN 0
                                          ELSE Cursor(s, wells)[i - 1] + width(i) + Gap]
  BY <1>5 DEF Cursor
<1>7. \A i \in 0 .. n : Cursor(s, wells)[i] \in Int
  <2> DEFINE G == {i \in 0 .. n : Cursor(s, wells)[i] \in Int}
  <2> HIDE DEF width
  <2>1. 0 \in G
    BY <1>1, <1>6
  <2>2. ASSUME NEW i \in 1 .. n, i - 1 \in G PROVE i \in G
    BY <1>1, <1>2, <1>6, <2>2
  <2>3. \A i \in 1 .. n : i - 1 \in G => i \in G
    BY <2>2
  <2> HIDE DEF G
  <2>4. 0 .. n \subseteq G
    BY <1>1, <2>1, <2>3, UpTo
  <2> QED BY <2>4 DEF G
<1> QED BY <1>2, <1>7

LEMMA PackedIsALayout ==
  ASSUME NEW s \in Sessions, NEW wells \in Seq(Placements)
  PROVE  Packed(s, wells) \in Seq(Placements) /\ (wells # <<>> => Packed(s, wells) # <<>>)
<1>1. ASSUME NEW i \in 1 .. Len(wells)
      PROVE  [wells[i] EXCEPT !.left = Cursor(s, wells)[i - 1],
                              !.width = PackedWidth(s, wells[i])] \in Placements
  <2>1. wells[i] \in Placements
    OBVIOUS
  <2>2. Cursor(s, wells)[i - 1] \in Int /\ PackedWidth(s, wells[i]) \in Int
    <3>1. i - 1 \in 0 .. Len(wells)
      OBVIOUS
    <3> QED BY <3>1, CursorsAreDefined
  <2> QED BY <2>1, <2>2 DEF Placements
<1>2. DOMAIN wells = 1 .. Len(wells) /\ Len(wells) \in Nat
  OBVIOUS
<1> DEFINE place(i) == [wells[i] EXCEPT !.left = Cursor(s, wells)[i - 1],
                                       !.width = PackedWidth(s, wells[i])]
<1>3. Packed(s, wells) = [i \in 1 .. Len(wells) |-> place(i)]
  BY <1>2 DEF Packed
<1>4. \A i \in 1 .. Len(wells) : place(i) \in Placements
  BY <1>1
<1> HIDE DEF place
<1>5. Packed(s, wells) \in Seq(Placements) /\ Len(Packed(s, wells)) = Len(wells)
  BY <1>2, <1>3, <1>4
<1> QED BY <1>5

LEMMA SetWellLayoutKeeps ==
  ASSUME NEW s \in Sessions, NEW wells \in Seq(Placements), NEW pack \in BOOLEAN
  PROVE  LET t == SetWellLayoutIn(s, wells, pack) IN
         /\ t \in Sessions /\ KeepsPins(s, t) /\ t.slots = s.slots
         /\ t.transforms = s.transforms
         /\ t.shared = None \/ t.shared = s.shared
         /\ t.ok => s.ok /\ (wells # <<>> => t.layout # <<>>)
<1> DEFINE layout == IF pack THEN Packed(s, wells) ELSE wells
<1>1. CASE wells = <<>>
  BY <1>1 DEF SetWellLayoutIn, ClearWellLayoutIn, Sessions, SessionMaps, KeepsPins
<1>2. CASE wells # <<>> /\ \E w \in Members(wells) : s.slots[w].document = None
  BY <1>2, NothingKept DEF SetWellLayoutIn, SameSurface
<1>3. CASE wells # <<>> /\ ~(\E w \in Members(wells) : s.slots[w].document = None)
  <2>1. layout \in Seq(Placements) /\ layout # <<>>
    BY <1>3, PackedIsALayout
  <2>2. SetWellLayoutIn(s, wells, pack) = [s EXCEPT !.layout = layout, !.same_generation = FALSE]
    BY <1>3 DEF SetWellLayoutIn
  <2> HIDE DEF layout
  <2> QED BY <2>1, <2>2 DEF Sessions, SessionMaps, KeepsPins
<1> QED BY <1>1, <1>2, <1>3

LEMMA PinsAreKept ==
  ASSUME NEW s, NEW r, NEW t, KeepsPins(s, r), KeepsPins(r, t)
  PROVE  KeepsPins(s, t)
  BY DEF KeepsPins

LEMMA OthersAreWells ==
  ASSUME NEW target \in Wells
  PROVE  OtherWells(target) \in Seq(Wells \ {target})
<1> DEFINE S == Wells \ {target}
           n == Cardinality(S)
<1>1. IsFiniteSet(S)
  BY FS_RemoveElement, SurfaceAssumption
<1>2. n \in Nat /\ ExistsBijection(1 .. n, S)
  BY <1>1, FS_CardinalityType
<1>3. PICK f \in [1 .. n -> S] : IsInjective(f)
  BY <1>2 DEF ExistsBijection, Bijection, Injection
<1>4. SetToSeq(S) \in [1 .. n -> S]
  <2> HIDE DEF S
  <2> QED BY <1>3 DEF SetToSeq, n
<1>5. SetToSeq(S) \in Seq(S)
  <2> HIDE DEF S, n
  <2> QED BY <1>2, <1>4
<1> QED BY <1>5 DEF OtherWells

\* The target is at reference depth, unless it has no presentation yet.
AtReference(t, target) ==
  /\ t.transforms[target] = Identity
  /\ t.slots[target].presentation = Identity \/ t.slots[target].presentation = None

(***************************************************************************)
(* An alignment touches no other well; when it succeeds, the wells follow  *)
(* the target, and if it shares a window they are at it.                   *)
(***************************************************************************)
LEMMA AlignWellsKeeps ==
  ASSUME NEW s \in Sessions, NEW target \in Wells, NEW wells \in Seq(Wells \ {target}),
         NEW v, v \in Viewports \/ v = None, NEW reuse \in BOOLEAN
  PROVE  LET t == AlignWellsToMarkersIn(s, target, wells, v, reuse) IN
         /\ t \in Sessions
         /\ KeepsPins(s, t)
         /\ \A w \in Wells : w # target /\ w \notin ToSet(wells) => SameDrawing(s, t, w)
         /\ t.ok => /\ AtReference(t, target)
                    /\ \A w \in ToSet(wells) : FollowsTarget(t, w, target)
         /\ t.ok /\ v # None => /\ t.shared = v
                                /\ \A w \in VisibleMembers(t.layout) : t.slots[w].viewport = v
<1> DEFINE first == SetDepthTransformIn(s, target, Identity, reuse)
           moved == WellsAligned(first, target, wells, reuse)[Len(wells)]
           both == <<target>> \o wells
           places == [i \in DOMAIN both |->
                        [well |-> both[i], left |-> 0, width |-> 0, visible |-> TRUE]]
           placed == IF moved.layout = <<>> THEN PlaceWells(moved, both) ELSE moved
           t == SetSharedDepthViewportIn(placed, v)
           Apart(r) == \A w \in Wells : w # target /\ w \notin ToSet(wells) => SameDrawing(s, r, w)
           Aligned(r) == /\ AtReference(r, target)
                         /\ \A w \in ToSet(wells) : FollowsTarget(r, w, target)
<1>1. CASE s.slots[target].document = None \/ wells = <<>>
  <2>1. Apart(Fail(s))
    BY NothingKept DEF SameDrawing
  <2> QED BY <1>1, <2>1, NothingKept DEF AlignWellsToMarkersIn
<1>2. CASE ~(s.slots[target].document = None \/ wells = <<>>)
  <2>1. Identity \in Transforms
    BY SurfaceAssumption
  <2>2. /\ first \in Sessions /\ TouchesOne(s, first, target)
        /\ KeepsPins(s, first)
        /\ first.slots[target].document = s.slots[target].document
        /\ first.ok => AtReference(first, target)
    BY <2>1, SetDepthTransformKeeps DEF AtReference
  <2>3. target \notin ToSet(wells) /\ ToSet(wells) \subseteq Wells
    BY DEF ToSet
  <2> HIDE DEF first
  <2>4. /\ moved \in Sessions
        /\ KeepsPins(first, moved)
        /\ \A w \in Wells : w \notin ToSet(wells) => SameDrawing(first, moved, w)
        /\ moved.ok => first.ok /\ \A w \in ToSet(wells) : FollowsTarget(moved, w, target)
    BY <1>2, <2>2, AlignmentReaches
  <2> HIDE DEF moved
  <2>5. Apart(moved)
    BY <2>2, <2>4 DEF SameDrawing, TouchesOne
  <2>6. KeepsPins(s, moved)
    BY <2>2, <2>4, PinsAreKept
  <2>7. moved.ok => Aligned(moved)
    <3>1. SameDrawing(first, moved, target)
      BY <2>3, <2>4
    <3> QED BY <3>1, <2>2, <2>4 DEF SameDrawing, AtReference
  <2>8. CASE ~moved.ok \/ v = None
    <3>1. AlignWellsToMarkersIn(s, target, wells, v, reuse) = moved
      BY <1>2, <2>8 DEF AlignWellsToMarkersIn, moved, first
    <3> QED BY <3>1, <2>4, <2>5, <2>6, <2>7, <2>8
  <2>9. CASE moved.ok /\ v # None
    <3>1. places \in Seq(Placements) /\ places # <<>>
      <4>1. both \in Seq(Wells) /\ Len(both) \in Nat /\ Len(both) # 0
        OBVIOUS
      <4> HIDE DEF both
      <4>2. DOMAIN both = 1 .. Len(both) /\ \A i \in DOMAIN both : both[i] \in Wells
        BY <4>1
      <4>3. places \in [1 .. Len(both) -> Placements]
        BY <4>2 DEF Placements
      <4>4. places \in Seq(Placements) /\ Len(places) = Len(both)
        <5> HIDE DEF places
        <5> QED BY <4>1, <4>3
      <4> QED BY <4>1, <4>4
    <3>2. PlaceWells(moved, both) = SetWellLayoutIn(moved, places, TRUE)
      BY DEF PlaceWells
    <3> HIDE DEF places, both
    <3>3. /\ placed \in Sessions /\ KeepsPins(moved, placed) /\ placed.slots = moved.slots
          /\ placed.transforms = moved.transforms
          /\ placed.ok => placed.layout # <<>>
      <4>1. CASE moved.layout = <<>>
        <5>1. placed = SetWellLayoutIn(moved, places, TRUE)
          BY <4>1, <3>2
        <5> HIDE DEF placed
        <5> QED BY <5>1, <2>4, <2>9, <3>1, SetWellLayoutKeeps
      <4>2. CASE moved.layout # <<>>
        BY <4>2, <2>4 DEF KeepsPins
      <4> QED BY <4>1, <4>2
    <3>4. CASE ~placed.ok
      <4>1. AlignWellsToMarkersIn(s, target, wells, v, reuse) = placed
        BY <1>2, <2>9, <3>4 DEF AlignWellsToMarkersIn, moved, first, both
      <4> HIDE DEF placed
      <4>2. Apart(placed)
        BY <2>5, <3>3 DEF SameDrawing
      <4> QED BY <4>1, <4>2, <3>3, <3>4, <2>6, PinsAreKept
    <3>5. CASE placed.ok
      <4>1. AlignWellsToMarkersIn(s, target, wells, v, reuse) = t
        BY <1>2, <2>9, <3>5 DEF AlignWellsToMarkersIn, moved, first, both
      <4> HIDE DEF placed
      <4>2. /\ t \in Sessions /\ t.layout = placed.layout /\ t.shared = v
            /\ KeepsPins(placed, t) /\ SameDrawings(placed, t)
            /\ t.ok => \A w \in VisibleMembers(t.layout) : t.slots[w].viewport = v
        BY <2>9, <3>3, <3>5, WindowIsShared
      <4> HIDE DEF t
      <4>3. Apart(t)
        BY <2>5, <3>3, <4>2 DEF SameDrawing, SameDrawings
      <4>4. Aligned(t)
        <5>1. \A w \in Wells : /\ t.transforms[w] = moved.transforms[w]
                               /\ t.slots[w].document = moved.slots[w].document
                               /\ t.slots[w].presentation = moved.slots[w].presentation
          BY <3>3, <4>2 DEF SameDrawing, SameDrawings
        <5> QED BY <5>1, <2>3, <2>7, <2>9 DEF AtReference, FollowsTarget
      <4>5. KeepsPins(s, t)
        BY <2>6, <3>3, <4>2, PinsAreKept
      <4> QED BY <4>1, <4>2, <4>3, <4>4, <4>5
    <3> QED BY <3>4, <3>5
  <2> QED BY <2>8, <2>9
<1> QED BY <1>1, <1>2

-----------------------------------------------------------------------------
(***************************************************************************)
(* The commands that draw nothing.                                         *)
(***************************************************************************)
\* Nothing of wells, windows or pins is changed from s to t.
SameWells(s, t) ==
  /\ t.slots = s.slots /\ t.transforms = s.transforms
  /\ t.layout = s.layout /\ t.shared = s.shared
  /\ KeepsPins(s, t)

LEMMA SetCrosshairKeeps ==
  ASSUME NEW s \in Sessions, NEW w \in Wells, NEW c \in Crosshairs \cup {None}
  PROVE  SetCrosshairIn(s, w, c) \in Sessions /\ SameWells(s, SetCrosshairIn(s, w, c))
<1> DEFINE shown == [o \in Wells |-> IF o \in CrosshairTargets(s, w) THEN c ELSE s.crosshairs[o]]
<1>1. CASE s.slots[w].document = None \/ s.slots[w].viewport = None
  BY <1>1, NothingKept DEF SetCrosshairIn, SameWells, SameSurface
<1>2. CASE ~(s.slots[w].document = None \/ s.slots[w].viewport = None)
  <2>1. SetCrosshairIn(s, w, c) = [s EXCEPT !.crosshairs = shown]
    BY <1>2 DEF SetCrosshairIn, Sessions, SessionMaps
  <2>2. shown \in [Wells -> Crosshairs \cup {None}]
    BY DEF Sessions, SessionMaps
  <2> HIDE DEF shown
  <2> QED BY <2>1, <2>2 DEF Sessions, SessionMaps, SameWells, KeepsPins
<1> QED BY <1>1, <1>2

LEMMA SetOverlaysKeeps ==
  ASSUME NEW s \in Sessions, NEW o \in SUBSET (Wells \X Wells)
  PROVE  SetOverlaysIn(s, o) \in Sessions /\ SameWells(s, SetOverlaysIn(s, o))
<1> DEFINE r == [s EXCEPT !.overlays = o, !.same_generation = FALSE]
<1>1. SetOverlaysIn(s, o) = Fail(s) \/ SetOverlaysIn(s, o) = r
  BY DEF SetOverlaysIn
<1>2. Fail(s) \in Sessions /\ SameWells(s, Fail(s))
  BY NothingKept DEF SameWells, SameSurface
<1>3. r \in Sessions /\ SameWells(s, r)
  BY DEF Sessions, SessionMaps, SameWells, KeepsPins
<1> HIDE DEF r
<1> QED BY <1>1, <1>2, <1>3

LEMMA SetFocusedWellKeeps ==
  ASSUME NEW s \in Sessions, NEW w \in Wells
  PROVE  SetFocusedWellIn(s, w) \in Sessions /\ SameWells(s, SetFocusedWellIn(s, w))
  BY DEF SetFocusedWellIn, Fail, Sessions, SessionMaps, SameWells, KeepsPins

LEMMA HorizontalViewKeeps ==
  ASSUME NEW s \in Sessions, NEW v \in Int \X Int
  PROVE  LET t == [s EXCEPT !.horizontal_view = v] IN t \in Sessions /\ SameWells(s, t)
  BY DEF Sessions, SessionMaps, SameWells, KeepsPins

\* A finite set of integers that are counted has a greatest one.
LEMMA GreatestExists ==
  ASSUME NEW n \in Nat, NEW f \in [1 .. n -> Int], NEW D \in SUBSET (1 .. n)
  PROVE  Max({0} \cup {f[i] : i \in D}) \in Int
<1> DEFINE S(k) == {0} \cup {f[i] : i \in {j \in D : j <= k}}
           G == {k \in 0 .. n : \E x \in S(k) : \A y \in S(k) : x >= y}
<1>1. \A k \in 0 .. n : S(k) \subseteq Int
  OBVIOUS
<1>2. 0 \in G
  <2>1. S(0) = {0}
    OBVIOUS
  <2> QED BY <2>1
<1>3. ASSUME NEW k \in 1 .. n, k - 1 \in G PROVE k \in G
  <2>1. PICK x \in S(k - 1) : \A y \in S(k - 1) : x >= y
    BY <1>3
  <2>2. k - 1 \in 0 .. n /\ f[k] \in Int
    OBVIOUS
  <2>3. x \in Int
    BY <2>1, <2>2, <1>1
  <2>4. S(k) = IF k \in D THEN S(k - 1) \cup {f[k]} ELSE S(k - 1)
    OBVIOUS
  <2> DEFINE z == IF k \in D /\ f[k] >= x THEN f[k] ELSE x
  <2>5. z \in S(k) /\ \A y \in S(k) : z >= y
    <3>1. S(k - 1) \subseteq Int
      BY <2>2, <1>1
    <3> HIDE DEF S
    <3> QED BY <2>1, <2>2, <2>3, <2>4, <3>1
  <2> HIDE DEF S, z
  <2> QED BY <2>5
<1>4. n \in G
  <2>1. \A k \in 1 .. n : k - 1 \in G => k \in G
    BY <1>3
  <2> HIDE DEF G
  <2>2. 0 .. n \subseteq G
    BY <1>2, <2>1, UpTo
  <2> QED BY <2>2
<1>5. S(n) = {0} \cup {f[i] : i \in D}
  OBVIOUS
<1>6. PICK x \in S(n) : \A y \in S(n) : x >= y
  BY <1>4
<1>7. Max(S(n)) \in S(n)
  <2> HIDE DEF S
  <2> QED BY <1>6 DEF Max
<1>8. S(n) \subseteq Int
  BY <1>1
<1> HIDE DEF S
<1> QED BY <1>5, <1>7, <1>8

LEMMA OfTwo ==
  ASSUME NEW x \in Int, NEW y \in Int
  PROVE  Max({x, y}) \in Int /\ Min({x, y}) \in Int
<1>1. Max({x, y}) \in {x, y}
  <2>1. \E z \in {x, y} : \A o \in {x, y} : z >= o
    OBVIOUS
  <2> QED BY <2>1 DEF Max
<1>2. Min({x, y}) \in {x, y}
  <2>1. \E z \in {x, y} : \A o \in {x, y} : z <= o
    OBVIOUS
  <2> QED BY <2>1 DEF Min
<1> QED BY <1>1, <1>2

LEMMA SurfaceHasAWidth ==
  ASSUME NEW s \in Sessions
  PROVE  SurfaceWidth(s) \in Int
<1> DEFINE n == Len(s.layout)
           f == [i \in 1 .. n |-> s.layout[i].left + PlacementWidth(s, s.layout[i])]
           D == {j \in DOMAIN s.layout : s.layout[j].visible}
<1>1. s.layout \in Seq(Placements) /\ n \in Nat /\ DOMAIN s.layout = 1 .. n
  BY DEF Sessions, SessionMaps
<1>2. ASSUME NEW i \in 1 .. n PROVE s.layout[i].left + PlacementWidth(s, s.layout[i]) \in Int
  <2>1. s.layout[i] \in Placements
    BY <1>1
  <2> QED BY <2>1, SurfaceAssumption DEF PlacementWidth, Placements
<1>3. f \in [1 .. n -> Int]
  BY <1>2
<1>4. D \in SUBSET (1 .. n)
  BY <1>1
<1>5. {f[i] : i \in D} = {s.layout[i].left + PlacementWidth(s, s.layout[i]) : i \in D}
  BY <1>4
<1> HIDE DEF n, f
<1>6. Max({0} \cup {f[i] : i \in D}) \in Int
  <2> HIDE DEF D
  <2> QED BY <1>1, <1>3, <1>4, GreatestExists
<1> QED BY <1>5, <1>6 DEF SurfaceWidth

LEMMA PanHorizontalKeeps ==
  ASSUME NEW s \in Sessions, NEW delta \in Int
  PROVE  PanHorizontalIn(s, delta) \in Sessions /\ SameWells(s, PanHorizontalIn(s, delta))
<1> DEFINE left == s.horizontal_view[1]
           span == s.horizontal_view[2] - left
           rightmost == Max({0, SurfaceWidth(s) - span})
           nearest == Min({left + delta, rightmost})
           next == Max({0, nearest})
<1>1. CASE s.layout = <<>> \/ s.horizontal_view = None \/ SurfaceWidth(s) <= 0
  BY <1>1, NothingKept DEF PanHorizontalIn, SameWells, SameSurface
<1>2. CASE ~(s.layout = <<>> \/ s.horizontal_view = None \/ SurfaceWidth(s) <= 0)
  <2>1. left \in Int /\ span \in Int
    BY <1>2 DEF Sessions, SessionMaps
  <2>2. SurfaceWidth(s) \in Int
    BY SurfaceHasAWidth
  <2>3. PanHorizontalIn(s, delta) = [s EXCEPT !.horizontal_view = <<next, next + span>>]
    BY <1>2 DEF PanHorizontalIn
  <2> HIDE DEF left, span
  <2>4. rightmost \in Int
    BY <2>1, <2>2, OfTwo
  <2> HIDE DEF rightmost
  <2>5. nearest \in Int
    BY <2>1, <2>4, OfTwo
  <2> HIDE DEF nearest
  <2>6. next \in Int
    BY <2>5, OfTwo
  <2> HIDE DEF next
  <2> DEFINE view == <<next, next + span>>
  <2>7. view \in Int \X Int
    BY <2>1, <2>6
  <2> HIDE DEF view
  <2> QED BY <2>3, <2>7, HorizontalViewKeeps DEF view
<1> QED BY <1>1, <1>2

-----------------------------------------------------------------------------
(***************************************************************************)
(* The composed surface.                                                   *)
(***************************************************************************)
LEMMA ShownAreDefined ==
  ASSUME NEW s \in Sessions
  PROVE  SurfacePlacements(s) \in Seq(Placements)
<1> DEFINE n == Len(s.layout)
           S == Seq(Placements)
           Next1(i, q) == IF Shown(s, s.layout[i]) THEN Append(q, s.layout[i]) ELSE q
           step == [i \in 1 .. n |-> [q \in S |-> Next1(i, q)]]
<1>1. s.layout \in Seq(Placements) /\ n \in Nat
  BY DEF Sessions, SessionMaps
<1>2. ASSUME NEW i \in 1 .. n, NEW q \in S PROVE Next1(i, q) \in S
  <2>1. s.layout[i] \in Placements
    BY <1>1
  <2> HIDE DEF n
  <2> QED BY <2>1
<1>3. step \in Steps(S, n)
  <2> HIDE DEF Next1
  <2> QED BY <1>2 DEF Steps
<1>4. PICK f : IsLoop(f, S, <<>>, n, step)
  <2> HIDE DEF step, n
  <2>1. n \in Nat
    BY <1>1
  <2>2. <<>> \in S
    OBVIOUS
  <2> HIDE DEF S
  <2> QED BY <2>1, <2>2, <1>3, LoopsEnd
<1>5. f = [i \in 0 .. n |-> IF i = 0 THEN <<>>
                            ELSE IF Shown(s, s.layout[i]) THEN Append(f[i - 1], s.layout[i])
                            ELSE f[i - 1]]
  <2>1. ASSUME NEW i \in 0 .. n, i # 0 PROVE step[i][f[i - 1]] = Next1(i, f[i - 1])
    <3>1. i \in 1 .. n /\ i - 1 \in 0 .. n
      BY <1>1, <2>1
    <3>2. f[i - 1] \in S
      <4> HIDE DEF S
      <4> QED BY <3>1, <1>4 DEF IsLoop
    <3> HIDE DEF S, Next1
    <3> QED BY <3>1, <3>2
  <2> HIDE DEF step, S
  <2>2. f \in [0 .. n -> S] /\ f[0] = <<>>
    BY <1>4 DEF IsLoop
  <2>3. ASSUME NEW i \in 0 .. n, i # 0 PROVE f[i] = Next1(i, f[i - 1])
    <3>1. i \in 1 .. n
      BY <1>1, <2>3
    <3> HIDE DEF Next1, n
    <3> QED BY <3>1, <2>1, <2>3, <1>4 DEF IsLoop
  <2> DEFINE g(i) == IF i = 0 THEN <<>> ELSE Next1(i, f[i - 1])
  <2>4. \A i \in 0 .. n : f[i] = g(i)
    BY <2>2, <2>3
  <2>5. f = [i \in 0 .. n |-> g(i)]
    <3> HIDE DEF g, n
    <3> QED BY <2>2, <2>4
  <2> QED BY <2>5
<1>6. PlacementsShown(s) = [i \in 0 .. n |->
          IF i = 0 THEN <<>>
          ELSE IF Shown(s, s.layout[i]) THEN Append(PlacementsShown(s)[i - 1], s.layout[i])
          ELSE PlacementsShown(s)[i - 1]]
  BY <1>5 DEF PlacementsShown
<1>7. n \in {i \in 0 .. n : PlacementsShown(s)[i] \in S}
  <2> DEFINE G == {i \in 0 .. n : PlacementsShown(s)[i] \in S}
  <2>1. 0 \in G
    BY <1>1, <1>6
  <2>2. ASSUME NEW i \in 1 .. n, i - 1 \in G PROVE i \in G
    <3>1. i \in 0 .. n /\ i # 0 /\ PlacementsShown(s)[i - 1] \in S
      BY <1>1, <2>2
    <3>2. PlacementsShown(s)[i] = Next1(i, PlacementsShown(s)[i - 1])
      <4> HIDE DEF n, S
      <4> QED BY <3>1, <1>6
    <3> HIDE DEF Next1, S
    <3> QED BY <3>1, <3>2, <1>2
  <2>3. \A i \in 1 .. n : i - 1 \in G => i \in G
    BY <2>2
  <2> HIDE DEF G
  <2>4. 0 .. n \subseteq G
    BY <1>1, <2>1, <2>3, UpTo
  <2> QED BY <2>4, <1>1 DEF G
<1> QED BY <1>7 DEF SurfacePlacements

LEMMA KeysNameTheirWells ==
  ASSUME NEW placements \in Seq(Placements)
  PROVE  /\ Members(placements) \subseteq Wells
         /\ Members(KeyOf(placements)) = Members(placements)
         /\ placements # <<>> => KeyOf(placements) # <<>>
<1>1. DOMAIN placements = 1 .. Len(placements) /\ Len(placements) \in Nat
  OBVIOUS
<1>2. \A i \in DOMAIN placements : placements[i].well \in Wells
  <2> SUFFICES ASSUME NEW i \in DOMAIN placements PROVE placements[i].well \in Wells
    OBVIOUS
  <2>1. placements[i] \in Placements
    BY <1>1
  <2> QED BY <2>1 DEF Placements
<1>3. DOMAIN KeyOf(placements) = DOMAIN placements
      /\ \A i \in DOMAIN placements : KeyOf(placements)[i].well = placements[i].well
  BY DEF KeyOf
<1>4. ASSUME placements # <<>> PROVE KeyOf(placements) # <<>>
  <2>1. 1 \in DOMAIN placements
    BY <1>4
  <2>2. 1 \notin DOMAIN <<>>
    OBVIOUS
  <2> QED BY <2>1, <2>2, <1>3
<1> HIDE DEF KeyOf
<1> QED BY <1>2, <1>3, <1>4 DEF Members

(***************************************************************************)
(* What was composed is what s would compose of the wells a key names, but *)
(* for the scenes and documents of wells that are recycled, or not pinned  *)
(* any more, and for the mapping of wells that are remapped.               *)
(***************************************************************************)
Between(s, key) == {o \in s.overlays : {o[1], o[2]} \subseteq Members(key)}

ComposedAlike(was, s, key) ==
  /\ DOMAIN was.wells = DOMAIN key
  /\ \A i \in DOMAIN key :
       /\ was.wells[i].well = key[i].well
       /\ was.wells[i].left = key[i].left
       /\ key[i].well \in s.pinned \ s.recycled =>
            was.wells[i].scene = s.slots[key[i].well].scene
  /\ {o.ends : o \in was.overlays} = Between(s, key)
  /\ \A o \in was.overlays, i \in 1 .. 2 :
       /\ o.ends[i] \in s.pinned \ s.recycled =>
            o.documents[i] = s.slots[o.ends[i]].document
       /\ o.ends[i] \notin s.remapped => o.transforms[i] = DepthTransform(s, o.ends[i])

\* What s composes of the wells a key names.
ComposedByKey(now, s, key) ==
  /\ DOMAIN now.wells = DOMAIN key
  /\ \A i \in DOMAIN key :
       /\ now.wells[i].well = key[i].well
       /\ now.wells[i].left = key[i].left
       /\ now.wells[i].scene = s.slots[key[i].well].scene
  /\ {o.ends : o \in now.overlays} = Between(s, key)
  /\ \A o \in now.overlays, i \in 1 .. 2 :
       /\ o.documents[i] = s.slots[o.ends[i]].document
       /\ o.transforms[i] = DepthTransform(s, o.ends[i])

LEMMA ComposedByItsKey ==
  ASSUME NEW s \in Sessions
  PROVE  ComposedByKey(Composed(s), s, KeyOf(SurfacePlacements(s)))
<1> DEFINE placements == SurfacePlacements(s)
           key == KeyOf(placements)
           now == Composed(s)
           Drawn(o) == [ends |-> o, documents |-> [i \in 1 .. 2 |-> s.slots[o[i]].document],
                        transforms |-> [i \in 1 .. 2 |-> DepthTransform(s, o[i])]]
<1>1. placements \in Seq(Placements) /\ Members(key) = Members(placements)
  BY ShownAreDefined, KeysNameTheirWells
<1>2. DOMAIN key = DOMAIN placements
      /\ \A i \in DOMAIN placements : key[i].well = placements[i].well /\ key[i].left = placements[i].left
  BY DEF KeyOf
<1>3. now.wells = [i \in DOMAIN placements |->
                     [well |-> placements[i].well, left |-> placements[i].left,
                      scene |-> s.slots[placements[i].well].scene]]
  BY DEF Composed
<1>4. now.overlays = {Drawn(o) : o \in Between(s, key)}
  <2>1. {o \in s.overlays : {o[1], o[2]} \subseteq Members(placements)} = Between(s, key)
    BY <1>1 DEF Between
  <2> HIDE DEF key, placements
  <2> QED BY <2>1 DEF Composed, placements
<1> HIDE DEF key, placements, now
<1>5. {o.ends : o \in now.overlays} = Between(s, key)
  <2>1. \A o : Drawn(o).ends = o
    OBVIOUS
  <2> HIDE DEF Drawn
  <2> QED BY <1>4, <2>1
<1>6. \A o \in now.overlays, i \in 1 .. 2 :
        /\ o.documents[i] = s.slots[o.ends[i]].document
        /\ o.transforms[i] = DepthTransform(s, o.ends[i])
  BY <1>4
<1>7. ComposedByKey(now, s, key)
  BY <1>2, <1>3, <1>5, <1>6 DEF ComposedByKey
<1> QED BY <1>7 DEF key, now, placements

\* A surface of this generation stays alike.
LEMMA PinnedComposeAlike ==
  ASSUME NEW s \in Sessions, NEW t, KeepsPins(s, t), t.same_generation, NEW key, NEW was,
         ComposedAlike(was, s, key)
  PROVE  ComposedAlike(was, t, key)
<1>1. t.pinned \ t.recycled \subseteq s.pinned \ s.recycled
  BY DEF KeepsPins
<1>2. ASSUME NEW i \in DOMAIN key, key[i].well \in t.pinned \ t.recycled
      PROVE  was.wells[i].scene = t.slots[key[i].well].scene
  BY <1>1, <1>2 DEF KeepsPins, ComposedAlike
<1>3. Between(t, key) = Between(s, key)
  BY DEF KeepsPins, Between
<1>4. ASSUME NEW o \in was.overlays, NEW i \in 1 .. 2
      PROVE  /\ o.ends[i] \in t.pinned \ t.recycled =>
                  o.documents[i] = t.slots[o.ends[i]].document
             /\ o.ends[i] \notin t.remapped => o.transforms[i] = DepthTransform(t, o.ends[i])
  <2>1. o.ends \in Between(s, key)
    BY DEF ComposedAlike
  <2>2. o.ends[i] \in Wells
    BY <2>1 DEF Between, Sessions, SessionMaps
  <2>3. ASSUME o.ends[i] \in t.pinned \ t.recycled
        PROVE  o.documents[i] = t.slots[o.ends[i]].document
    BY <1>1, <2>3 DEF KeepsPins, ComposedAlike
  <2>4. ASSUME o.ends[i] \notin t.remapped
        PROVE  o.transforms[i] = DepthTransform(t, o.ends[i])
    <3>1. o.ends[i] \notin s.remapped /\ t.transforms[o.ends[i]] = s.transforms[o.ends[i]]
      BY <2>2, <2>4 DEF KeepsPins
    <3> QED BY <3>1 DEF ComposedAlike, DepthTransform
  <2> QED BY <2>3, <2>4
<1> QED BY <1>2, <1>3, <1>4 DEF ComposedAlike

-----------------------------------------------------------------------------
(***************************************************************************)
(* The inductive invariant.  AlignedFollow is AlignedWellsAgree as every   *)
(* single command keeps it; CacheFresh does not ask that the wells of the  *)
(* cached surface are those that would be shown now, only that what it     *)
(* shows of them is what they are.                                         *)
(***************************************************************************)
AlignedFollow ==
  aligned # None =>
    \E target \in aligned :
      /\ AtReference(session, target)
      /\ \A w \in aligned : w # target => FollowsTarget(session, w, target)

SurfaceInv ==
  /\ session \in Sessions
  /\ strayed \subseteq Wells
  /\ cached # None => cached.placements # <<>>
  /\ aligned # None => aligned \subseteq Wells
  /\ WindowsInSync
  /\ AlignedFollow

CacheFresh ==
  cached # None /\ session.same_generation
    => ComposedAlike(cached.composed, session, cached.placements)

LEMMA StartsInvariant ==
  SurfaceInit => SurfaceInv /\ CacheFresh
<1> SUFFICES ASSUME SurfaceInit PROVE SurfaceInv /\ CacheFresh
  OBVIOUS
<1>1. EmptySlot \in Slots({0, 1}) /\ SlotOK(EmptySlot) /\ DrawnOnTheSpot(EmptySlot)
  BY SlotAssumption DEF EmptySlot, Slots, SlotOK, DrawnOnTheSpot, NoPreparation, Preparations,
                        PreparationStates
<1>2. session \in SessionMaps /\ \A w \in Wells : session.slots[w] = EmptySlot
  <2> HIDE DEF EmptySlot
  <2>1. [w \in Wells |-> EmptySlot] \in [Wells -> Slots({0, 1})]
    BY <1>1
  <2> QED BY <2>1 DEF SurfaceInit, EmptySession, SessionMaps
<1>3. session \in Sessions
  BY <1>1, <1>2 DEF SurfaceInit, EmptySession, Sessions
<1> QED BY <1>3 DEF SurfaceInit, EmptySession, SurfaceInv, CacheFresh, WindowsInSync, AlignedFollow

\* What the invariant asks of the session a command leaves.
CommandIsSound(t, own, moved) ==
  /\ t \in Sessions
  /\ own \subseteq Wells
  /\ KeepsPins(session, t)
  /\ \A w \in Wells : w \notin moved => SameDrawing(session, t, w)
  /\ t.shared # None =>
       \A w \in VisibleMembers(t.layout) : w \notin own =>
         /\ w \in VisibleMembers(session.layout)
         /\ session.shared = t.shared /\ t.slots[w].viewport = session.slots[w].viewport

\* The outcome is not part of the state.
LEMMA OutcomeForgotten ==
  ASSUME NEW t \in Sessions
  PROVE  LET r == [t EXCEPT !.ok = TRUE] IN
         /\ r \in Sessions
         /\ r.slots = t.slots /\ r.transforms = t.transforms
         /\ r.layout = t.layout /\ r.shared = t.shared
         /\ r.overlays = t.overlays /\ r.pinned = t.pinned
         /\ r.same_generation = t.same_generation
         /\ r.recycled = t.recycled /\ r.remapped = t.remapped
  BY DEF Sessions, SessionMaps

LEMMA PinsKeepTheCache ==
  ASSUME session \in Sessions, CacheFresh, KeepsPins(session, session'), UNCHANGED cached
  PROVE  CacheFresh'
<1> SUFFICES ASSUME cached # None, session'.same_generation
             PROVE  ComposedAlike(cached.composed, session', cached.placements)
  BY DEF CacheFresh
<1>1. session.same_generation
  BY DEF KeepsPins
<1> QED BY <1>1, PinnedComposeAlike DEF CacheFresh

\* An alignment holds as long as its wells are drawn as they were.
LEMMA DrawingsKeepAlignment ==
  ASSUME NEW moved, AlignedFollow, aligned # None => aligned \subseteq Wells,
         \A w \in Wells : w \notin moved => SameDrawing(session, session', w),
         aligned' # None => aligned' = aligned /\ moved \cap aligned = {}
  PROVE  AlignedFollow'
<1> SUFFICES ASSUME aligned' # None PROVE AlignedFollow'
  BY DEF AlignedFollow
<1>1. aligned' = aligned /\ aligned # None
  OBVIOUS
<1>2. PICK target \in aligned : /\ AtReference(session, target)
                                /\ \A w \in aligned : w # target => FollowsTarget(session, w, target)
  BY <1>1 DEF AlignedFollow
<1>3. \A w \in aligned : SameDrawing(session, session', w)
  BY <1>1
<1>4. AtReference(session', target)
  BY <1>2, <1>3 DEF AtReference, SameDrawing
<1>5. \A w \in aligned : w # target => FollowsTarget(session', w, target)
  BY <1>2, <1>3 DEF FollowsTarget, SameDrawing
<1> QED BY <1>1, <1>2, <1>4, <1>5 DEF AlignedFollow

LEMMA VisibleAreWells ==
  ASSUME NEW t \in Sessions
  PROVE  VisibleMembers(t.layout) \subseteq Wells
<1>1. t.layout \in Seq(Placements)
  BY DEF Sessions, SessionMaps
<1>2. ASSUME NEW i \in DOMAIN t.layout PROVE t.layout[i].well \in Wells
  <2>1. t.layout[i] \in Placements
    BY <1>1
  <2> QED BY <2>1 DEF Placements
<1> QED BY <1>2 DEF VisibleMembers

LEMMA CommandKeeps ==
  ASSUME SurfaceInv, NEW t, NEW own, NEW moved, CommandIsSound(t, own, moved),
         Command(t, own, moved)
  PROVE  SurfaceInv' /\ (CacheFresh => CacheFresh')
<1> DEFINE r == [t EXCEPT !.ok = TRUE]
<1>1. t \in Sessions
  BY DEF CommandIsSound
<1>2. /\ r \in Sessions
      /\ r.slots = t.slots /\ r.transforms = t.transforms
      /\ r.layout = t.layout /\ r.shared = t.shared
      /\ r.overlays = t.overlays /\ r.pinned = t.pinned
      /\ r.same_generation = t.same_generation
      /\ r.recycled = t.recycled /\ r.remapped = t.remapped
  BY <1>1, OutcomeForgotten
<1>3. session' = r
  BY DEF Command
<1> HIDE DEF r
<1>4. strayed' \subseteq Wells
  BY DEF Command, CommandIsSound, SurfaceInv
<1>5. cached' = cached /\ (cached' # None => cached'.placements # <<>>)
  BY DEF Command, SurfaceInv
<1>6. aligned' # None => aligned' = aligned /\ moved \cap aligned = {}
  BY DEF Command
<1>7. WindowsInSync'
  BY <1>2, <1>3 DEF Command, CommandIsSound, SurfaceInv, WindowsInSync
<1>8. AlignedFollow'
  <2>1. \A w \in Wells : w \notin moved => SameDrawing(session, session', w)
    BY <1>2, <1>3 DEF CommandIsSound, SameDrawing
  <2> QED BY <2>1, <1>6, DrawingsKeepAlignment DEF SurfaceInv
<1>9. KeepsPins(session, session')
  BY <1>2, <1>3 DEF CommandIsSound, KeepsPins
<1>10. CacheFresh => CacheFresh'
  BY <1>5, <1>9, PinsKeepTheCache DEF SurfaceInv
<1> QED BY <1>2, <1>3, <1>4, <1>5, <1>6, <1>7, <1>8, <1>10 DEF SurfaceInv

\* Commands that share a window; what they do not reach is recorded.
LEMMA SharesKeeps ==
  ASSUME SurfaceInv, NEW t \in Sessions, NEW v \in Viewports,
         KeepsPins(session, t), SameDrawings(session, t),
         t.shared = v,
         t.ok => \A w \in VisibleMembers(t.layout) : t.slots[w].viewport = v,
         Shares(t, v)
  PROVE  SurfaceInv' /\ (CacheFresh => CacheFresh')
<1> DEFINE r == [t EXCEPT !.ok = TRUE]
<1>2. /\ r \in Sessions
      /\ r.slots = t.slots /\ r.transforms = t.transforms
      /\ r.layout = t.layout /\ r.shared = t.shared
      /\ r.overlays = t.overlays /\ r.pinned = t.pinned
      /\ r.same_generation = t.same_generation
      /\ r.recycled = t.recycled /\ r.remapped = t.remapped
  BY OutcomeForgotten
<1>3. session' = r
  BY DEF Shares
<1> HIDE DEF r
<1>4. strayed' \subseteq Wells
  <2>1. VisibleMembers(t.layout) \subseteq Wells
    BY VisibleAreWells
  <2> QED BY <2>1 DEF Shares, Unreached, SurfaceInv
<1>5. cached' = cached /\ aligned' = aligned /\ (cached' # None => cached'.placements # <<>>)
  BY DEF Shares, SurfaceInv
<1>7. WindowsInSync'
  BY <1>2, <1>3 DEF Shares, Unreached, SurfaceInv, WindowsInSync
<1>8. AlignedFollow'
  <2>1. \A w \in Wells : w \notin {} => SameDrawing(session, session', w)
    BY <1>2, <1>3 DEF SameDrawings, SameDrawing
  <2> QED BY <2>1, <1>5, DrawingsKeepAlignment DEF SurfaceInv
<1>9. KeepsPins(session, session')
  BY <1>2, <1>3 DEF KeepsPins
<1>10. CacheFresh => CacheFresh'
  BY <1>5, <1>9, PinsKeepTheCache DEF SurfaceInv
<1> QED BY <1>2, <1>3, <1>4, <1>5, <1>7, <1>8, <1>10 DEF SurfaceInv

-----------------------------------------------------------------------------
(***************************************************************************)
(* One step, action by action.                                             *)
(***************************************************************************)
\* What every step keeps: the invariant and the cache.
Kept == SurfaceInv' /\ (CacheFresh => CacheFresh')

\* A command on one well may set its window and its drawing.
LEMMA OneWellIsSound ==
  ASSUME NEW t, NEW w \in Wells, SurfaceInv, t \in Sessions, TouchesOne(session, t, w),
         KeepsPins(session, t)
  PROVE  CommandIsSound(t, {w}, {w})
<1>1. \A o \in Wells : o \notin {w} => SameDrawing(session, t, o)
  BY DEF TouchesOne, SameDrawing
<1>2. VisibleMembers(t.layout) \subseteq Wells
  BY VisibleAreWells
<1> QED BY <1>1, <1>2 DEF CommandIsSound, TouchesOne, SameSurface

LEMMA SetWellDocumentKept ==
  ASSUME SurfaceInv, NEW w \in Wells, NEW doc \in DocumentsOf[w], SetWellDocument(w, doc)
  PROVE  Kept
<1> DEFINE t == SetDocumentIn(session, w, doc)
<1>1. doc \in Documents /\ session \in Sessions
  BY SurfaceAssumption DEF SurfaceInv
<1>2. t \in Sessions /\ TouchesOne(session, t, w) /\ KeepsPins(session, t)
  BY <1>1, SetDocumentKeeps
<1>3. Command(t, {w}, {w})
  BY DEF SetWellDocument
<1> HIDE DEF t
<1>4. CommandIsSound(t, {w}, {w})
  BY <1>2, OneWellIsSound
<1> QED BY <1>3, <1>4, CommandKeeps DEF Kept

LEMMA SetPresentationKept ==
  ASSUME SurfaceInv, NEW w \in Wells, NEW p \in Presentations, NEW reuse \in BOOLEAN,
         SetPresentation(w, p, reuse)
  PROVE  Kept
<1> DEFINE t == SetPresentationIn(session, w, p, reuse)
<1>1. session \in Sessions
  BY DEF SurfaceInv
<1>2. t \in Sessions /\ TouchesOne(session, t, w) /\ KeepsPins(session, t)
  BY <1>1, SetPresentationKeeps
<1>3. Command(t, {w}, {w})
  BY DEF SetPresentation
<1> HIDE DEF t
<1>4. CommandIsSound(t, {w}, {w})
  BY <1>2, OneWellIsSound
<1> QED BY <1>3, <1>4, CommandKeeps DEF Kept

LEMMA SetDepthTransformKept ==
  ASSUME SurfaceInv, NEW w \in Wells, NEW x \in Transforms, NEW reuse \in BOOLEAN,
         SetDepthTransform(w, x, reuse)
  PROVE  Kept
<1> DEFINE t == SetDepthTransformIn(session, w, x, reuse)
<1>1. session \in Sessions
  BY DEF SurfaceInv
<1>2. t \in Sessions /\ TouchesOne(session, t, w) /\ KeepsPins(session, t)
  BY <1>1, SetDepthTransformKeeps
<1>3. Command(t, {w}, {w})
  BY DEF SetDepthTransform
<1> HIDE DEF t
<1>4. CommandIsSound(t, {w}, {w})
  BY <1>2, OneWellIsSound
<1> QED BY <1>3, <1>4, CommandKeeps DEF Kept

LEMMA SetViewportMetricsKept ==
  ASSUME SurfaceInv, NEW w \in Wells, NEW v \in Viewports, SetViewportMetrics(w, v)
  PROVE  Kept
<1> DEFINE t == SetViewportMetricsIn(session, w, v)
<1>1. session \in Sessions
  BY DEF SurfaceInv
<1>2. /\ t \in Sessions /\ TouchesOne(session, t, w) /\ KeepsPins(session, t)
      /\ t.transforms = session.transforms
      /\ t.slots[w].document = session.slots[w].document
      /\ t.slots[w].presentation = session.slots[w].presentation
  BY <1>1, SetViewportMetricsKeeps
<1>3. Command(t, {w}, {})
  BY DEF SetViewportMetrics
<1> HIDE DEF t
<1>4. CommandIsSound(t, {w}, {w})
  BY <1>2, OneWellIsSound
<1>5. CommandIsSound(t, {w}, {})
  BY <1>2, <1>4 DEF CommandIsSound, SameDrawing
<1> QED BY <1>3, <1>5, CommandKeeps DEF Kept

LEMMA SetViewportKept ==
  ASSUME SurfaceInv, NEW w \in Wells, NEW v \in Viewports, SetViewport(w, v)
  PROVE  Kept
<1>1. session \in Sessions /\ session.layout \in Seq(Placements)
  BY DEF SurfaceInv, Sessions, SessionMaps
<1>2. CASE w \in Members(session.layout)
  <2> DEFINE t == SetSharedDepthViewportIn(session, v)
  <2>1. session.layout # <<>>
    BY <1>2 DEF Members
  <2>2. /\ t \in Sessions /\ t.layout = session.layout /\ t.shared = v
        /\ KeepsPins(session, t) /\ SameDrawings(session, t)
        /\ t.ok => \A o \in VisibleMembers(t.layout) : t.slots[o].viewport = v
    BY <1>1, <2>1, WindowIsShared
  <2>3. Shares(t, v)
    BY <1>2 DEF SetViewport, SetViewportIn
  <2> HIDE DEF t
  <2> QED BY <2>2, <2>3, SharesKeeps DEF Kept
<1>3. CASE w \notin Members(session.layout)
  <2> DEFINE t == SetViewportMetricsIn(session, w, v)
  <2>1. /\ t \in Sessions /\ TouchesOne(session, t, w) /\ KeepsPins(session, t)
        /\ t.transforms = session.transforms
        /\ t.slots[w].document = session.slots[w].document
        /\ t.slots[w].presentation = session.slots[w].presentation
    BY <1>1, SetViewportMetricsKeeps
  <2>2. Command(t, {}, {})
    BY <1>3 DEF SetViewport, SetViewportIn
  <2> HIDE DEF t
  <2>3. CommandIsSound(t, {w}, {w})
    BY <2>1, OneWellIsSound
  <2>4. w \notin VisibleMembers(t.layout)
    BY <1>3, <2>1 DEF TouchesOne, SameSurface, Members, VisibleMembers
  <2>5. CommandIsSound(t, {}, {})
    BY <2>1, <2>3, <2>4 DEF CommandIsSound, SameDrawing
  <2> QED BY <2>2, <2>5, CommandKeeps DEF Kept
<1> QED BY <1>2, <1>3

LEMMA SetSharedDepthViewportKept ==
  ASSUME SurfaceInv, NEW v \in Viewports, SetSharedDepthViewport(v)
  PROVE  Kept
<1> DEFINE t == SetSharedDepthViewportIn(session, v)
<1>1. session \in Sessions /\ session.layout # <<>>
  BY DEF SurfaceInv, SetSharedDepthViewport
<1>2. /\ t \in Sessions /\ t.layout = session.layout /\ t.shared = v
      /\ KeepsPins(session, t) /\ SameDrawings(session, t)
      /\ t.ok => \A o \in VisibleMembers(t.layout) : t.slots[o].viewport = v
  BY <1>1, WindowIsShared
<1>3. Shares(t, v)
  BY DEF SetSharedDepthViewport
<1> HIDE DEF t
<1> QED BY <1>2, <1>3, SharesKeeps DEF Kept

LEMMA SetWellLayoutKept ==
  ASSUME SurfaceInv, NEW wells \in Layouts, NEW pack \in BOOLEAN, SetWellLayout(wells, pack)
  PROVE  Kept
<1> DEFINE t == SetWellLayoutIn(session, wells, pack)
           own == VisibleMembers(t.layout) \ VisibleMembers(session.layout)
<1>1. session \in Sessions /\ wells \in Seq(Placements)
  BY SurfaceAssumption DEF SurfaceInv
<1>2. /\ t \in Sessions /\ KeepsPins(session, t) /\ t.slots = session.slots
      /\ t.transforms = session.transforms
      /\ t.shared = None \/ t.shared = session.shared
  BY <1>1, SetWellLayoutKeeps
<1>3. Command(t, own, {})
  BY DEF SetWellLayout
<1> HIDE DEF t
<1>4. own \subseteq Wells
  BY <1>2, VisibleAreWells
<1>5. CommandIsSound(t, own, {})
  BY <1>2, <1>4 DEF CommandIsSound, SameDrawing
<1> HIDE DEF own
<1> QED BY <1>3, <1>5, CommandKeeps DEF Kept

\* Commands that leave the wells alone.
LEMMA WellsAloneKept ==
  ASSUME SurfaceInv, NEW t \in Sessions, SameWells(session, t), Command(t, {}, {})
  PROVE  Kept
<1>1. CommandIsSound(t, {}, {})
  BY DEF CommandIsSound, SameWells, SameDrawing
<1> QED BY <1>1, CommandKeeps DEF Kept

LEMMA DrawingCommandsKept ==
  ASSUME SurfaceInv
  PROVE  /\ \A w \in Wells, c \in Crosshairs \cup {None} : SetCrosshair(w, c) => Kept
         /\ \A w \in Wells : SetFocusedWell(w) => Kept
         /\ \A o \in Overlays : SetCrossWellOverlays(o) => Kept
         /\ \A v \in HorizontalViews : SetSurfaceHorizontalView(v) => Kept
         /\ \A delta \in {-1, 1} : PanSurfaceHorizontal(delta) => Kept
<1>1. session \in Sessions
  BY DEF SurfaceInv
<1>2. ASSUME NEW w \in Wells, NEW c \in Crosshairs \cup {None}, SetCrosshair(w, c) PROVE Kept
  BY <1>1, <1>2, SetCrosshairKeeps, WellsAloneKept DEF SetCrosshair
<1>3. ASSUME NEW w \in Wells, SetFocusedWell(w) PROVE Kept
  BY <1>1, <1>3, SetFocusedWellKeeps, WellsAloneKept DEF SetFocusedWell
<1>4. ASSUME NEW o \in Overlays, SetCrossWellOverlays(o) PROVE Kept
  <2>1. o \in SUBSET (Wells \X Wells)
    BY SurfaceAssumption
  <2> QED BY <2>1, <1>1, <1>4, SetOverlaysKeeps, WellsAloneKept DEF SetCrossWellOverlays
<1>5. ASSUME NEW v \in HorizontalViews, SetSurfaceHorizontalView(v) PROVE Kept
  <2> DEFINE t == [session EXCEPT !.horizontal_view = v]
  <2>1. v \in Int \X Int
    BY SurfaceAssumption
  <2>2. t \in Sessions /\ SameWells(session, t)
    BY <2>1, <1>1, HorizontalViewKeeps
  <2>3. Command(t, {}, {})
    BY <1>5 DEF SetSurfaceHorizontalView
  <2> HIDE DEF t
  <2> QED BY <2>2, <2>3, WellsAloneKept
<1>6. ASSUME NEW delta \in {-1, 1}, PanSurfaceHorizontal(delta) PROVE Kept
  <2>1. delta \in Int
    OBVIOUS
  <2> QED BY <2>1, <1>1, <1>6, PanHorizontalKeeps, WellsAloneKept DEF PanSurfaceHorizontal
<1> QED BY <1>2, <1>3, <1>4, <1>5, <1>6

LEMMA AlignWellsToMarkersKept ==
  ASSUME SurfaceInv, NEW target \in Wells, NEW v \in Viewports \cup {None},
         NEW reuse \in BOOLEAN,
         AlignWellsToMarkers(target, OtherWells(target), v, reuse)
  PROVE  Kept
<1> DEFINE wells == OtherWells(target)
           t == AlignWellsToMarkersIn(session, target, wells, v, reuse)
           r == [t EXCEPT !.ok = TRUE]
           touched == {target} \cup ToSet(wells)
<1>1. session \in Sessions /\ wells \in Seq(Wells \ {target})
  BY OthersAreWells DEF SurfaceInv
<1>2. touched \subseteq Wells /\ target \notin ToSet(wells)
  <2> HIDE DEF wells
  <2> QED BY <1>1 DEF ToSet
<1>3. v \in Viewports \/ v = None
  OBVIOUS
<1>4. /\ t \in Sessions
      /\ KeepsPins(session, t)
      /\ \A w \in Wells : w # target /\ w \notin ToSet(wells) => SameDrawing(session, t, w)
      /\ t.ok => /\ AtReference(t, target)
                 /\ \A w \in ToSet(wells) : FollowsTarget(t, w, target)
      /\ t.ok /\ v # None => /\ t.shared = v
                             /\ \A w \in VisibleMembers(t.layout) : t.slots[w].viewport = v
  <2> HIDE DEF wells
  <2> QED BY <1>1, <1>3, AlignWellsKeeps
<1>5. /\ session' = r
      /\ strayed' = IF t.ok /\ v # None THEN strayed \ VisibleMembers(t.layout)
                    ELSE strayed \cup touched \cup
                         {w \in VisibleMembers(t.layout) : t.slots[w].viewport # t.shared}
      /\ aligned' = IF t.ok THEN touched
                    ELSE IF aligned # None /\ touched \cap aligned # {} THEN None
                    ELSE aligned
      /\ cached' = cached
  BY DEF AlignWellsToMarkers
<1> HIDE DEF t
<1>6. /\ r \in Sessions
      /\ r.slots = t.slots /\ r.transforms = t.transforms
      /\ r.layout = t.layout /\ r.shared = t.shared
      /\ r.overlays = t.overlays /\ r.pinned = t.pinned
      /\ r.same_generation = t.same_generation
      /\ r.recycled = t.recycled /\ r.remapped = t.remapped
  BY <1>4, OutcomeForgotten
<1> HIDE DEF r, wells
<1>7. strayed' \subseteq Wells
  BY <1>2, <1>4, <1>5, VisibleAreWells DEF SurfaceInv
<1>8. aligned' # None => aligned' \subseteq Wells
  BY <1>2, <1>5 DEF SurfaceInv
<1>9. WindowsInSync'
  <2>1. CASE t.ok /\ v # None
    BY <2>1, <1>4, <1>5, <1>6 DEF WindowsInSync
  <2>2. CASE ~(t.ok /\ v # None)
    <3> HIDE DEF touched
    <3> QED BY <2>2, <1>5, <1>6 DEF WindowsInSync
  <2> QED BY <2>1, <2>2
<1>10. AlignedFollow'
  <2>1. CASE t.ok
    <3>1. AtReference(session', target)
      BY <2>1, <1>4, <1>5, <1>6 DEF AtReference
    <3>2. \A w \in ToSet(wells) : FollowsTarget(session', w, target)
      BY <2>1, <1>4, <1>5, <1>6 DEF FollowsTarget
    <3>3. aligned' = touched
      BY <2>1, <1>5
    <3> QED BY <3>1, <3>2, <3>3 DEF AlignedFollow
  <2>2. CASE ~t.ok
    <3>1. \A w \in Wells : w \notin touched => SameDrawing(session, session', w)
      BY <1>4, <1>5, <1>6 DEF SameDrawing
    <3>2. aligned' # None => aligned' = aligned /\ touched \cap aligned = {}
      BY <2>2, <1>5
    <3> HIDE DEF touched
    <3> QED BY <3>1, <3>2, DrawingsKeepAlignment DEF SurfaceInv
  <2> QED BY <2>1, <2>2
<1>11. KeepsPins(session, session')
  BY <1>4, <1>5, <1>6 DEF KeepsPins
<1>12. CacheFresh => CacheFresh'
  BY <1>5, <1>11, PinsKeepTheCache DEF SurfaceInv
<1> QED BY <1>5, <1>6, <1>7, <1>8, <1>9, <1>10, <1>12 DEF SurfaceInv, Kept

\* A task ends: one slot is replaced by one with the same document,
\* presentation and window.
LEMMA TaskEndsKept ==
  ASSUME SurfaceInv, NEW w \in Wells, session' \in Sessions,
         TouchesOne(session, session', w), session'.transforms = session.transforms,
         session'.slots[w].document = session.slots[w].document,
         session'.slots[w].presentation = session.slots[w].presentation,
         session'.slots[w].viewport = session.slots[w].viewport,
         KeepsPins(session, session'),
         UNCHANGED <<cached, strayed, aligned, commands>>
  PROVE  Kept
<1>1. \A o \in Wells : SameDrawing(session, session', o)
  BY DEF TouchesOne, SameDrawing
<1>2. WindowsInSync'
  <2>1. \A o \in Wells : session'.slots[o].viewport = session.slots[o].viewport
    BY DEF TouchesOne
  <2>2. VisibleMembers(session.layout) \subseteq Wells
    BY VisibleAreWells DEF SurfaceInv
  <2> QED BY <2>1, <2>2 DEF TouchesOne, SameSurface, WindowsInSync, SurfaceInv
<1>3. AlignedFollow'
  <2>1. \A o \in Wells : o \notin {} => SameDrawing(session, session', o)
    BY <1>1
  <2>2. aligned' # None => aligned' = aligned /\ {} \cap aligned = {}
    OBVIOUS
  <2> QED BY <2>1, <2>2, DrawingsKeepAlignment DEF SurfaceInv
<1>4. CacheFresh => CacheFresh'
  BY PinsKeepTheCache DEF SurfaceInv
<1> QED BY <1>2, <1>3, <1>4 DEF Kept, SurfaceInv

LEMMA LodEndsKept ==
  ASSUME SurfaceInv, NEW w \in Wells, LodEnds(w)
  PROVE  Kept
<1> DEFINE slot == session.slots[w]
           ready == WithLod(slot)
           unavailable == WithoutLod(slot)
<1>1. session \in Sessions /\ slot \in Slots({0, 1}) /\ SlotOK(slot)
  BY DEF SurfaceInv, Sessions, SessionMaps
<1>2. slot.preparation.state = "pending" /\ slot.document \in Documents
      /\ slot.preparation \in Preparations({0, 1})
  BY <1>1 DEF LodEnds, SlotOK, Slots
<1>3. unavailable \in Slots({0, 1}) /\ SlotOK(unavailable) /\ DrawnOnTheSpot(unavailable)
  <2> DEFINE preparation == [slot.preparation EXCEPT !.state = "unavailable"]
  <2>1. preparation \in Preparations({0, 1}) /\ preparation.state = "unavailable"
        /\ preparation.revision = slot.preparation.revision
    BY <1>2 DEF Preparations, PreparationStates
  <2>2. unavailable = [slot EXCEPT !.preparation = preparation]
    BY <1>1 DEF WithoutLod, Slots
  <2> HIDE DEF preparation, unavailable
  <2> QED BY <1>1, <1>2, <2>1, <2>2 DEF Slots, SlotOK, DrawnOnTheSpot
<1>4. ready \in Slots({0, 1}) /\ SlotOK(ready) /\ DrawnOnTheSpot(ready)
  <2> DEFINE preparation == [slot.preparation EXCEPT !.state = "ready",
                                                     !.pyramids = slot.document.curves]
             generation == IF slot.presentation # None /\ slot.viewport # None THEN 1
                           ELSE slot.frame_generation
  <2>1. /\ preparation \in Preparations({0, 1}) /\ preparation.state = "ready"
        /\ preparation.revision = slot.preparation.revision
        /\ preparation.pyramids = slot.document.curves
    BY <1>2 DEF Preparations, PreparationStates, Documents
  <2>2. ready = [slot EXCEPT !.preparation = preparation, !.frame_generation = generation]
    BY <1>1 DEF WithLod, Slots
  <2>3. /\ generation \in {0, 1}
        /\ generation # 0 => slot.presentation # None /\ slot.viewport # None
    BY <1>1, <1>2 DEF Slots, SlotOK
  <2> HIDE DEF preparation, generation, ready
  <2> QED BY <1>1, <1>2, <2>1, <2>2, <2>3 DEF Slots, SlotOK, DrawnOnTheSpot
<1>5. /\ ready.document = slot.document /\ ready.presentation = slot.presentation
      /\ ready.viewport = slot.viewport /\ ready.scene = slot.scene
  BY <1>1 DEF WithLod, Slots
<1>6. /\ unavailable.document = slot.document /\ unavailable.presentation = slot.presentation
      /\ unavailable.viewport = slot.viewport /\ unavailable.scene = slot.scene
  BY <1>1 DEF WithoutLod, Slots
<1>7. \/ session' = [session EXCEPT !.slots[w] = ready]
      \/ session' = [session EXCEPT !.slots[w] = unavailable]
  <2>1. session.slots \in [Wells -> Slots({0, 1})]
    BY <1>1 DEF Sessions, SessionMaps
  <2> QED BY <2>1, <1>1 DEF LodEnds
<1> HIDE DEF ready, unavailable
<1>8. PICK s : /\ session' = [session EXCEPT !.slots[w] = s]
               /\ s \in Slots({0, 1}) /\ SlotOK(s) /\ DrawnOnTheSpot(s)
               /\ s.document = slot.document /\ s.presentation = slot.presentation
               /\ s.viewport = slot.viewport /\ s.scene = slot.scene
  BY <1>3, <1>4, <1>5, <1>6, <1>7
<1>9. /\ session' \in Sessions /\ TouchesOne(session, session', w)
      /\ session'.slots[w] = s /\ session'.transforms = session.transforms
      /\ session'.pinned = session.pinned
      /\ session'.recycled = session.recycled /\ session'.remapped = session.remapped
  BY <1>1, <1>8, SlotReplaced
<1>10. KeepsPins(session, session')
  BY <1>8, <1>9 DEF KeepsPins, TouchesOne, SameSurface, SurfaceInv, Sessions, SessionMaps
<1>11. UNCHANGED <<cached, strayed, aligned, commands>>
  BY DEF LodEnds
<1> QED BY <1>8, <1>9, <1>10, <1>11, TaskEndsKept

LEMMA FrameEndsKept ==
  ASSUME SurfaceInv, NEW w \in Wells, NEW reuse \in BOOLEAN,
         FrameEnds(w, reuse)
  PROVE  Kept
<1> DEFINE slot == session.slots[w]
           drawn == WithFrame(slot)
           dropped == WithoutFrame(slot)
           scene == [document |-> slot.document, presentation |-> slot.presentation,
                     pyramids |-> slot.preparation.pyramids, viewport |-> slot.viewport]
           P == PinnedAfterNewScene(session, w, reuse)
           R == RecycledAfterNewScene(session, w, reuse)
<1>1. session \in Sessions /\ slot \in Slots({0, 1}) /\ SlotOK(slot) /\ DrawnOnTheSpot(slot)
      /\ session.pinned \subseteq Wells /\ session.recycled \subseteq Wells
  BY DEF SurfaceInv, Sessions, SessionMaps
<1>2. /\ slot.preparation.state = "ready" /\ slot.document \in Documents
      /\ slot.presentation \in Presentations /\ slot.viewport \in Viewports
      /\ slot.preparation.pyramids = slot.document.curves
  BY <1>1 DEF FrameEnds, SlotOK, Slots
<1>3. scene \in Scenes /\ scene.document = slot.document
      /\ scene.pyramids = PyramidsFor(slot.document)
  BY <1>1, <1>2 DEF Scenes, PyramidsFor, SlotOK, Documents
<1>4. drawn = [slot EXCEPT !.frame_generation = 0, !.scene = scene]
  BY DEF WithFrame
<1>5. /\ drawn \in Slots({0, 1}) /\ SlotOK(drawn) /\ DrawnOnTheSpot(drawn)
      /\ drawn.document = slot.document /\ drawn.presentation = slot.presentation
      /\ drawn.viewport = slot.viewport
  <2> HIDE DEF scene, drawn
  <2> QED BY <1>1, <1>2, <1>3, <1>4 DEF Slots, SlotOK, DrawnOnTheSpot
<1>6. /\ dropped \in Slots({0, 1}) /\ SlotOK(dropped) /\ DrawnOnTheSpot(dropped)
      /\ dropped.document = slot.document /\ dropped.presentation = slot.presentation
      /\ dropped.viewport = slot.viewport /\ dropped.scene = slot.scene
  BY <1>1 DEF WithoutFrame, Slots, SlotOK, DrawnOnTheSpot
<1>7. session.slots \in [Wells -> Slots({0, 1})]
  BY <1>1 DEF Sessions, SessionMaps
<1>8. UNCHANGED <<cached, strayed, aligned, commands>>
  BY DEF FrameEnds
<1>9. CASE session' = [session EXCEPT !.slots[w] = WithoutFrame(@)]
  <2>1. session' = [session EXCEPT !.slots[w] = dropped]
    BY <1>7, <1>9
  <2> HIDE DEF dropped
  <2>2. /\ session' \in Sessions /\ TouchesOne(session, session', w)
        /\ session'.slots[w] = dropped /\ session'.transforms = session.transforms
        /\ session'.pinned = session.pinned
        /\ session'.recycled = session.recycled /\ session'.remapped = session.remapped
    BY <1>1, <1>6, <2>1, SlotReplaced
  <2>3. KeepsPins(session, session')
    BY <1>1, <1>6, <2>2 DEF KeepsPins, TouchesOne, SameSurface
  <2> QED BY <1>6, <1>8, <2>2, <2>3, TaskEndsKept
<1>10. CASE session' = [session EXCEPT !.slots[w] = WithFrame(@), !.pinned = P, !.recycled = R]
  <2> DEFINE r == [session EXCEPT !.slots[w] = drawn]
             t == [r EXCEPT !.pinned = P, !.recycled = R]
  <2>1. session' = t
    BY <1>7, <1>10
  <2>2. /\ P \in SUBSET Wells /\ R \in SUBSET Wells
        /\ session.recycled \subseteq R /\ P \ R \subseteq session.pinned /\ w \notin P \ R
    BY <1>1 DEF PinnedAfterNewScene, RecycledAfterNewScene
  <2> HIDE DEF drawn, P, R
  <2>3. /\ r \in Sessions /\ TouchesOne(session, r, w)
        /\ r.slots[w] = drawn /\ r.transforms = session.transforms
        /\ r.pinned = session.pinned /\ r.remapped = session.remapped
    BY <1>1, <1>5, SlotReplaced
  <2> HIDE DEF r
  <2>4. /\ t \in Sessions /\ SameSurface(r, t) /\ t.slots = r.slots
        /\ t.transforms = r.transforms /\ t.pinned = P
        /\ t.recycled = R /\ t.remapped = r.remapped
    BY <2>2, <2>3 DEF Sessions, SessionMaps, SameSurface
  <2> HIDE DEF t
  <2>5. TouchesOne(session, t, w)
    BY <2>3, <2>4 DEF TouchesOne, SameSurface
  <2>6. KeepsPins(session, t)
    BY <1>1, <2>2, <2>3, <2>4, <2>5 DEF KeepsPins, TouchesOne, SameSurface
  <2> QED BY <1>5, <1>8, <2>1, <2>3, <2>4, <2>5, <2>6, TaskEndsKept
<1> QED BY <1>9, <1>10 DEF FrameEnds

LEMMA ComposeKept ==
  ASSUME SurfaceInv, Compose
  PROVE  Kept
<1> DEFINE placements == SurfacePlacements(session)
           key == KeyOf(placements)
<1>1. session \in Sessions
  BY DEF SurfaceInv
<1>2. placements \in Seq(Placements)
  BY <1>1, ShownAreDefined
<1>3. /\ Members(placements) \subseteq Wells /\ Members(key) = Members(placements)
      /\ placements # <<>> => key # <<>>
  BY <1>2, KeysNameTheirWells
<1>4. /\ placements # <<>>
      /\ cached' = [placements |-> key, composed |-> Composed(session)]
      /\ session' = [session EXCEPT !.pinned = Members(placements), !.same_generation = TRUE,
                                    !.recycled = {}, !.remapped = {}]
      /\ UNCHANGED <<strayed, aligned, commands>>
  BY DEF Compose
<1> HIDE DEF placements, key
<1>6. /\ session' \in Sessions
      /\ session'.slots = session.slots /\ session'.transforms = session.transforms
      /\ session'.layout = session.layout /\ session'.shared = session.shared
      /\ session'.overlays = session.overlays /\ session'.same_generation
  BY <1>1, <1>3, <1>4 DEF Sessions, SessionMaps
<1>7. cached'.placements # <<>>
  BY <1>3, <1>4
<1>8. WindowsInSync'
  BY <1>4, <1>6 DEF SurfaceInv, WindowsInSync
<1>11. AlignedFollow'
  <2>1. \A o \in Wells : o \notin {} => SameDrawing(session, session', o)
    BY <1>6 DEF SameDrawing
  <2>2. aligned' # None => aligned' = aligned /\ {} \cap aligned = {}
    BY <1>4
  <2> QED BY <2>1, <2>2, DrawingsKeepAlignment DEF SurfaceInv
<1>9. ComposedAlike(Composed(session), session', key)
  <2> DEFINE now == Composed(session)
  <2>1. ComposedByKey(now, session, key)
    BY <1>1, ComposedByItsKey DEF key, placements, ComposedByKey
  <2>2. Between(session', key) = Between(session, key)
    BY <1>6 DEF Between
  <2>3. \A o : DepthTransform(session', o) = DepthTransform(session, o)
    BY <1>6 DEF DepthTransform
  <2> HIDE DEF now
  <2>4. \A i \in DOMAIN key :
          /\ now.wells[i].well = key[i].well
          /\ now.wells[i].left = key[i].left
          /\ now.wells[i].scene = session'.slots[key[i].well].scene
    BY <2>1, <1>6 DEF ComposedByKey
  <2>5. \A o \in now.overlays, i \in 1 .. 2 :
          /\ o.documents[i] = session'.slots[o.ends[i]].document
          /\ o.transforms[i] = DepthTransform(session', o.ends[i])
    BY <2>1, <2>3, <1>6 DEF ComposedByKey
  <2>6. DOMAIN now.wells = DOMAIN key /\ {o.ends : o \in now.overlays} = Between(session', key)
    BY <2>1, <2>2 DEF ComposedByKey
  <2>7. ComposedAlike(now, session', key)
    BY <2>4, <2>5, <2>6 DEF ComposedAlike
  <2> QED BY <2>7 DEF now
<1>10. CacheFresh'
  BY <1>4, <1>9 DEF CacheFresh
<1> QED BY <1>4, <1>6, <1>7, <1>8, <1>10, <1>11 DEF SurfaceInv, Kept

LEMMA StutteringKept ==
  ASSUME SurfaceInv, UNCHANGED surface_vars
  PROVE  Kept
<1>1. /\ session' = session /\ cached' = cached
      /\ strayed' = strayed /\ aligned' = aligned /\ commands' = commands
  BY DEF surface_vars
<1>2. SurfaceInv'
  BY <1>1 DEF SurfaceInv, WindowsInSync, AlignedFollow, AtReference, FollowsTarget
<1>3. CacheFresh => CacheFresh'
  <2>1. KeepsPins(session, session')
    BY <1>1 DEF KeepsPins
  <2> QED BY <1>1, <2>1, PinsKeepTheCache DEF SurfaceInv
<1> QED BY <1>2, <1>3 DEF Kept

LEMMA StepKeepsInvariant ==
  ASSUME SurfaceInv, [SurfaceNext]_surface_vars
  PROVE  Kept
<1>2. CASE Compose
  BY <1>2, ComposeKept
<1>3. ASSUME NEW w \in Wells, NEW doc \in DocumentsOf[w], SetWellDocument(w, doc) PROVE Kept
  BY <1>3, SetWellDocumentKept
<1>4. ASSUME NEW w \in Wells, NEW v \in Viewports, SetViewportMetrics(w, v) PROVE Kept
  BY <1>4, SetViewportMetricsKept
<1>5. ASSUME NEW w \in Wells, NEW v \in Viewports, SetViewport(w, v) PROVE Kept
  BY <1>5, SetViewportKept
<1>6. ASSUME NEW w \in Wells, LodEnds(w) PROVE Kept
  BY <1>6, LodEndsKept
<1>7. ASSUME NEW w \in Wells, NEW reuse \in BOOLEAN, NEW p \in Presentations,
             SetPresentation(w, p, reuse)
      PROVE  Kept
  BY <1>7, SetPresentationKept
<1>8. ASSUME NEW w \in Wells, NEW reuse \in BOOLEAN, NEW t \in Transforms,
             SetDepthTransform(w, t, reuse)
      PROVE  Kept
  BY <1>8, SetDepthTransformKept
<1>9. ASSUME NEW w \in Wells, NEW reuse \in BOOLEAN,
             NEW v \in Viewports \cup {None},
             AlignWellsToMarkers(w, OtherWells(w), v, reuse)
      PROVE  Kept
  BY <1>9, AlignWellsToMarkersKept
<1>10. ASSUME NEW w \in Wells, NEW reuse \in BOOLEAN, FrameEnds(w, reuse)
       PROVE  Kept
  BY <1>10, FrameEndsKept
<1>11. ASSUME NEW v \in Viewports, SetSharedDepthViewport(v) PROVE Kept
  BY <1>11, SetSharedDepthViewportKept
<1>12. ASSUME NEW wells \in Layouts, NEW pack \in BOOLEAN, SetWellLayout(wells, pack) PROVE Kept
  BY <1>12, SetWellLayoutKept
<1>13. CASE UNCHANGED surface_vars
  BY <1>13, StutteringKept
<1>14. CASE SurfaceNext
  BY <1>2, <1>3, <1>4, <1>5, <1>6, <1>7, <1>8, <1>9, <1>10, <1>11, <1>12, <1>14,
     DrawingCommandsKept DEF SurfaceNext
<1> QED BY <1>13, <1>14

LEMMA SurfaceInvariant ==
  SurfaceSpec => []SurfaceInv
<1>1. SurfaceInit => SurfaceInv
  BY StartsInvariant
<1>2. SurfaceInv /\ [SurfaceNext]_surface_vars => SurfaceInv'
  BY StepKeepsInvariant DEF Kept
<1> QED BY <1>1, <1>2, PTL DEF SurfaceSpec

(***************************************************************************)
(* The session's maps keep their types, no surface is cached that shows no *)
(* well and no window is shared before a well is laid out, whatever        *)
(* commands fail half-way (session.cpp, the commands over several wells).  *)
(***************************************************************************)
THEOREM SurfaceTypes ==
  SurfaceSpec => []SurfaceTypeOK
<1>1. SurfaceInv => SurfaceTypeOK
  BY DEF SurfaceInv, SurfaceTypeOK, Sessions
<1> QED BY <1>1, SurfaceInvariant, PTL

LEMMA FollowersAgree ==
  SurfaceInv => AlignedWellsAgree
<1> SUFFICES ASSUME SurfaceInv, aligned # None PROVE AlignedWellsAgree
  BY DEF AlignedWellsAgree
<1>1. PICK target \in aligned : /\ AtReference(session, target)
                                /\ \A w \in aligned : w # target => FollowsTarget(session, w, target)
  BY DEF SurfaceInv, AlignedFollow
<1>2. ASSUME NEW w \in aligned PROVE DrawnWith(w, session.transforms[w])
  <2> DEFINE slot == session.slots[w]
  <2>1. slot \in Slots({0, 1}) /\ DrawnOnTheSpot(slot)
    BY DEF SurfaceInv, Sessions, SessionMaps
  <2>2. slot.presentation = session.transforms[w] \/ slot.presentation = None
    BY <1>1 DEF AtReference, FollowsTarget
  <2>3. slot.scene # None => slot.scene.presentation # None
    BY <2>1, SlotAssumption DEF Slots, Scenes
  <2> QED BY <2>1, <2>2, <2>3 DEF DrawnWith, DrawnOnTheSpot
<1>3. \A w \in aligned \ {target} :
        session.transforms[w] = Alignment[session.slots[w].document, session.slots[target].document]
  BY <1>1 DEF FollowsTarget
<1> QED BY <1>1, <1>2, <1>3 DEF AlignedWellsAgree, AtReference

(***************************************************************************)
(* Every visible well is at the shared window unless a command of its own, *)
(* or a broadcast that failed, has moved it since; and wells aligned to    *)
(* markers are drawn alike until something else is done to them.  Neither  *)
(* depends on where the allocator puts scenes.                             *)
(***************************************************************************)
THEOREM WindowsAndAlignmentsHold ==
  SurfaceSpec => [](WindowsInSync /\ AlignedWellsAgree)
<1>1. SurfaceInv => WindowsInSync
  BY DEF SurfaceInv
<1> QED BY <1>1, FollowersAgree, SurfaceInvariant, PTL

(***************************************************************************)
(* A cache hit returns the surface that would be composed now, but for a   *)
(* well whose new scene was given the address of one that was freed, and   *)
(* for the mapping of overlays by a transform set since: the key of the    *)
(* cache (prepared_surface_scene) tells scenes apart by address, and holds *)
(* no transform.                                                           *)
(***************************************************************************)
LEMMA FreshHitsAreCurrent ==
  SurfaceInv /\ CacheFresh => CachedSurfaceIsCurrent
<1> SUFFICES ASSUME SurfaceInv, CacheFresh, CacheHit(session) PROVE CachedSurfaceIsCurrent
  BY DEF CachedSurfaceIsCurrent
<1> DEFINE key == cached.placements
           was == cached.composed
           now == Composed(session)
<1>1. session \in Sessions /\ Members(key) \subseteq session.pinned
      /\ key = KeyOf(SurfacePlacements(session))
  BY DEF SurfaceInv, CacheHit
<1>2. ComposedByKey(now, session, key)
  BY <1>1, ComposedByItsKey
<1>3. ComposedAlike(was, session, key)
  BY DEF CacheFresh, CacheHit
<1> HIDE DEF now, was, key
<1>4. \A i \in DOMAIN key : key[i].well \in session.pinned
  BY <1>1 DEF Members
<1>5. \A o \in Between(session, key), i \in 1 .. 2 : o[i] \in session.pinned
  BY <1>1 DEF Between
<1>6. /\ DOMAIN was.wells = DOMAIN now.wells
      /\ \A i \in DOMAIN now.wells :
           /\ was.wells[i].well = now.wells[i].well
           /\ was.wells[i].left = now.wells[i].left
           /\ now.wells[i].well \notin session.recycled =>
                was.wells[i].scene = now.wells[i].scene
  <2>1. DOMAIN was.wells = DOMAIN key /\ DOMAIN now.wells = DOMAIN key
    BY <1>2, <1>3 DEF ComposedByKey, ComposedAlike
  <2>2. ASSUME NEW i \in DOMAIN key
        PROVE  /\ was.wells[i].well = now.wells[i].well
               /\ was.wells[i].left = now.wells[i].left
               /\ now.wells[i].well \notin session.recycled =>
                    was.wells[i].scene = now.wells[i].scene
    <3>1. /\ now.wells[i].well = key[i].well /\ now.wells[i].left = key[i].left
          /\ now.wells[i].scene = session.slots[key[i].well].scene
      BY <1>2 DEF ComposedByKey
    <3>2. /\ was.wells[i].well = key[i].well /\ was.wells[i].left = key[i].left
          /\ key[i].well \in session.pinned \ session.recycled =>
               was.wells[i].scene = session.slots[key[i].well].scene
      BY <1>3 DEF ComposedAlike
    <3> QED BY <3>1, <3>2, <1>4
  <2> QED BY <2>1, <2>2
<1>7. {o.ends : o \in was.overlays} = {o.ends : o \in now.overlays}
  BY <1>2, <1>3 DEF ComposedByKey, ComposedAlike
<1>8. ASSUME NEW o \in now.overlays, NEW p \in was.overlays, NEW i \in 1 .. 2, p.ends = o.ends,
             o.ends[i] \notin session.recycled
      PROVE  /\ p.documents[i] = o.documents[i]
             /\ o.ends[i] \notin session.remapped => p.transforms[i] = o.transforms[i]
  <2>1. o.ends \in Between(session, key)
    BY <1>2 DEF ComposedByKey
  <2>2. o.ends[i] \in session.pinned \ session.recycled
    BY <2>1, <1>5, <1>8
  <2> QED BY <2>2, <1>2, <1>3, <1>8 DEF ComposedByKey, ComposedAlike
<1> QED BY <1>6, <1>7, <1>8 DEF CachedSurfaceIsCurrent, was, now

(***************************************************************************)
(* What the surface shows is what its wells are: windows, alignment, and   *)
(* the composed scene the cache returns.                                   *)
(***************************************************************************)
THEOREM SurfaceIsCurrent ==
  SurfaceSpec => []SurfaceShowsItsWells
<1>1. SurfaceInit => SurfaceInv /\ CacheFresh
  BY StartsInvariant
<1>2. SurfaceInv /\ CacheFresh /\ [SurfaceNext]_surface_vars => SurfaceInv' /\ CacheFresh'
  BY StepKeepsInvariant DEF Kept
<1>3. SurfaceInv /\ CacheFresh => SurfaceShowsItsWells
  BY FreshHitsAreCurrent, FollowersAgree DEF SurfaceInv, SurfaceShowsItsWells
<1> QED BY <1>1, <1>2, <1>3, PTL DEF SurfaceSpec
=============================================================================
