---------------------------- MODULE QtWidgets_proofs ----------------------------
(***************************************************************************)
(* Proofs about the two Qt widgets, which share no state.                  *)
(*                                                                         *)
(* TableSelection, for any models, documents and ranges: the rows of a     *)
(* selection are those of its depth range, models that have caught up      *)
(* mirror it, views draw what their model mirrors, and a copy holds the    *)
(* depths that are selected.                                               *)
(*                                                                         *)
(* WellLogView and the renderer it drives, for any scenes, budgets, tiles  *)
(* and resolvers and any calls that fail: the curve buffers keep their     *)
(* budget, the textures of image tiles are those of their cache and keep   *)
(* theirs, and what the widget takes for uploaded is on the GPU as a whole, *)
(* but for patterns that a failed glyph texture left behind.               *)
(***************************************************************************)
EXTENDS TableSelection, WellLogView, Loops_proofs, FiniteSetTheorems

(***************************************************************************)
(* The inductive invariant.  The span of a valid selection is the one its  *)
(* range has in the document in force.                                     *)
(***************************************************************************)
Spans == {span \in [first : Nat, last : Nat] : span.first <= span.last}

Selections == [axis : AxesOf, range : DepthRanges, valid : BOOLEAN, span : Spans]

ModelRecords ==
  [rows : Seq(Int), revision : Nat, source : AxesOf \cup {Absent},
   mirror : Spans \cup {Absent}, heard : BOOLEAN, left : SUBSET Int]

TableTypes ==
  /\ document \in Contents
  /\ revision \in Nat \ {0}
  /\ selection \in Selections \cup {Absent}
  /\ models \in [Models -> ModelRecords]
  /\ queued \in [Models -> Nat]
  /\ shown \in [Models -> SUBSET Int]
  /\ changes \in 0 .. MaxChanges

SelectionInv ==
  selection # Absent /\ selection.valid =>
    /\ selection.axis \in DOMAIN document
    /\ selection.span = rows_for_range(document[selection.axis], selection.range)

(***************************************************************************)
(* A model mirrors something only after it has heard of the selection as   *)
(* an attached model; while it has no refresh to come it mirrors what is   *)
(* selected now.  Its rows are those of the axis it is attached to, until  *)
(* the document is replaced.                                               *)
(***************************************************************************)
Hears(m) ==
  /\ models[m].heard => models[m].source # Absent
  /\ models[m].mirror # Absent => models[m].heard
  /\ models[m].heard /\ queued[m] = 0 => models[m].mirror = Reflected(models[m].source)

RowsOfSource(m) ==
  /\ models[m].revision <= revision
  /\ models[m].revision = revision /\ models[m].source # Absent =>
       /\ models[m].source \in DOMAIN document
       /\ models[m].rows = document[models[m].source].coordinates

DrawsMirror(m) ==
  /\ MirroredRows(models[m]) \subseteq shown[m]
  /\ shown[m] \subseteq MirroredRows(models[m]) \cup models[m].left

TInv ==
  /\ TableTypes
  /\ SelectionInv
  /\ \A m \in Models : Hears(m) /\ RowsOfSource(m)
  /\ CopyHoldsTheSelection

-----------------------------------------------------------------------------
(***************************************************************************)
(* Rows and depths.                                                        *)
(***************************************************************************)
LEMMA LeastRow ==
  ASSUME NEW S, S \subseteq Nat, S # {}
  PROVE  Min(S) \in S /\ \A k \in S : Min(S) <= k
<1> DEFINE R == {ss \in Nat \X Nat : ss[1] < ss[2]}
<1>1. IsWellFoundedOn(R, Nat)
  BY NatLessThanWellFounded DEF OpToRel
<1>2. PICK x \in S : \A y \in S : <<y, x>> \notin R
  <2> HIDE DEF R
  <2> QED BY <1>1, WFMin
<1>3. ASSUME NEW y \in S PROVE x <= y
  <2> SUFFICES ASSUME y < x PROVE FALSE
    BY <1>3
  <2> DEFINE ss == <<y, x>>
  <2>1. ss \in Nat \X Nat /\ ss[1] = y /\ ss[2] = x
    OBVIOUS
  <2>2. ss \in R
    <3> HIDE DEF ss
    <3> QED BY <2>1
  <2> QED BY <2>2, <1>2
<1> QED BY <1>3 DEF Min

\* The least and the greatest of two depths.
LEMMA LeastAndGreatest ==
  ASSUME NEW x \in Int, NEW y \in Int
  PROVE  Min({x, y}) \in Int /\ Max({x, y}) \in Int /\ Min({x, y}) <= Max({x, y})
<1>1. Min({x, y}) \in {x, y} /\ \A z \in {x, y} : Min({x, y}) <= z
  <2>1. \E w \in {x, y} : \A z \in {x, y} : w <= z
    BY x <= y \/ y <= x
  <2> QED BY <2>1 DEF Min
<1>2. Max({x, y}) \in {x, y} /\ \A z \in {x, y} : Max({x, y}) >= z
  <2>1. \E w \in {x, y} : \A z \in {x, y} : w >= z
    BY x <= y \/ y <= x
  <2> QED BY <2>1 DEF Max
<1> QED BY <1>1, <1>2

LEMMA FirstRowFound ==
  ASSUME NEW depths \in Seq(Int), NEW reached
  PROVE  LET first == FirstRow(depths, reached) IN
         /\ first \in 0 .. Len(depths)
         /\ first < Len(depths) => Depth(depths, first) \in reached
         /\ \A r \in RowsOf(depths) : Depth(depths, r) \in reached => first <= r
<1> DEFINE rows == {r \in RowsOf(depths) : Depth(depths, r) \in reached}
           first == FirstRow(depths, reached)
<1>1. Len(depths) \in Nat /\ rows \subseteq Nat
  BY DEF RowsOf
<1>2. CASE rows = {}
  <2>1. first = Len(depths)
    BY <1>2 DEF FirstRow
  <2> QED BY <2>1, <1>1, <1>2
<1>3. CASE rows # {}
  <2>1. first = Min(rows)
    BY <1>3 DEF FirstRow
  <2>2. Min(rows) \in rows /\ \A r \in rows : Min(rows) <= r
    BY <1>1, <1>3, LeastRow
  <2>3. first \in RowsOf(depths) /\ Depth(depths, first) \in reached
    BY <2>1, <2>2
  <2>4. first \in 0 .. Len(depths)
    BY <2>3, <1>1 DEF RowsOf
  <2> QED BY <2>1, <2>2, <2>3, <2>4
<1> QED BY <1>2, <1>3

(***************************************************************************)
(* On an ordered axis the span of a range holds the rows whose depths lie  *)
(* in it, whichever way the axis goes and however often a depth repeats.   *)
(***************************************************************************)
LEMMA RowsInRange ==
  ASSUME NEW axis \in SamplingAxes, axis_is_ordered(axis), NEW range \in DepthRanges
  PROVE  LET span == rows_for_range(axis, range) IN
         /\ span \in Spans
         /\ span.first <= span.last
         /\ SpanRows(span, axis.coordinates) =
              {r \in RowsOf(axis.coordinates) :
                 /\ range.top <= Depth(axis.coordinates, r)
                 /\ Depth(axis.coordinates, r) <= range.bottom}
<1> DEFINE depths == axis.coordinates
           n == Len(depths)
           D(r) == Depth(depths, r)
           from == {d \in Int : IF axis.increasing THEN d >= range.top
                                                   ELSE d <= range.bottom}
           past == {d \in Int : IF axis.increasing THEN d > range.bottom
                                                   ELSE d < range.top}
           first == FirstRow(depths, from)
           last == FirstRow(depths, past)
           span == rows_for_range(axis, range)
<1>1. /\ depths \in Seq(Int) /\ n \in Nat /\ range.top \in Int /\ range.bottom \in Int
      /\ axis.increasing \in BOOLEAN
  BY DEF SamplingAxes, DepthRanges
<1>2. \A r \in 0 .. n - 1 : D(r) \in Int
  BY <1>1 DEF Depth
<1>3. \A q, r \in 0 .. n - 1 :
        q <= r => IF axis.increasing THEN D(q) <= D(r) ELSE D(q) >= D(r)
  <2> SUFFICES ASSUME NEW q \in 0 .. n - 1, NEW r \in 0 .. n - 1, q <= r
               PROVE  IF axis.increasing THEN D(q) <= D(r) ELSE D(q) >= D(r)
    OBVIOUS
  <2>1. CASE q = r
    BY <2>1, <1>2
  <2>2. CASE q < r
    <3>1. q + 1 \in DOMAIN depths /\ r + 1 \in DOMAIN depths /\ q + 1 < r + 1
      BY <2>2, <1>1
    <3> QED BY <3>1 DEF axis_is_ordered, Depth
  <2> QED BY <2>1, <2>2
<1>4. /\ first \in 0 .. n /\ (first < n => D(first) \in from)
      /\ \A r \in 0 .. n - 1 : D(r) \in from => first <= r
  BY <1>1, FirstRowFound DEF RowsOf
<1>5. /\ last \in 0 .. n /\ (last < n => D(last) \in past)
      /\ \A r \in 0 .. n - 1 : D(r) \in past => last <= r
  BY <1>1, FirstRowFound DEF RowsOf
<1>6. span.first = first /\ span.last = IF last < first THEN first ELSE last
  BY DEF rows_for_range, Span
<1>7. span \in Spans /\ span.first <= span.last
  <2>1. span = Span(first, IF last < first THEN first ELSE last)
    BY DEF rows_for_range
  <2> HIDE DEF span, first, last
  <2> QED BY <2>1, <1>4, <1>5, <1>6, <1>1 DEF Span, Spans
<1> HIDE DEF span, first, last, D, n
<1>8. ASSUME NEW r \in 0 .. n - 1
      PROVE  (first <= r /\ r < last) <=> (range.top <= D(r) /\ D(r) <= range.bottom)
  <2>1. first <= r <=> D(r) \in from
    <3>1. ASSUME first <= r PROVE D(r) \in from
      <4>1. first \in 0 .. n - 1 /\ D(first) \in from
        BY <3>1, <1>1, <1>4
      <4> QED BY <3>1, <4>1, <1>1, <1>2, <1>3
    <3> QED BY <3>1, <1>4
  <2>2. last <= r <=> D(r) \in past
    <3>1. ASSUME last <= r PROVE D(r) \in past
      <4>1. last \in 0 .. n - 1 /\ D(last) \in past
        BY <3>1, <1>1, <1>5
      <4> QED BY <3>1, <4>1, <1>1, <1>2, <1>3
    <3> QED BY <3>1, <1>5
  <2>3. r < last <=> ~(last <= r)
    BY <1>1, <1>5
  <2> QED BY <2>1, <2>2, <2>3, <1>1, <1>2
<1>9. \A r \in 0 .. n - 1 :
        (span.first <= r /\ r < span.last) <=> (first <= r /\ r < last)
  BY <1>1, <1>4, <1>5, <1>6
<1>10. RowsOf(depths) = 0 .. n - 1
  BY DEF RowsOf, n
<1>11. SpanRows(span, depths) = {r \in RowsOf(depths) : range.top <= D(r) /\ D(r) <= range.bottom}
  BY <1>8, <1>9, <1>10 DEF SpanRows
<1> QED BY <1>7, <1>11 DEF span, D

\* The depths of rows are a range the session accepts.
LEMMA RowsHaveRange ==
  ASSUME NEW depths \in Seq(Int), NEW first \in Nat, NEW last \in Nat
  PROVE  range_for_rows(depths, first, last) \in DepthRanges
<1>1. CASE depths = <<>>
  BY <1>1 DEF range_for_rows, DepthRanges
<1>2. CASE depths # <<>>
  <2> DEFINE End == Len(depths) - 1
             at == IF first > End THEN End ELSE first
             to == IF last = 0 THEN 0 ELSE IF last > Len(depths) THEN End ELSE last - 1
  <2>1. End \in Nat /\ Len(depths) = End + 1
    BY <1>2
  <2>2. at \in 0 .. End /\ to \in 0 .. End
    BY <2>1
  <2>3. Depth(depths, at) \in Int /\ Depth(depths, to) \in Int
    <3> HIDE DEF at, to
    <3>1. at + 1 \in DOMAIN depths /\ to + 1 \in DOMAIN depths
      BY <2>1, <2>2
    <3> QED BY <3>1 DEF Depth
  <2> DEFINE ends == {Depth(depths, at), Depth(depths, to)}
  <2>4. Min(ends) \in Int /\ Max(ends) \in Int
    <3> HIDE DEF at, to
    <3> QED BY <2>3, LeastAndGreatest
  <2>5. range_for_rows(depths, first, last) = [top |-> Min(ends), bottom |-> Max(ends)]
    BY <1>2 DEF range_for_rows
  <2> HIDE DEF ends
  <2> QED BY <2>4, <2>5 DEF DepthRanges
<1> QED BY <1>1, <1>2

-----------------------------------------------------------------------------
(***************************************************************************)
(* What the invariant says of the session and of one model.                *)
(***************************************************************************)
LEMMA AxisOfDocument ==
  ASSUME NEW doc \in Contents, NEW axis \in DOMAIN doc
  PROVE  axis \in AxesOf /\ doc[axis] \in SamplingAxes /\ axis_is_ordered(doc[axis])
BY TableAssumption DEF AxesOf

LEMMA ModelFields ==
  ASSUME TInv, NEW m \in Models
  PROVE  /\ models[m] \in ModelRecords /\ models[m].rows \in Seq(Int)
         /\ models[m].revision \in Nat /\ models[m].source \in AxesOf \cup {Absent}
         /\ models[m].mirror \in Spans \cup {Absent} /\ models[m].heard \in BOOLEAN
         /\ models[m].left \in SUBSET Int /\ MirroredRows(models[m]) \in SUBSET Int
         /\ queued[m] \in Nat /\ shown[m] \in SUBSET Int
<1>1. models[m] \in ModelRecords /\ queued[m] \in Nat /\ shown[m] \in SUBSET Int
  BY DEF TInv, TableTypes
<1>2. MirroredRows(models[m]) \in SUBSET Int
  BY DEF MirroredRows, SpanRows, RowsOf
<1> QED BY <1>1, <1>2 DEF ModelRecords

LEMMA SelectionFields ==
  ASSUME TInv, selection # Absent
  PROVE  /\ selection \in Selections /\ selection.axis \in AxesOf
         /\ selection.range \in DepthRanges /\ selection.valid \in BOOLEAN
         /\ selection.span \in Spans
<1>1. selection \in Selections
  BY DEF TInv, TableTypes
<1> QED BY <1>1 DEF Selections

LEMMA ReflectedType ==
  ASSUME TInv, NEW source
  PROVE  Reflected(source) \in Spans \cup {Absent}
BY SelectionFields DEF Reflected

\* A copy that is kept was checked when it was taken.
LEMMA CopyKept ==
  ASSUME TInv, UNCHANGED clipboard
  PROVE  CopyHoldsTheSelection'
BY DEF TInv, CopyHoldsTheSelection

-----------------------------------------------------------------------------
(***************************************************************************)
(* The session's commands.  A model that is attached has a refresh to come *)
(* after each, so nothing need be known of its mirror until that runs.     *)
(***************************************************************************)
LEMMA NotifyQueues ==
  ASSUME TInv, Notify, UNCHANGED models
  PROVE  queued' \in [Models -> Nat] /\ \A m \in Models : Hears(m)'
<1>1. queued' \in [Models -> Nat]
  BY DEF Notify, TInv, TableTypes
<1>2. ASSUME NEW m \in Models PROVE Hears(m)'
  <2>1. models[m].source # Absent => queued'[m] # 0
    BY ModelFields DEF Notify
  <2>2. Hears(m)
    BY DEF TInv
  <2> QED BY <2>1, <2>2 DEF Hears
<1> QED BY <1>1, <1>2

\* The rows of a model do not depend on the selection.
LEMMA RowsKept ==
  ASSUME TInv, UNCHANGED <<document, revision, models>>, NEW m \in Models
  PROVE  RowsOfSource(m)'
<1>1. RowsOfSource(m)
  BY DEF TInv
<1> QED BY <1>1 DEF RowsOfSource

LEMMA SelectKeepsTInv ==
  ASSUME TInv, NEW axis \in DOMAIN document, NEW range \in DepthRanges,
         Counted, Select(axis, range), Notify,
         UNCHANGED <<document, revision, models, shown, clipboard>>
  PROVE  TInv'
<1> DEFINE span == rows_for_range(document[axis], range)
<1>1. document \in Contents
  BY DEF TInv, TableTypes
<1>2. axis \in AxesOf /\ span \in Spans
  BY <1>1, AxisOfDocument, RowsInRange
<1>3. selection' = [axis |-> axis, range |-> range, valid |-> TRUE, span |-> span]
  BY DEF Select
<1>4. TableTypes'
  <2>1. selection' \in Selections
    <3> HIDE DEF span
    <3> QED BY <1>2, <1>3 DEF Selections
  <2>2. changes' \in 0 .. MaxChanges
    BY TableAssumption DEF Counted, TInv, TableTypes
  <2> QED BY <2>1, <2>2, NotifyQueues DEF TInv, TableTypes
<1>5. SelectionInv'
  <2>1. selection'.axis = axis /\ selection'.range = range /\ selection'.span = span
    BY <1>3
  <2> QED BY <2>1 DEF SelectionInv
<1> QED BY <1>4, <1>5, NotifyQueues, RowsKept, CopyKept DEF TInv

LEMMA SetSelectionKeepsTInv ==
  ASSUME TInv, NEW axis \in AxesOf, NEW range \in Ranges, SetSelection(axis, range)
  PROVE  TInv'
BY SelectKeepsTInv, TableAssumption DEF SetSelection

LEMMA SetRowSelectionKeepsTInv ==
  ASSUME TInv, NEW m \in Models, NEW first \in 0 .. MaxRow, NEW last \in 0 .. MaxRow,
         set_row_selection(m, first, last)
  PROVE  TInv'
<1> DEFINE source == models[m].source
           depths == document[source].coordinates
<1>1. document \in Contents /\ source \in DOMAIN document
  BY DEF set_row_selection, TInv, TableTypes
<1>2. depths \in Seq(Int)
  BY <1>1, AxisOfDocument DEF SamplingAxes
<1>3. first \in Nat /\ last \in Nat
  BY TableAssumption
<1>4. range_for_rows(depths, first, last) \in DepthRanges
  BY <1>2, <1>3, RowsHaveRange
<1> QED BY <1>1, <1>4, SelectKeepsTInv DEF set_row_selection

LEMMA ClearSelectionKeepsTInv ==
  ASSUME TInv, ClearSelection
  PROVE  TInv'
<1>1. TableTypes'
  <2>1. changes' \in 0 .. MaxChanges
    BY TableAssumption DEF ClearSelection, Counted, TInv, TableTypes
  <2> QED BY <2>1, NotifyQueues DEF ClearSelection, TInv, TableTypes
<1>2. SelectionInv'
  BY DEF ClearSelection, SelectionInv
<1> QED BY <1>1, <1>2, NotifyQueues, RowsKept, CopyKept DEF ClearSelection, TInv

\* The document is replaced: a selection that stays valid has the rows its
\* range has in the new document.
LEMMA RemappedSelection ==
  ASSUME TInv, NEW doc \in Contents, selection # Absent
  PROVE  LET kept == Remapped(selection, doc) IN
         /\ kept \in Selections
         /\ kept.valid => /\ kept.axis \in DOMAIN doc
                          /\ kept.span = rows_for_range(doc[kept.axis], kept.range)
<1> DEFINE sel == selection
           depths == doc[sel.axis].coordinates
           span == rows_for_range(doc[sel.axis], sel.range)
           extent == range_for_rows(depths, 0, Len(depths))
           kept == Remapped(selection, doc)
           stays == sel.axis \in DOMAIN doc /\ span.last > span.first
                    /\ sel.range.top >= extent.top /\ sel.range.bottom <= extent.bottom
<1>1. /\ sel \in Selections /\ sel.axis \in AxesOf /\ sel.range \in DepthRanges
      /\ sel.span \in Spans
  BY SelectionFields
<1>2. CASE stays
  <2>1. kept = [[sel EXCEPT !.span = span] EXCEPT !.valid = TRUE]
    BY <1>2 DEF Remapped
  <2>2. span \in Spans
    BY <1>1, <1>2, AxisOfDocument, RowsInRange
  <2>3. /\ kept \in Selections /\ kept.axis = sel.axis /\ kept.range = sel.range
        /\ kept.span = span
    <3> HIDE DEF span, kept
    <3> QED BY <1>1, <2>1, <2>2 DEF Selections
  <2> QED BY <2>3, <1>2
<1>3. CASE ~stays
  <2>1. kept = [sel EXCEPT !.valid = FALSE]
    BY <1>3 DEF Remapped
  <2>2. kept \in Selections /\ kept.valid = FALSE
    <3> HIDE DEF kept
    <3> QED BY <1>1, <2>1 DEF Selections
  <2> QED BY <2>2
<1> QED BY <1>2, <1>3

LEMMA SetDocumentKeepsTInv ==
  ASSUME TInv, NEW doc \in Contents, SetDocument(doc)
  PROVE  TInv'
<1>1. /\ document' = doc /\ revision' = revision + 1 /\ UNCHANGED <<models, shown, clipboard>>
      /\ selection' = Remapped(selection, doc)
  BY DEF SetDocument
<1>2. revision \in Nat \ {0} /\ changes' \in 0 .. MaxChanges
  BY TableAssumption DEF SetDocument, Counted, TInv, TableTypes
<1>3. queued' \in [Models -> Nat] /\ \A m \in Models : Hears(m)'
  <2>1. CASE selection = Absent
    <3>1. UNCHANGED queued /\ selection' = Absent
      BY <2>1 DEF SetDocument, Remapped
    <3>2. ASSUME NEW source PROVE Reflected(source)' = Reflected(source)
      BY <2>1, <3>1 DEF Reflected
    <3>3. ASSUME NEW m \in Models PROVE Hears(m)'
      <4>1. Hears(m)
        BY DEF TInv
      <4> QED BY <4>1, <3>1, <3>2, <1>1 DEF Hears
    <3> QED BY <3>1, <3>3 DEF TInv, TableTypes
  <2>2. CASE selection # Absent
    BY <2>2, <1>1, NotifyQueues DEF SetDocument
  <2> QED BY <2>1, <2>2
<1>4. TableTypes'
  <2>1. selection' \in Selections \cup {Absent}
    BY <1>1, RemappedSelection DEF Remapped
  <2> QED BY <1>1, <1>2, <1>3, <2>1 DEF TInv, TableTypes
<1>5. SelectionInv'
  BY <1>1, RemappedSelection DEF SelectionInv, Remapped
<1>6. ASSUME NEW m \in Models PROVE RowsOfSource(m)'
  <2>1. RowsOfSource(m) /\ models[m].revision \in Nat
    BY ModelFields DEF TInv
  <2> QED BY <2>1, <1>1, <1>2 DEF RowsOfSource
<1> QED BY <1>1, <1>3, <1>4, <1>5, <1>6, CopyKept DEF TInv

-----------------------------------------------------------------------------
(***************************************************************************)
(* The steps of a model.  Each changes the record of one model only.       *)
(***************************************************************************)
LEMMA OneModelChanges ==
  ASSUME TInv, NEW m \in Models, NEW next \in ModelRecords,
         models' = [models EXCEPT ![m] = next],
         UNCHANGED <<document, revision, selection, clipboard, changes>>,
         queued' \in [Models -> Nat], shown' \in [Models -> SUBSET Int],
         \A k \in Models \ {m} : queued'[k] = queued[k],
         Hears(m)', RowsOfSource(m)'
  PROVE  TInv'
<1>1. TableTypes'
  BY DEF TInv, TableTypes
<1>2. SelectionInv'
  BY DEF TInv, SelectionInv
<1>3. ASSUME NEW k \in Models \ {m} PROVE Hears(k)' /\ RowsOfSource(k)'
  <2>1. Hears(k) /\ RowsOfSource(k) /\ models'[k] = models[k] /\ queued'[k] = queued[k]
    BY DEF TInv, TableTypes
  <2>2. Reflected(models[k].source)' = Reflected(models'[k].source)
    BY <2>1 DEF Reflected
  <2>3. Hears(k)'
    BY <2>1 DEF Hears, Reflected
  <2> QED BY <2>1, <2>3 DEF RowsOfSource
<1> QED BY <1>1, <1>2, <1>3, CopyKept DEF TInv

LEMMA ClearedFields ==
  /\ Cleared \in ModelRecords /\ Cleared.revision = 0 /\ Cleared.source = Absent
  /\ Cleared.mirror = Absent /\ Cleared.heard = FALSE /\ Cleared.left = {}
<1> DEFINE none == <<>>
<1>1. none \in Seq(Int)
  OBVIOUS
<1> HIDE DEF none
<1>2. Cleared = [rows |-> none, revision |-> 0, source |-> Absent, mirror |-> Absent,
                 heard |-> FALSE, left |-> {}]
  BY DEF Cleared, none
<1> QED BY <1>1, <1>2 DEF ModelRecords

LEMMA SetProjectionKeepsTInv ==
  ASSUME TInv, NEW m \in Models, NEW axis \in AxesOf, set_projection(m, axis)
  PROVE  TInv'
<1> DEFINE rows == document[axis].coordinates
           first == [Cleared EXCEPT !.rows = rows]
           next == [first EXCEPT !.revision = revision]
<1>1. /\ models' = [models EXCEPT ![m] = next]
      /\ shown' = [shown EXCEPT ![m] = {}] /\ axis \in DOMAIN document
      /\ UNCHANGED <<document, revision, selection, queued, clipboard, changes>>
  BY DEF set_projection
<1>2. rows \in Seq(Int) /\ revision \in Nat
  <2>1. document \in Contents /\ revision \in Nat
    BY DEF TInv, TableTypes
  <2> QED BY <2>1, <1>1, AxisOfDocument DEF SamplingAxes
<1> HIDE DEF rows
<1>3. /\ next \in ModelRecords /\ next.revision = revision /\ next.source = Absent
      /\ next.mirror = Absent /\ next.heard = FALSE
  <2>1. /\ first \in ModelRecords /\ first.source = Absent /\ first.mirror = Absent
        /\ first.heard = FALSE
    BY <1>2, ClearedFields DEF ModelRecords
  <2> HIDE DEF first
  <2> QED BY <1>2, <2>1 DEF ModelRecords
<1> HIDE DEF next
<1>4. models'[m] = next
  BY <1>1 DEF TInv, TableTypes
<1>5. Hears(m)' /\ RowsOfSource(m)'
  BY <1>1, <1>2, <1>3, <1>4 DEF Hears, RowsOfSource
<1>6. /\ queued' \in [Models -> Nat] /\ shown' \in [Models -> SUBSET Int]
      /\ \A k \in Models \ {m} : queued'[k] = queued[k]
  BY <1>1 DEF TInv, TableTypes
<1> QED BY <1>1, <1>3, <1>5, <1>6, OneModelChanges

LEMMA SetSourceKeepsTInv ==
  ASSUME TInv, NEW m \in Models, NEW axis \in AxesOf \cup {Absent},
         set_session_selection_source(m, axis)
  PROVE  TInv'
<1> DEFINE model == models[m]
           first == [model EXCEPT !.source = axis]
           second == [first EXCEPT !.mirror = Absent]
           third == [second EXCEPT !.heard = FALSE]
           remains == model.left \cup MirroredRows(model)
           next == [third EXCEPT !.left = remains]
<1>1. /\ models' = [models EXCEPT ![m] = next]
      /\ UNCHANGED <<document, revision, selection, queued, shown, clipboard, changes>>
      /\ axis # Absent => axis \in DOMAIN document /\ model.rows = document[axis].coordinates
  BY DEF set_session_selection_source, TInv, TableTypes
<1>2. /\ model \in ModelRecords /\ model.revision \in Nat /\ model.revision <= revision
      /\ remains \in SUBSET Int
  BY ModelFields DEF TInv, RowsOfSource
<1> HIDE DEF model, remains
<1>3. /\ next \in ModelRecords /\ next.rows = model.rows /\ next.revision = model.revision
      /\ next.source = axis /\ next.mirror = Absent /\ next.heard = FALSE
  <2>1. /\ first \in ModelRecords /\ first.rows = model.rows
        /\ first.revision = model.revision /\ first.source = axis
    BY <1>2 DEF ModelRecords
  <2> HIDE DEF first
  <2>2. /\ second \in ModelRecords /\ second.rows = model.rows
        /\ second.revision = model.revision /\ second.source = axis /\ second.mirror = Absent
    BY <2>1 DEF ModelRecords
  <2> HIDE DEF second
  <2>3. /\ third \in ModelRecords /\ third.rows = model.rows
        /\ third.revision = model.revision /\ third.source = axis /\ third.mirror = Absent
        /\ third.heard = FALSE
    BY <2>2 DEF ModelRecords
  <2> HIDE DEF third
  <2> QED BY <1>2, <2>3 DEF ModelRecords
<1> HIDE DEF next
<1>4. models'[m] = next
  BY <1>1 DEF TInv, TableTypes
<1>5. Hears(m)' /\ RowsOfSource(m)'
  BY <1>1, <1>2, <1>3, <1>4 DEF Hears, RowsOfSource
<1>6. /\ queued' \in [Models -> Nat] /\ shown' \in [Models -> SUBSET Int]
      /\ \A k \in Models \ {m} : queued'[k] = queued[k]
  BY <1>1 DEF TInv, TableTypes
<1> QED BY <1>1, <1>3, <1>5, <1>6, OneModelChanges

\* A refresh of an attached model.
LEMMA RefreshFields ==
  ASSUME TInv, NEW m \in Models, models[m].source # Absent, refresh_session_selection(m)
  PROVE  LET model == models[m]
             next == Reflected(model.source)
             changed == ChangedRows(model, next)
             taken == IF next = Absent THEN {} ELSE SpanRows(next, model.rows)
             drawn == (shown[m] \ changed) \cup (changed \cap taken)
         IN  \E record \in ModelRecords :
               /\ record.rows = model.rows /\ record.revision = model.revision
               /\ record.source = model.source /\ record.mirror = next /\ record.heard = TRUE
               /\ record.left = model.left \ changed
               /\ models' = [models EXCEPT ![m] = record] /\ models'[m] = record
               /\ shown' = [shown EXCEPT ![m] = drawn] /\ shown' \in [Models -> SUBSET Int]
<1> DEFINE model == models[m]
           next == Reflected(model.source)
           changed == ChangedRows(model, next)
           taken == IF next = Absent THEN {} ELSE SpanRows(next, model.rows)
           drawn == (shown[m] \ changed) \cup (changed \cap taken)
           first == [model EXCEPT !.mirror = next]
           second == [first EXCEPT !.heard = TRUE]
           remains == model.left \ changed
           record == [second EXCEPT !.left = remains]
<1>1. next \in Spans \cup {Absent} /\ model \in ModelRecords /\ remains \in SUBSET Int
  BY ReflectedType, ModelFields
<1>2. models' = [models EXCEPT ![m] = record] /\ shown' = [shown EXCEPT ![m] = drawn]
  BY DEF refresh_session_selection, TInv, TableTypes
<1>3. /\ record \in ModelRecords
      /\ record.rows = model.rows /\ record.revision = model.revision
      /\ record.source = model.source /\ record.mirror = next /\ record.heard = TRUE
      /\ record.left = remains
  <2> HIDE DEF model, next, remains
  <2>1. /\ first \in ModelRecords /\ first.rows = model.rows
        /\ first.revision = model.revision /\ first.source = model.source
        /\ first.mirror = next
    BY <1>1 DEF ModelRecords
  <2> HIDE DEF first
  <2>2. /\ second \in ModelRecords /\ second.rows = model.rows
        /\ second.revision = model.revision /\ second.source = model.source
        /\ second.mirror = next /\ second.heard = TRUE
    BY <2>1 DEF ModelRecords
  <2> HIDE DEF second
  <2> QED BY <1>1, <2>2 DEF ModelRecords
<1>4. models'[m] = record
  <2> HIDE DEF record
  <2> QED BY <1>2 DEF TInv, TableTypes
<1>5. shown' \in [Models -> SUBSET Int]
  <2>1. shown[m] \in SUBSET Int
    BY ModelFields
  <2>2. taken \subseteq Int
    BY ModelFields DEF SpanRows, RowsOf
  <2>3. drawn \in SUBSET Int
    BY <2>1, <2>2
  <2> HIDE DEF drawn
  <2> QED BY <1>2, <2>3 DEF TInv, TableTypes
<1> HIDE DEF record, drawn, next, model, changed, remains
<1>6. /\ record.rows = model.rows /\ record.revision = model.revision
      /\ record.source = model.source /\ record.mirror = next /\ record.heard = TRUE
      /\ record.left = remains
      /\ models' = [models EXCEPT ![m] = record] /\ models'[m] = record
      /\ shown' = [shown EXCEPT ![m] = drawn] /\ shown' \in [Models -> SUBSET Int]
  BY <1>2, <1>3, <1>4, <1>5
<1> QED BY <1>3, <1>6 DEF drawn, next, model, changed, remains

LEMMA RefreshKeepsTInv ==
  ASSUME TInv, NEW m \in Models, models[m].source # Absent, refresh_session_selection(m),
         UNCHANGED <<document, revision, selection, clipboard, changes>>,
         queued' \in [Models -> Nat],
         \A k \in Models \ {m} : queued'[k] = queued[k]
  PROVE  TInv'
<1> DEFINE next == Reflected(models[m].source)
<1>1. PICK record \in ModelRecords :
        /\ record.rows = models[m].rows /\ record.revision = models[m].revision
        /\ record.source = models[m].source /\ record.mirror = next /\ record.heard = TRUE
        /\ models' = [models EXCEPT ![m] = record] /\ models'[m] = record
        /\ shown' \in [Models -> SUBSET Int]
  BY RefreshFields
<1>2. Hears(m)' /\ RowsOfSource(m)'
  <2>1. RowsOfSource(m)
    BY DEF TInv
  <2>2. Reflected(models[m].source)' = next
    BY <1>1 DEF Reflected
  <2>3. Hears(m)'
    <3> HIDE DEF next
    <3> QED BY <1>1, <2>2 DEF Hears
  <2> QED BY <2>1, <2>3, <1>1 DEF RowsOfSource
<1> QED BY <1>1, <1>2, OneModelChanges

LEMMA RunQueuedKeepsTInv ==
  ASSUME TInv, NEW m \in Models, RunQueued(m)
  PROVE  TInv'
<1>1. /\ queued' \in [Models -> Nat]
      /\ \A k \in Models \ {m} : queued'[k] = queued[k]
      /\ UNCHANGED <<document, revision, selection, clipboard, changes>>
      /\ refresh_session_selection(m)
  <2>1. queued[m] - 1 \in Nat
    BY ModelFields DEF RunQueued
  <2> QED BY <2>1 DEF RunQueued, TInv, TableTypes
<1>2. CASE models[m].source = Absent
  <2>1. UNCHANGED <<models, shown>>
    BY <1>1, <1>2 DEF refresh_session_selection
  <2>2. ASSUME NEW k \in Models PROVE Hears(k)' /\ RowsOfSource(k)'
    <3>1. Hears(k) /\ RowsOfSource(k) /\ (k # m => queued'[k] = queued[k])
      BY <1>1 DEF TInv
    <3>2. ASSUME NEW source PROVE Reflected(source)' = Reflected(source)
      BY <1>1 DEF Reflected
    <3>3. Hears(k)'
      BY <3>1, <3>2, <2>1, <1>2 DEF Hears
    <3> QED BY <3>1, <3>3, <2>1, <1>1 DEF RowsOfSource
  <2>3. TableTypes' /\ SelectionInv'
    BY <1>1, <2>1 DEF TInv, TableTypes, SelectionInv
  <2> QED BY <1>1, <2>2, <2>3, CopyKept DEF TInv
<1>3. CASE models[m].source # Absent
  BY <1>1, <1>3, RefreshKeepsTInv
<1> QED BY <1>2, <1>3

LEMMA HostRefreshKeepsTInv ==
  ASSUME TInv, NEW m \in Models, HostRefresh(m)
  PROVE  TInv'
<1>1. queued' \in [Models -> Nat] /\ \A k \in Models \ {m} : queued'[k] = queued[k]
  BY DEF HostRefresh, TInv, TableTypes
<1> QED BY <1>1, RefreshKeepsTInv DEF HostRefresh

\* A copy taken with no refresh to come and the rows of the document in force
\* holds the depths of the rows the session has selected.
LEMMA CopyKeepsTInv ==
  ASSUME TInv, NEW m \in Models, Copy(m)
  PROVE  TInv'
<1> DEFINE model == models[m]
           depths == document[selection.axis].coordinates
<1>1. UNCHANGED <<document, revision, selection, models, queued, shown, changes>>
  BY DEF Copy
<1>2. TableTypes' /\ SelectionInv' /\ \A k \in Models : Hears(k)' /\ RowsOfSource(k)'
  <2>1. TableTypes' /\ SelectionInv'
    BY <1>1 DEF TInv, TableTypes, SelectionInv
  <2>2. ASSUME NEW k \in Models PROVE Hears(k)' /\ RowsOfSource(k)'
    <3>1. Hears(k) /\ RowsOfSource(k)
      BY DEF TInv
    <3>2. ASSUME NEW source PROVE Reflected(source)' = Reflected(source)
      BY <1>1 DEF Reflected
    <3> QED BY <3>1, <3>2, <1>1 DEF Hears, RowsOfSource
  <2> QED BY <2>1, <2>2
<1>3. /\ clipboard'.agree = (queued[m] = 0 /\ model.revision = revision)
      /\ clipboard'.large = (Cardinality(CopiedRows(model)) * Columns > CellLimit)
      /\ clipboard'.depths = (IF Cardinality(CopiedRows(model)) * Columns > CellLimit THEN {}
                              ELSE {Depth(model.rows, r) : r \in CopiedRows(model)})
      /\ clipboard'.selected = SelectedDepths
  BY DEF Copy
<1>4. ASSUME clipboard'.agree, ~clipboard'.large
      PROVE  clipboard'.depths = clipboard'.selected
  <2>1. queued[m] = 0 /\ model.revision = revision /\ model.mirror # Absent
    BY <1>3, <1>4 DEF Copy
  <2>2. model.source # Absent /\ model.mirror = Reflected(model.source)
    BY <2>1 DEF TInv, Hears
  <2>3. /\ selection # Absent /\ selection.valid /\ selection.axis = model.source
        /\ model.mirror = selection.span
    BY <2>1, <2>2 DEF Reflected
  <2>4. /\ selection.axis \in DOMAIN document /\ model.rows = depths
        /\ selection.span = rows_for_range(document[selection.axis], selection.range)
    BY <2>1, <2>2, <2>3 DEF TInv, RowsOfSource, SelectionInv
  <2>5. document[selection.axis] \in SamplingAxes /\ axis_is_ordered(document[selection.axis])
    BY <2>4, AxisOfDocument DEF TInv, TableTypes
  <2>6. SpanRows(selection.span, depths) =
          {r \in RowsOf(depths) : /\ selection.range.top <= Depth(depths, r)
                                  /\ Depth(depths, r) <= selection.range.bottom}
    BY <2>3, <2>4, <2>5, SelectionFields, RowsInRange
  <2>7. CopiedRows(model) = SpanRows(selection.span, depths)
    BY <2>3, <2>4 DEF CopiedRows
  <2>8. clipboard'.depths = {Depth(depths, r) : r \in SpanRows(selection.span, depths)}
    BY <1>3, <1>4, <2>4, <2>7
  <2>9. SelectedDepths = {d \in {Depth(depths, r) : r \in RowsOf(depths)} :
                            selection.range.top <= d /\ d <= selection.range.bottom}
    BY <2>3 DEF SelectedDepths
  <2> HIDE DEF depths
  <2> QED BY <1>3, <2>6, <2>8, <2>9
<1>5. CopyHoldsTheSelection'
  BY <1>4 DEF CopyHoldsTheSelection
<1> QED BY <1>2, <1>5 DEF TInv

-----------------------------------------------------------------------------
LEMMA InitTInv == Init => TInv
<1> SUFFICES ASSUME Init PROVE TInv
  OBVIOUS
<1>3. TableTypes
  BY ClearedFields, TableAssumption DEF Init, TableTypes
<1>4. \A m \in Models : Hears(m) /\ RowsOfSource(m)
  BY ClearedFields DEF Init, Hears, RowsOfSource
<1> QED BY <1>3, <1>4 DEF Init, TInv, SelectionInv, CopyHoldsTheSelection

LEMMA NextKeepsTInv == TInv /\ [Next]_vars => TInv'
<1> SUFFICES ASSUME TInv, [Next]_vars PROVE TInv'
  OBVIOUS
<1>1. ASSUME NEW axis \in AxesOf, NEW range \in Ranges, SetSelection(axis, range) PROVE TInv'
  BY <1>1, SetSelectionKeepsTInv
<1>2. ASSUME ClearSelection PROVE TInv'
  BY <1>2, ClearSelectionKeepsTInv
<1>3. ASSUME NEW doc \in Contents, SetDocument(doc) PROVE TInv'
  BY <1>3, SetDocumentKeepsTInv
<1>4. ASSUME NEW m \in Models,
             \/ \E first, last \in 0 .. MaxRow : set_row_selection(m, first, last)
             \/ \E axis \in AxesOf : set_projection(m, axis)
             \/ \E axis \in AxesOf \cup {Absent} : set_session_selection_source(m, axis)
             \/ RunQueued(m)
             \/ HostRefresh(m)
             \/ Copy(m)
      PROVE  TInv'
  BY <1>4, SetRowSelectionKeepsTInv, SetProjectionKeepsTInv, SetSourceKeepsTInv,
     RunQueuedKeepsTInv, HostRefreshKeepsTInv, CopyKeepsTInv
<1>5. ASSUME UNCHANGED vars PROVE TInv'
  <2>1. UNCHANGED <<document, revision, selection, models, queued, shown, clipboard, changes>>
    BY <1>5 DEF vars
  <2>2. TableTypes' /\ SelectionInv'
    BY <2>1 DEF TInv, TableTypes, SelectionInv
  <2>3. ASSUME NEW k \in Models PROVE Hears(k)' /\ RowsOfSource(k)'
    <3>1. Hears(k) /\ RowsOfSource(k)
      BY DEF TInv
    <3>2. ASSUME NEW source PROVE Reflected(source)' = Reflected(source)
      BY <2>1 DEF Reflected
    <3> QED BY <3>1, <3>2, <2>1 DEF Hears, RowsOfSource
  <2> QED BY <2>1, <2>2, <2>3, CopyKept DEF TInv
<1> QED BY <1>1, <1>2, <1>3, <1>4, <1>5 DEF Next

(***************************************************************************)
(* What the views draw: what a model mirrors, and what it mirrored when it *)
(* was attached again, which drops the mirror without a word to them.      *)
(***************************************************************************)
LEMMA InitDraws == Init => \A m \in Models : DrawsMirror(m)
BY DEF Init, DrawsMirror, Cleared, MirroredRows

LEMMA OthersDraw ==
  ASSUME TInv, NEW m \in Models, NEW record, NEW rows,
         models' = [models EXCEPT ![m] = record], shown' = [shown EXCEPT ![m] = rows],
         NEW k \in Models, DrawsMirror(k), k # m
  PROVE  DrawsMirror(k)'
BY DEF DrawsMirror, TInv, TableTypes

LEMMA RefreshDraws ==
  ASSUME TInv, NEW m \in Models, refresh_session_selection(m),
         NEW k \in Models, DrawsMirror(m), DrawsMirror(k)
  PROVE  DrawsMirror(k)'
<1> DEFINE model == models[m]
           next == Reflected(model.source)
           changed == ChangedRows(model, next)
           taken == IF next = Absent THEN {} ELSE SpanRows(next, model.rows)
           drawn == (shown[m] \ changed) \cup (changed \cap taken)
<1>1. CASE model.source = Absent
  <2>1. UNCHANGED <<models, shown>>
    BY <1>1 DEF refresh_session_selection
  <2> QED BY <2>1 DEF DrawsMirror
<1>2. CASE model.source # Absent
  <2>1. PICK record \in ModelRecords :
          /\ record.rows = model.rows /\ record.mirror = next
          /\ record.left = model.left \ changed
          /\ models' = [models EXCEPT ![m] = record] /\ models'[m] = record
          /\ shown' = [shown EXCEPT ![m] = drawn]
    BY <1>2, RefreshFields
  <2>2. CASE k # m
    <3> HIDE DEF drawn
    <3> QED BY <2>1, <2>2, OthersDraw
  <2>3. CASE k = m
    <3>1. shown'[m] = drawn
      BY <2>1 DEF TInv, TableTypes
    <3>2. changed = MirroredRows(model) \cup taken
      BY DEF ChangedRows
    <3>3. /\ taken \subseteq drawn
          /\ drawn \subseteq taken \cup (model.left \ changed)
      BY <3>2 DEF DrawsMirror
    <3>4. /\ models'[m].mirror = next /\ models'[m].rows = model.rows
          /\ models'[m].left = model.left \ changed
      BY <2>1
    <3> HIDE DEF model, next, drawn, changed
    <3>5. MirroredRows(models'[m]) = taken
      BY <3>4 DEF MirroredRows
    <3> HIDE DEF taken
    <3> QED BY <2>3, <3>1, <3>3, <3>4, <3>5 DEF DrawsMirror
  <2> QED BY <2>2, <2>3
<1> QED BY <1>1, <1>2

LEMMA NextKeepsDraws ==
  ASSUME TInv, \A m \in Models : DrawsMirror(m), [Next]_vars, NEW k \in Models
  PROVE  DrawsMirror(k)'
<1>1. ASSUME UNCHANGED <<models, shown>> PROVE DrawsMirror(k)'
  BY <1>1 DEF DrawsMirror
<1>2. ASSUME NEW axis \in AxesOf, NEW range \in Ranges, SetSelection(axis, range)
      PROVE  DrawsMirror(k)'
  BY <1>1, <1>2 DEF SetSelection
<1>3. ASSUME ClearSelection PROVE DrawsMirror(k)'
  BY <1>1, <1>3 DEF ClearSelection
<1>4. ASSUME NEW doc \in Contents, SetDocument(doc) PROVE DrawsMirror(k)'
  BY <1>1, <1>4 DEF SetDocument
<1>5. ASSUME NEW m \in Models, NEW first \in 0 .. MaxRow, NEW last \in 0 .. MaxRow,
             set_row_selection(m, first, last)
      PROVE  DrawsMirror(k)'
  BY <1>1, <1>5 DEF set_row_selection
<1>6. ASSUME NEW m \in Models, NEW axis \in AxesOf, set_projection(m, axis) PROVE DrawsMirror(k)'
  <2> DEFINE record == [Cleared EXCEPT !.rows = document[axis].coordinates, !.revision = revision]
             rows == {}
  <2>1. models' = [models EXCEPT ![m] = record] /\ shown' = [shown EXCEPT ![m] = rows]
    BY <1>6 DEF set_projection
  <2>2. record.mirror = Absent
    BY DEF Cleared
  <2> HIDE DEF record
  <2>3. CASE k # m
    <3> HIDE DEF rows
    <3> QED BY <2>1, <2>3, OthersDraw
  <2>4. CASE k = m
    BY <2>1, <2>2, <2>4 DEF DrawsMirror, MirroredRows, TInv, TableTypes
  <2> QED BY <2>3, <2>4
<1>7. ASSUME NEW m \in Models, NEW axis \in AxesOf \cup {Absent},
             set_session_selection_source(m, axis)
      PROVE  DrawsMirror(k)'
  <2> DEFINE model == models[m]
             remains == model.left \cup MirroredRows(model)
             unheard == [[[model EXCEPT !.source = axis] EXCEPT !.mirror = Absent]
                                        EXCEPT !.heard = FALSE]
             record == [unheard EXCEPT !.left = remains]
  <2>1. models' = [models EXCEPT ![m] = record] /\ UNCHANGED shown
    BY <1>7 DEF set_session_selection_source, TInv, TableTypes
  <2>2. record.mirror = Absent /\ record.left = remains
    <3>1. model \in ModelRecords
      BY ModelFields
    <3> HIDE DEF model, remains
    <3> QED BY <3>1 DEF ModelRecords
  <2>3. CASE k = m
    <3>1. models'[m] = record
      BY <2>1 DEF TInv, TableTypes
    <3>2. MirroredRows(record) = {}
      BY <2>2 DEF MirroredRows
    <3>3. shown[m] \subseteq remains
      BY DEF DrawsMirror
    <3> HIDE DEF record, remains
    <3> QED BY <2>1, <2>2, <2>3, <3>1, <3>2, <3>3 DEF DrawsMirror
  <2>4. CASE k # m
    <3> HIDE DEF record
    <3> QED BY <2>1, <2>4 DEF DrawsMirror, TInv, TableTypes
  <2> QED BY <2>3, <2>4
<1>8. ASSUME NEW m \in Models, RunQueued(m) PROVE DrawsMirror(k)'
  BY <1>8, RefreshDraws DEF RunQueued
<1>9. ASSUME NEW m \in Models, HostRefresh(m) PROVE DrawsMirror(k)'
  BY <1>9, RefreshDraws DEF HostRefresh
<1>10. ASSUME NEW m \in Models, Copy(m) PROVE DrawsMirror(k)'
  BY <1>1, <1>10 DEF Copy
<1>11. ASSUME UNCHANGED vars PROVE DrawsMirror(k)'
  BY <1>1, <1>11 DEF vars
<1> QED BY <1>2, <1>3, <1>4, <1>5, <1>6, <1>7, <1>8, <1>9, <1>10, <1>11 DEF Next

-----------------------------------------------------------------------------
\* What the invariant says in the terms of the properties.
LEMMA SelectedRows == TInv => SelectionIsOfThisDocument
<1> SUFFICES ASSUME TInv, selection # Absent, selection.valid
             PROVE  SelectionIsOfThisDocument
  BY DEF SelectionIsOfThisDocument
<1>1. /\ selection.axis \in DOMAIN document
      /\ selection.span = rows_for_range(document[selection.axis], selection.range)
  BY DEF TInv, SelectionInv
<1>2. document[selection.axis] \in SamplingAxes /\ axis_is_ordered(document[selection.axis])
  BY <1>1, AxisOfDocument DEF TInv, TableTypes
<1>3. selection.range \in DepthRanges
  BY SelectionFields
<1> QED BY <1>1, <1>2, <1>3, RowsInRange DEF SelectionIsOfThisDocument

LEMMA TypesFollow == TInv => TypeOK
<1> SUFFICES ASSUME TInv PROVE TypeOK
  OBVIOUS
<1>1. selection # Absent =>
        /\ selection.axis \in AxesOf /\ selection.valid \in BOOLEAN
        /\ selection.span.first <= selection.span.last
  BY SelectionFields DEF Spans
<1> QED BY <1>1, ModelFields DEF TInv, TableTypes, TypeOK

\* The session's selection, the models and the clipboard have their types; a
\* valid selection holds the rows of the document in force that lie in its depth
\* range, however often a host attaches, projects and copies; a model that has
\* caught up mirrors it, and a copy taken then holds its depths.
THEOREM TableInvariant ==
  Spec => [](TypeOK /\ QuietModelsMirror /\ SelectionIsOfThisDocument /\ CopyHoldsTheSelection)
<1>1. Init => TInv
  BY InitTInv
<1>2. TInv /\ [Next]_vars => TInv'
  BY NextKeepsTInv
<1>3. TInv => TypeOK /\ QuietModelsMirror /\ SelectionIsOfThisDocument /\ CopyHoldsTheSelection
  BY TypesFollow, SelectedRows DEF TInv, Hears, QuietModelsMirror
<1> QED BY <1>1, <1>2, <1>3, PTL DEF Spec

\* Table and session follow each other, whatever hosts attach, project and copy:
\* tables also draw what they mirror, and beside it no row but those an attachment
\* has left over.
THEOREM TableFollows == Spec => []TableFollowsSelection
<1> DEFINE DInv == TInv /\ \A m \in Models : DrawsMirror(m)
<1>1. Init => DInv
  BY InitTInv, InitDraws
<1>2. DInv /\ [Next]_vars => DInv'
  <2> SUFFICES ASSUME DInv, [Next]_vars PROVE DInv'
    OBVIOUS
  <2>1. TInv'
    BY NextKeepsTInv
  <2>2. ASSUME NEW k \in Models PROVE DrawsMirror(k)'
    BY NextKeepsDraws
  <2> QED BY <2>1, <2>2
<1>3. DInv => TableFollowsSelection
  BY SelectedRows DEF TInv, Hears, DrawsMirror, QuietModelsMirror, ViewsShowTheMirror,
     TableFollowsSelection
<1> QED BY <1>1, <1>2, <1>3, PTL DEF Spec

-------------------------------------------------------------------------------
(***************************************************************************)
(* Renderers.  What is kept of image tiles plays no part in the curves:    *)
(* any values may stand there.                                             *)
(***************************************************************************)
ScenesOrNothing == PreparedScenes \cup {Nothing}
Prints == {Fingerprint[s] : s \in PreparedScenes} \cup {Nothing}

Uploads(Batches) ==
  [scene : ScenesOrNothing, images : Batches, next : Nat, allocated : BOOLEAN,
   drop : BOOLEAN, fingerprint : Prints, atlases : BOOLEAN]

Buffers == [{0, 1} -> Seq(ScenesOrNothing)]

Renderers(Batches, Caches) ==
  [initialized : BOOLEAN, data : Buffers, active : {0, 1},
   active_bytes : Nat, batches : ScenesOrNothing, primitive_data : ScenesOrNothing,
   primitive_batches : ScenesOrNothing, image_batches : Batches, cached : Prints,
   uploaded : Prints, pattern : Prints, glyph : Prints, torn : BOOLEAN,
   upload_pending : BOOLEAN,
   pending : Uploads(Batches), tiles : Caches]

IsRenderer(r) == \E Batches, Caches : r \in Renderers(Batches, Caches)

\* The parts of the model's updates, named: the prover takes them one at a time.
WithBuffer(data, b, new) == [data EXCEPT ![b] = new]
Emptied(data, b) == WithBuffer(data, b, <<>>)
WithPrimitives(r) == [r EXCEPT !.primitive_data = r.pending.scene]
WithPattern(r) == [r EXCEPT !.pattern = r.pending.fingerprint]
WithTiles(r, s, c, b) == [Queued(r, s) EXCEPT !.tiles = c, !.pending.images = b]
ClearedBuffer(r) == [e \in 1 .. Edges[r.pending.scene] |-> Nothing]
WithChunk(r) ==
  LET s == r.pending.scene
  IN  [e \in DOMAIN r.data[Staging(r)] |->
         IF e \in InChunk(s, r.pending.next) THEN s ELSE r.data[Staging(r)][e]]

\* Nothing changes but what the first chunks of an upload touch.
SameAtlases(r, q) == /\ q.pattern = r.pattern /\ q.glyph = r.glyph
                     /\ q.uploaded = r.uploaded /\ q.torn = r.torn
SameGoal(r, q) ==
  /\ q.pending.scene = r.pending.scene /\ q.pending.fingerprint = r.pending.fingerprint
  /\ q.pending.atlases = r.pending.atlases /\ q.upload_pending = r.upload_pending

LEMMA DropFields ==
  ASSUME NEW B, NEW C, NEW r \in Renderers(B, C)
  PROVE  LET q == DropActive(r) IN
         /\ q \in Renderers(B, C)
         /\ q.data = Emptied(r.data, r.active)
         /\ q.active = r.active /\ q.active_bytes = 0
         /\ q.pending = r.pending /\ SameAtlases(r, q) /\ SameGoal(r, q)
<1> DEFINE without == Emptied(r.data, r.active)
           emptied == [r EXCEPT !.data = without]
           q == [emptied EXCEPT !.batches = Nothing, !.active_bytes = 0]
<1>1. DropActive(r) = q
  BY DEF DropActive, WithBuffer, Emptied
<1>2. without \in Buffers
  BY DEF Renderers, Buffers, WithBuffer, Emptied
<1> HIDE DEF without
<1>3. /\ emptied \in Renderers(B, C)
      /\ emptied.data = without
      /\ emptied.active = r.active /\ emptied.pending = r.pending
      /\ emptied.upload_pending = r.upload_pending /\ SameAtlases(r, emptied)
  BY <1>2 DEF Renderers, SameAtlases
<1> HIDE DEF emptied
<1>4. /\ q \in Renderers(B, C)
      /\ q.data = emptied.data /\ q.active = emptied.active /\ q.active_bytes = 0
      /\ q.pending = emptied.pending /\ q.upload_pending = emptied.upload_pending
      /\ SameAtlases(emptied, q)
  BY <1>3 DEF Renderers, ScenesOrNothing, SameAtlases
<1> HIDE DEF q
<1> QED BY <1>3, <1>4, <1>1 DEF without, SameAtlases, SameGoal

LEMMA AllocateFields ==
  ASSUME NEW B, NEW C, NEW r \in Renderers(B, C),
         ClearedBuffer(r) \in Seq(ScenesOrNothing)
  PROVE  LET q == AllocateStaging(r) IN
         /\ q \in Renderers(B, C)
         /\ q.data = WithBuffer(r.data, Staging(r), ClearedBuffer(r))
         /\ q.active = r.active /\ q.active_bytes = r.active_bytes
         /\ q.pending.next = r.pending.next /\ q.pending.allocated
         /\ SameAtlases(r, q) /\ SameGoal(r, q)
BY DEF AllocateStaging, Staging, Renderers, Buffers, WithBuffer, ClearedBuffer, Uploads,
       SameAtlases, SameGoal

LEMMA SwapFields ==
  ASSUME NEW B, NEW C, NEW r \in Renderers(B, C),
         Edges[r.pending.scene] \in Nat
  PROVE  LET q == SwapBuffers(r) IN
         /\ q \in Renderers(B, C)
         /\ q.data = Emptied(r.data, r.active)
         /\ q.active = 1 - r.active /\ q.active_bytes = Edges[r.pending.scene]
         /\ q.batches = r.pending.scene
         /\ q.pending = r.pending
         /\ SameAtlases(r, q) /\ SameGoal(r, q)
<1> DEFINE s == r.pending.scene
           without == Emptied(r.data, r.active)
           other == 1 - r.active
           emptied == [r EXCEPT !.data = without, !.active = other]
           q == [emptied EXCEPT !.batches = s, !.active_bytes = Edges[s]]
<1>1. without \in Buffers /\ other \in {0, 1}
  BY DEF Renderers, Buffers, WithBuffer, Emptied
<1>2. s \in ScenesOrNothing /\ Edges[s] \in Nat
  BY DEF Renderers, Uploads
<1>3. SwapBuffers(r) = q
  BY DEF SwapBuffers, WithBuffer, Emptied
<1> HIDE DEF s, without, other
<1>4. /\ emptied \in Renderers(B, C)
      /\ emptied.data = without
      /\ emptied.active = other /\ emptied.pending = r.pending
      /\ emptied.upload_pending = r.upload_pending /\ SameAtlases(r, emptied)
  BY <1>1 DEF Renderers, SameAtlases
<1> HIDE DEF emptied
<1>5. /\ q \in Renderers(B, C)
      /\ q.data = emptied.data /\ q.active = emptied.active
      /\ q.active_bytes = Edges[s] /\ q.batches = s
      /\ q.pending = emptied.pending /\ q.upload_pending = emptied.upload_pending
      /\ SameAtlases(emptied, q)
  BY <1>4, <1>2 DEF Renderers, SameAtlases
<1> HIDE DEF q
<1> QED BY <1>4, <1>3, <1>5 DEF s, without, other, SameAtlases, SameGoal

LEMMA GlyphFields ==
  ASSUME NEW B, NEW C, NEW r \in Renderers(B, C)
  PROVE  LET q == UploadGlyph(r) IN
         /\ q \in Renderers(B, C)
         /\ q.data = r.data /\ q.active = r.active /\ q.active_bytes = r.active_bytes
         /\ q.batches = r.batches /\ q.primitive_data = r.primitive_data
         /\ q.pattern = r.pattern /\ q.glyph = r.pending.fingerprint
         /\ q.uploaded = r.pending.fingerprint /\ ~q.torn
         /\ q.pending = r.pending /\ q.upload_pending = r.upload_pending
BY DEF UploadGlyph, Renderers, Uploads

LEMMA PublishFields ==
  ASSUME NEW B, NEW C, NEW r \in Renderers(B, C)
  PROVE  LET q == Publish(r) IN
         /\ IsRenderer(q)
         /\ q.data = r.data /\ q.active = r.active /\ q.active_bytes = r.active_bytes
         /\ q.batches = r.batches /\ q.primitive_data = r.primitive_data
         /\ q.primitive_batches = r.pending.scene
         /\ SameAtlases(r, q) /\ ~q.upload_pending /\ q.pending = Idle
         /\ q.tiles = r.tiles
<1> DEFINE s == r.pending.scene
           drawn == [r EXCEPT !.primitive_batches = s, !.image_batches = r.pending.images]
           q == [drawn EXCEPT !.pending = Idle, !.upload_pending = FALSE]
<1>1. /\ drawn \in Renderers(B, C)
      /\ drawn.data = r.data /\ drawn.active = r.active
      /\ drawn.active_bytes = r.active_bytes /\ drawn.batches = r.batches
      /\ drawn.primitive_data = r.primitive_data /\ drawn.primitive_batches = s
      /\ SameAtlases(r, drawn) /\ drawn.tiles = r.tiles
  BY DEF Renderers, Uploads, SameAtlases
<1>2. Idle \in Uploads(B \cup {<<>>})
  BY DEF Idle, Uploads, ScenesOrNothing, Prints
<1>3. Publish(r) = q
  BY DEF Publish, drawn, q, s
<1> HIDE DEF drawn, s
<1>4. drawn \in Renderers(B \cup {<<>>}, C)
  <2>1. Uploads(B) \subseteq Uploads(B \cup {<<>>})
    BY DEF Uploads
  <2> QED BY <1>1, <2>1 DEF Renderers
<1>5. /\ q \in Renderers(B \cup {<<>>}, C)
      /\ q.data = drawn.data /\ q.active = drawn.active
      /\ q.active_bytes = drawn.active_bytes /\ q.batches = drawn.batches
      /\ q.primitive_data = drawn.primitive_data
      /\ q.primitive_batches = drawn.primitive_batches
      /\ ~q.upload_pending /\ q.pending = Idle /\ SameAtlases(drawn, q)
      /\ q.tiles = drawn.tiles
  BY <1>2, <1>4 DEF Renderers, SameAtlases
<1> HIDE DEF q
<1> QED BY <1>1, <1>3, <1>5 DEF s, SameAtlases, IsRenderer

LEMMA QueuedFields ==
  ASSUME NEW B, NEW C, NEW r \in Renderers(B, C), NEW s \in PreparedScenes, NEW c, NEW b
  PROVE  LET q == WithTiles(r, s, c, b) IN
         /\ IsRenderer(q)
         /\ q.data = r.data /\ q.active = r.active /\ q.active_bytes = r.active_bytes
         /\ q.pending.scene = s /\ q.pending.fingerprint = Fingerprint[s]
         /\ q.pending.atlases = (r.uploaded # Fingerprint[s])
         /\ ~q.pending.allocated /\ q.pending.next = 0
         /\ q.pending.drop = (r.active_bytes > MaximumCacheBytes - Edges[s])
         /\ SameAtlases(r, q) /\ q.upload_pending /\ q.tiles = c
<1> DEFINE none == <<>>
           drops == r.active_bytes > MaximumCacheBytes - Edges[s]
           draws == r.uploaded # Fingerprint[s]
           upload == [scene |-> s, images |-> none, next |-> 0, allocated |-> FALSE,
                      drop |-> drops, fingerprint |-> Fingerprint[s], atlases |-> draws]
           named == [upload EXCEPT !.images = b]
           marked == [r EXCEPT !.cached = Fingerprint[s], !.upload_pending = TRUE]
           q == [marked EXCEPT !.pending = named, !.tiles = c]
<1>1. /\ named \in Uploads(B \cup {b})
      /\ named.scene = s /\ named.fingerprint = Fingerprint[s]
      /\ ~named.allocated /\ named.next = 0
      /\ named.drop = drops /\ named.atlases = draws
  <2>1. drops \in BOOLEAN /\ draws \in BOOLEAN
    OBVIOUS
  <2> HIDE DEF none, drops, draws
  <2>2. upload \in Uploads(B \cup {none})
    BY <2>1 DEF Uploads, ScenesOrNothing, Prints
  <2>3. /\ upload.scene = s /\ upload.fingerprint = Fingerprint[s]
        /\ upload.allocated = FALSE /\ upload.next = 0
        /\ upload.drop = drops /\ upload.atlases = draws
    OBVIOUS
  <2> HIDE DEF upload
  <2> QED BY <2>2, <2>3 DEF Uploads
<1>2. Uploads(B) \subseteq Uploads(B \cup {b})
  BY DEF Uploads
<1>3. /\ marked \in Renderers(B \cup {b}, C)
      /\ marked.data = r.data /\ marked.active = r.active
      /\ marked.active_bytes = r.active_bytes
      /\ SameAtlases(r, marked) /\ marked.upload_pending
  BY <1>2 DEF Renderers, SameAtlases, Prints
<1>4. WithTiles(r, s, c, b) = q
  BY DEF WithTiles, Queued, Renderers
<1> HIDE DEF named, marked, drops, draws
<1>5. /\ q \in Renderers(B \cup {b}, {c})
      /\ q.data = marked.data /\ q.active = marked.active
      /\ q.active_bytes = marked.active_bytes /\ q.pending = named
      /\ SameAtlases(marked, q) /\ q.upload_pending /\ q.tiles = c
  BY <1>1, <1>3 DEF Renderers, SameAtlases
<1> HIDE DEF q
<1> QED BY <1>1, <1>3, <1>4, <1>5 DEF SameAtlases, drops, draws, IsRenderer

LEMMA AdvanceFields ==
  ASSUME NEW B, NEW C, NEW r \in Renderers(B, C)
  PROVE  LET q == Advance(r) IN
         /\ IsRenderer(q)
         /\ q.data = r.data /\ q.active = r.active /\ q.active_bytes = r.active_bytes
         /\ q.batches = r.batches /\ q.primitive_data = r.primitive_data
         /\ q.primitive_batches = r.primitive_batches
         /\ SameAtlases(r, q) /\ q.upload_pending = r.upload_pending /\ q.pending = r.pending
<1> DEFINE later == [r.tiles EXCEPT !.stamp = @ + 1]
           q == [r EXCEPT !.tiles = later]
<1>1. /\ q \in Renderers(B, {later})
      /\ q.data = r.data /\ q.active = r.active /\ q.active_bytes = r.active_bytes
      /\ q.batches = r.batches /\ q.primitive_data = r.primitive_data
      /\ q.primitive_batches = r.primitive_batches
      /\ SameAtlases(r, q) /\ q.upload_pending = r.upload_pending /\ q.pending = r.pending
  <2> HIDE DEF later
  <2> QED BY DEF Renderers, SameAtlases
<1>2. Advance(r) = q \/ Advance(r) = r
  BY DEF Advance
<1>3. IsRenderer(q) /\ IsRenderer(r)
  BY <1>1 DEF IsRenderer
<1> HIDE DEF q
<1> QED BY <1>1, <1>2, <1>3 DEF SameAtlases

LEMMA ChunkFields ==
  ASSUME NEW B, NEW C, NEW r \in Renderers(B, C),
         WithChunk(r) \in Seq(ScenesOrNothing)
  PROVE  LET q == UploadChunk(r) IN
         /\ q \in Renderers(B, C)
         /\ q.data = WithBuffer(r.data, Staging(r), WithChunk(r))
         /\ q.active = r.active /\ q.active_bytes = r.active_bytes
         /\ q.pending.next = r.pending.next + 1
         /\ q.pending.allocated = r.pending.allocated
         /\ SameAtlases(r, q) /\ SameGoal(r, q)
<1> DEFINE filled == WithBuffer(r.data, Staging(r), WithChunk(r))
           upload == r.pending
           n == upload.next + 1
           following == [upload EXCEPT !.next = n]
           q == [r EXCEPT !.data = filled, !.pending = following]
<1>1. UploadChunk(r) = q
  BY DEF UploadChunk, WithChunk, WithBuffer
<1>2. filled \in Buffers
  BY DEF Renderers, Buffers, Staging, WithBuffer
<1>3. /\ following \in Uploads(B)
      /\ following.next = n
      /\ following.allocated = upload.allocated
      /\ following.scene = upload.scene /\ following.fingerprint = upload.fingerprint
      /\ following.atlases = upload.atlases
  <2>1. upload \in Uploads(B)
    BY DEF Renderers
  <2> HIDE DEF upload
  <2>2. n \in Nat
    BY <2>1 DEF Uploads
  <2> HIDE DEF n
  <2> QED BY <2>1, <2>2 DEF Uploads
<1> HIDE DEF filled, following
<1>4. /\ q \in Renderers(B, C)
      /\ q.data = filled /\ q.pending = following
      /\ q.active = r.active /\ q.active_bytes = r.active_bytes
      /\ SameAtlases(r, q) /\ q.upload_pending = r.upload_pending
  BY <1>2, <1>3 DEF Renderers, SameAtlases
<1> HIDE DEF q
<1> QED BY <1>1, <1>3, <1>4 DEF filled, upload, n, SameAtlases, SameGoal

LEMMA PrimitivesFields ==
  ASSUME NEW B, NEW C, NEW r \in Renderers(B, C)
  PROVE  LET q == WithPrimitives(r) IN
         /\ q \in Renderers(B, C)
         /\ q.data = r.data /\ q.active = r.active /\ q.active_bytes = r.active_bytes
         /\ q.batches = r.batches /\ q.primitive_data = r.pending.scene
         /\ q.pending = r.pending /\ SameAtlases(r, q) /\ q.upload_pending = r.upload_pending
BY DEF WithPrimitives, Renderers, Uploads, SameAtlases

LEMMA PatternFields ==
  ASSUME NEW B, NEW C, NEW r \in Renderers(B, C)
  PROVE  LET q == WithPattern(r) IN
         /\ q \in Renderers(B, C)
         /\ q.data = r.data /\ q.active = r.active /\ q.active_bytes = r.active_bytes
         /\ q.batches = r.batches /\ q.primitive_data = r.primitive_data
         /\ q.pending = r.pending /\ q.upload_pending = r.upload_pending
         /\ q.pattern = r.pending.fingerprint /\ q.glyph = r.glyph /\ q.uploaded = r.uploaded
         /\ q.torn = r.torn
BY DEF WithPattern, Renderers, Uploads

LEMMA BrokenFields ==
  ASSUME NEW B, NEW C, NEW r \in Renderers(B, C), NEW call
  PROVE  LET q == BrokenOff(r, call) IN
         /\ q \in Renderers(B, C)
         /\ q.data = r.data /\ q.active = r.active /\ q.active_bytes = r.active_bytes
         /\ q.pending = r.pending /\ ~q.upload_pending
         /\ q.pattern = r.pattern /\ q.glyph = r.glyph /\ q.uploaded = r.uploaded
         /\ q.torn = (r.torn \/ call = "glyph")
<1> DEFINE t == r.torn \/ call = "glyph"
           q == [r EXCEPT !.upload_pending = FALSE, !.torn = t]
<1>1. t \in BOOLEAN
  OBVIOUS
<1>2. BrokenOff(r, call) = q
  BY DEF BrokenOff
<1> HIDE DEF t
<1>3. /\ q \in Renderers(B, C)
      /\ q.data = r.data /\ q.active = r.active /\ q.active_bytes = r.active_bytes
      /\ q.pending = r.pending /\ ~q.upload_pending
      /\ q.pattern = r.pattern /\ q.glyph = r.glyph /\ q.uploaded = r.uploaded
      /\ q.torn = t
  BY <1>1 DEF Renderers, Uploads
<1> HIDE DEF q
<1> QED BY <1>2, <1>3 DEF t

-----------------------------------------------------------------------------
(***************************************************************************)
(* What the calls of upload_next rely on.                                  *)
(***************************************************************************)
Filled(s, k) == [e \in 1 .. Edges[s] |-> IF e <= Offset(k) THEN s ELSE Nothing]

\* The buffers keep their budget, and the renderer knows what the active one takes.
Sized(r) ==
  /\ IsRenderer(r)
  /\ Len(r.data[r.active]) = r.active_bytes
  /\ Len(r.data[0]) + Len(r.data[1]) <= MaximumCacheBytes

\* Both atlases are of the fingerprint that says what was uploaded, unless the
\* second texture has failed when the first had been replaced.
AtlasesMatch(r) == r.glyph = r.uploaded /\ (r.torn \/ r.pattern = r.uploaded)

\* An upload under way is of a scene that fits, and draws atlases that are not there.
Aims(r, s) ==
  /\ r.upload_pending
  /\ r.pending.scene = s /\ s \in PreparedScenes /\ Planned(s)
  /\ r.pending.fingerprint = Fingerprint[s]

AtlasesDue(r, s) == r.pending.atlases <=> r.uploaded # Fingerprint[s]

\* The buffer that is not drawn holds the chunks sent so far; before there is
\* one, its room is there or will be once the active buffer is dropped.
Chunked(r, s) == r.pending.allocated /\ r.data[Staging(r)] = Filled(s, r.pending.next)

Room(r, s) == ~r.pending.allocated /\ r.pending.next = 0
              /\ r.active_bytes + Edges[s] <= MaximumCacheBytes

Begun(r, s) ==
  /\ Sized(r) /\ AtlasesMatch(r) /\ Aims(r, s) /\ AtlasesDue(r, s)
  /\ \/ Chunked(r, s) \/ Room(r, s)
     \/ ~r.pending.allocated /\ r.pending.next = 0 /\ r.pending.drop

LEMMA Calls ==
  ASSUME NEW r
  PROVE  /\ Due(r, "drop") <=> r.pending.drop /\ ~r.pending.allocated
         /\ Due(r, "allocate") <=> ~r.pending.allocated
         /\ Due(r, "chunk") <=> ~LastChunkIn(r)
         /\ Due(r, "retire") <=> LastChunkIn(r)
         /\ Due(r, "primitives") <=> LastChunkIn(r)
         /\ Due(r, "pattern") <=> LastChunkIn(r) /\ r.pending.atlases
         /\ Due(r, "glyph") <=> LastChunkIn(r) /\ r.pending.atlases
         /\ Due(r, "publish") <=> LastChunkIn(r)
BY DEF Due

LEMMA Effects ==
  ASSUME NEW r
  PROVE  /\ Effect(r, "drop") = DropActive(r)
         /\ Effect(r, "allocate") = AllocateStaging(r)
         /\ Effect(r, "chunk") = UploadChunk(r)
         /\ Effect(r, "retire") = SwapBuffers(r)
         /\ Effect(r, "primitives") = WithPrimitives(r)
         /\ Effect(r, "pattern") = WithPattern(r)
         /\ Effect(r, "glyph") = UploadGlyph(r)
         /\ Effect(r, "publish") = Publish(r)
BY DEF Effect, WithPrimitives, WithPattern

LEMMA Budgets ==
  /\ MaximumCacheBytes \in Nat /\ MaximumBytesPerFrame \in Nat
  /\ \A s \in PreparedScenes : Edges[s] \in Nat
BY RendererAssumption

LEMMA FilledFacts ==
  ASSUME NEW s \in PreparedScenes, NEW k \in Nat
  PROVE  /\ Edges[s] \in Nat /\ Offset(k) \in Nat
         /\ Filled(s, k) \in Seq(ScenesOrNothing)
         /\ Len(Filled(s, k)) = Edges[s]
         /\ Filled(s, 0) = [e \in 1 .. Edges[s] |-> Nothing]
         /\ Offset(k) >= Edges[s] => Filled(s, k) = [e \in 1 .. Edges[s] |-> s]
<1>1. Edges[s] \in Nat /\ MaximumBytesPerFrame \in Nat
  BY RendererAssumption
<1>2. Offset(k) \in Nat /\ Offset(0) = 0
  BY <1>1 DEF Offset
<1>3. Filled(s, k) \in Seq(ScenesOrNothing) /\ Len(Filled(s, k)) = Edges[s]
  BY <1>1 DEF Filled, ScenesOrNothing
<1> HIDE DEF Offset
<1>4. ASSUME NEW e \in 1 .. Edges[s]
      PROVE  ~(e <= Offset(0)) /\ (Offset(k) >= Edges[s] => e <= Offset(k))
  BY <1>1, <1>2
<1>5. Filled(s, 0) = [e \in 1 .. Edges[s] |-> Nothing]
  BY <1>4 DEF Filled
<1>6. Offset(k) >= Edges[s] => Filled(s, k) = [e \in 1 .. Edges[s] |-> s]
  BY <1>4 DEF Filled
<1> QED BY <1>1, <1>2, <1>3, <1>5, <1>6

LEMMA ChunkFills ==
  ASSUME NEW s \in PreparedScenes, NEW k \in Nat
  PROVE  [e \in DOMAIN Filled(s, k) |-> IF e \in InChunk(s, k) THEN s ELSE Filled(s, k)[e]]
           = Filled(s, k + 1)
<1>1. Edges[s] \in Nat /\ MaximumBytesPerFrame \in Nat
  BY RendererAssumption
<1>2. /\ Offset(k) \in Nat /\ Offset(k + 1) \in Nat
      /\ Offset(k + 1) = Offset(k) + MaximumBytesPerFrame
  BY <1>1 DEF Offset
<1>3. ASSUME NEW e \in 1 .. Edges[s]
      PROVE  (IF e \in InChunk(s, k) THEN s ELSE IF e <= Offset(k) THEN s ELSE Nothing)
               = (IF e <= Offset(k + 1) THEN s ELSE Nothing)
  <2>1. e \in InChunk(s, k) <=> Offset(k) < e /\ e <= Offset(k + 1)
    BY DEF InChunk
  <2> HIDE DEF Offset
  <2> QED BY <2>1, <1>1, <1>2
<1>4. DOMAIN Filled(s, k) = 1 .. Edges[s]
  BY DEF Filled
<1>5. ASSUME NEW e \in 1 .. Edges[s]
      PROVE  (IF e \in InChunk(s, k) THEN s ELSE Filled(s, k)[e])
               = (IF e <= Offset(k + 1) THEN s ELSE Nothing)
  BY <1>3 DEF Filled
<1> QED BY <1>4, <1>5 DEF Filled

\* One of the two buffers changes, the other does not.
LEMMA OneBuffer ==
  ASSUME NEW data \in Buffers, NEW a \in {0, 1}, NEW new \in Seq(ScenesOrNothing)
  PROVE  /\ 1 - a \in {0, 1} /\ 1 - (1 - a) = a
         /\ WithBuffer(data, a, new) \in Buffers
         /\ WithBuffer(data, a, new)[a] = new
         /\ WithBuffer(data, a, new)[1 - a] = data[1 - a]
BY DEF Buffers, WithBuffer

\* The sizes of the two buffers, in either order.
LEMMA BothBuffers ==
  ASSUME NEW data \in Buffers, NEW a \in {0, 1}
  PROVE  /\ Len(data[a]) \in Nat /\ Len(data[1 - a]) \in Nat
         /\ Len(data[0]) + Len(data[1]) = Len(data[a]) + Len(data[1 - a])
<1>1. CASE a = 0
  BY <1>1 DEF Buffers
<1>2. CASE a = 1
  BY <1>2 DEF Buffers
<1> QED BY <1>1, <1>2

\* A buffer that gives way to one no larger than the room beside the other.
LEMMA StaysInBudget ==
  ASSUME NEW data \in Buffers, NEW a \in {0, 1}, NEW new \in Seq(ScenesOrNothing),
         NEW size \in Nat, Len(new) + Len(data[1 - a]) <= size
  PROVE  Len(WithBuffer(data, a, new)[0]) + Len(WithBuffer(data, a, new)[1]) <= size
<1> DEFINE d == WithBuffer(data, a, new)
<1>1. d \in Buffers /\ d[a] = new /\ d[1 - a] = data[1 - a]
  BY OneBuffer
<1> HIDE DEF d
<1>2. Len(d[0]) + Len(d[1]) = Len(new) + Len(data[1 - a])
  BY <1>1, BothBuffers
<1> QED BY <1>2 DEF d

LEMMA EmptiedBuffer ==
  ASSUME NEW data \in Buffers, NEW a \in {0, 1}, NEW size \in Nat,
         Len(data[0]) + Len(data[1]) <= size
  PROVE  LET d == Emptied(data, a) IN
         /\ d \in Buffers /\ d[a] = <<>> /\ Len(d[a]) = 0 /\ d[1 - a] = data[1 - a]
         /\ Len(d[0]) + Len(d[1]) <= size
<1> DEFINE none == <<>>
           m == Len(data[a])
           n == Len(data[1 - a])
<1>1. none \in Seq(ScenesOrNothing) /\ Len(none) = 0
  OBVIOUS
<1>2. m \in Nat /\ n \in Nat /\ m + n <= size
  BY BothBuffers
<1> HIDE DEF m, n, none
<1>3. Len(none) + n <= size
  BY <1>1, <1>2
<1>4. /\ WithBuffer(data, a, none) \in Buffers /\ WithBuffer(data, a, none)[a] = none
      /\ WithBuffer(data, a, none)[1 - a] = data[1 - a]
  BY <1>1, OneBuffer
<1>5. Len(WithBuffer(data, a, none)[0]) + Len(WithBuffer(data, a, none)[1]) <= size
  BY <1>1, <1>3, StaysInBudget DEF n
<1> QED BY <1>1, <1>4, <1>5 DEF none, Emptied

-----------------------------------------------------------------------------
(***************************************************************************)
(* The calls, one by one: each leaves the renderer ready for the next, or  *)
(* the upload broken off with buffers and atlases in order.                *)
(***************************************************************************)
Broken(r, s) == Sized(r) /\ AtlasesMatch(r) /\ ~r.upload_pending /\ r.pending.scene = s

Roomy(r, s) ==
  /\ Sized(r) /\ AtlasesMatch(r) /\ Aims(r, s) /\ AtlasesDue(r, s)
  /\ Chunked(r, s) \/ Room(r, s)

Filling(r, s) ==
  Sized(r) /\ AtlasesMatch(r) /\ Aims(r, s) /\ AtlasesDue(r, s) /\ Chunked(r, s)

\* An upload that has ended is left alone.
LEMMA Over ==
  ASSUME NEW r, ~r.upload_pending, NEW call
  PROVE  Issue(r, call) = {r}
BY DEF Issue

LEMMA IssueCases ==
  ASSUME NEW r, r.upload_pending, NEW call, NEW q \in Issue(r, call)
  PROVE  \/ ~Due(r, call) /\ q = r
         \/ Due(r, call) /\ q = Effect(r, call)
         \/ call \in Failing /\ q = BrokenOff(r, call)
BY DEF Issue, BrokenOff

\* An error breaks the upload off; at the glyph texture it tears the atlases.
LEMMA ErrorBreaks ==
  ASSUME NEW r, NEW s, Sized(r), Aims(r, s), NEW call,
         AtlasesMatch(r) \/ (call = "glyph" /\ r.glyph = r.uploaded)
  PROVE  Broken(BrokenOff(r, call), s)
<1>1. PICK B, C : r \in Renderers(B, C)
  BY DEF Sized, IsRenderer
<1> DEFINE q == BrokenOff(r, call)
<1>2. /\ q \in Renderers(B, C)
      /\ q.data = r.data /\ q.active = r.active /\ q.active_bytes = r.active_bytes
      /\ q.pending = r.pending /\ ~q.upload_pending
      /\ q.pattern = r.pattern /\ q.glyph = r.glyph /\ q.uploaded = r.uploaded
      /\ q.torn = (r.torn \/ call = "glyph")
  BY <1>1, BrokenFields
<1> HIDE DEF q
<1>3. Broken(q, s)
  <2>1. AtlasesMatch(q)
    BY <1>2 DEF AtlasesMatch
  <2> QED BY <1>2, <2>1 DEF Broken, Sized, IsRenderer, Aims
<1> QED BY <1>3 DEF q

LEMMA DropMakesRoom ==
  ASSUME NEW s, NEW r, Begun(r, s), NEW q \in Issue(r, "drop")
  PROVE  Roomy(q, s) \/ Broken(q, s)
<1>1. PICK B, C : r \in Renderers(B, C)
  BY DEF Begun, Sized, IsRenderer
<1>2. \A call : Broken(BrokenOff(r, call), s)
  BY ErrorBreaks DEF Begun
<1>3. CASE q = r /\ ~(r.pending.drop /\ ~r.pending.allocated)
  BY <1>3 DEF Begun, Roomy
<1>4. CASE q = DropActive(r) /\ r.pending.drop /\ ~r.pending.allocated
  <2>1. /\ q \in Renderers(B, C)
        /\ q.data = Emptied(r.data, r.active)
        /\ q.active = r.active /\ q.active_bytes = 0
        /\ q.pending = r.pending /\ SameAtlases(r, q) /\ SameGoal(r, q)
    BY <1>1, <1>4, DropFields
  <2>2. IsRenderer(q)
    BY <2>1 DEF IsRenderer
  <2>3. /\ r.data \in Buffers /\ r.active \in {0, 1}
        /\ Len(r.data[0]) + Len(r.data[1]) <= MaximumCacheBytes
    BY <1>1 DEF Renderers, Begun, Sized
  <2>4. Sized(q)
    <3>1. Len(q.data[r.active]) = 0 /\ Len(q.data[0]) + Len(q.data[1]) <= MaximumCacheBytes
      <4>1. MaximumCacheBytes \in Nat
        BY Budgets
      <4>2. LET d == Emptied(r.data, r.active) IN
            Len(d[r.active]) = 0 /\ Len(d[0]) + Len(d[1]) <= MaximumCacheBytes
        BY <2>3, <4>1, EmptiedBuffer
      <4> QED BY <4>2, <2>1
    <3> QED BY <2>1, <2>2, <3>1 DEF Sized
  <2>5. 0 + Edges[s] <= MaximumCacheBytes
    BY RendererAssumption DEF Begun, Aims, Planned
  <2>6. Room(q, s)
    BY <1>4, <2>1, <2>5 DEF Begun, Chunked, Room
  <2>7. AtlasesMatch(q) /\ Aims(q, s) /\ AtlasesDue(q, s)
    BY <2>1 DEF Begun, AtlasesMatch, Aims, AtlasesDue, SameAtlases, SameGoal
  <2> QED BY <2>4, <2>6, <2>7 DEF Roomy
<1> QED BY <1>2, <1>3, <1>4, IssueCases, Calls, Effects DEF Begun, Aims

LEMMA AllocateFits ==
  ASSUME NEW s, NEW r, Roomy(r, s), NEW q \in Issue(r, "allocate")
  PROVE  Filling(q, s) \/ Broken(q, s)
<1>1. PICK B, C : r \in Renderers(B, C)
  BY DEF Roomy, Sized, IsRenderer
<1>2. \A call : Broken(BrokenOff(r, call), s)
  BY ErrorBreaks DEF Roomy
<1>3. CASE q = r /\ r.pending.allocated
  BY <1>3 DEF Roomy, Room, Filling
<1>4. CASE q = AllocateStaging(r) /\ ~r.pending.allocated
  <2>1. /\ s \in PreparedScenes /\ r.pending.scene = s
        /\ r.pending.next = 0 /\ r.active_bytes + Edges[s] <= MaximumCacheBytes
        /\ Len(r.data[r.active]) = r.active_bytes
    BY <1>4 DEF Roomy, Aims, Chunked, Room, Sized
  <2>2. ClearedBuffer(r) = Filled(s, 0)
    BY <2>1, FilledFacts DEF ClearedBuffer
  <2>3. Filled(s, 0) \in Seq(ScenesOrNothing) /\ Len(Filled(s, 0)) = Edges[s]
    BY <2>1, FilledFacts
  <2>4. /\ q \in Renderers(B, C)
        /\ q.data = WithBuffer(r.data, Staging(r), Filled(s, 0))
        /\ q.active = r.active /\ q.active_bytes = r.active_bytes
        /\ q.pending.next = r.pending.next /\ q.pending.allocated
        /\ SameAtlases(r, q) /\ SameGoal(r, q)
    BY <1>1, <1>4, <2>1, <2>2, <2>3, AllocateFields
  <2>5. r.data \in Buffers /\ r.active \in {0, 1} /\ r.active_bytes \in Nat
    BY <1>1 DEF Renderers
  <2>6. Staging(r) \in {0, 1} /\ 1 - Staging(r) = r.active
    BY <2>5 DEF Staging
  <2>7. q.data[Staging(r)] = Filled(s, 0) /\ q.data[r.active] = r.data[r.active]
    BY <2>3, <2>4, <2>5, <2>6, OneBuffer
  <2>8. Len(q.data[0]) + Len(q.data[1]) <= MaximumCacheBytes
    <3>1. MaximumCacheBytes \in Nat /\ Edges[s] \in Nat
      BY <2>1, Budgets
    <3>2. Len(Filled(s, 0)) + Len(r.data[1 - Staging(r)]) <= MaximumCacheBytes
      BY <2>1, <2>3, <2>5, <2>6, <3>1
    <3> QED BY <2>3, <2>4, <2>5, <2>6, <3>1, <3>2, StaysInBudget
  <2>9. Sized(q)
    BY <2>1, <2>4, <2>7, <2>8 DEF Sized, IsRenderer
  <2>10. Chunked(q, s)
    BY <2>1, <2>4, <2>7 DEF Chunked, Staging
  <2>11. AtlasesMatch(q) /\ Aims(q, s) /\ AtlasesDue(q, s)
    BY <2>4 DEF Roomy, AtlasesMatch, Aims, AtlasesDue, SameAtlases, SameGoal
  <2> QED BY <2>9, <2>10, <2>11 DEF Filling
<1> QED BY <1>2, <1>3, <1>4, IssueCases, Calls, Effects DEF Roomy, Aims

LEMMA ChunkGoesOn ==
  ASSUME NEW s, NEW r, Filling(r, s), NEW q \in Issue(r, "chunk")
  PROVE  Filling(q, s) \/ Broken(q, s)
<1>1. PICK B, C : r \in Renderers(B, C)
  BY DEF Filling, Sized, IsRenderer
<1>2. \A call : Broken(BrokenOff(r, call), s)
  BY ErrorBreaks DEF Filling
<1>3. CASE q = r
  BY <1>3
<1>4. CASE q = UploadChunk(r)
  <2> DEFINE k == r.pending.next
  <2>1. /\ s \in PreparedScenes /\ r.pending.scene = s
        /\ r.pending.allocated /\ r.data[Staging(r)] = Filled(s, k)
        /\ Len(r.data[r.active]) = r.active_bytes
    BY DEF Filling, Aims, Chunked, Sized
  <2>2. k \in Nat /\ r.data \in Buffers /\ r.active \in {0, 1}
    BY <1>1 DEF Renderers, Uploads
  <2>3. /\ Filled(s, k + 1) \in Seq(ScenesOrNothing) /\ Len(Filled(s, k + 1)) = Edges[s]
        /\ Len(Filled(s, k)) = Edges[s]
    <3>1. k + 1 \in Nat
      BY <2>2
    <3> QED BY <2>1, <2>2, <3>1, FilledFacts
  <2>4. WithChunk(r) = Filled(s, k + 1)
    BY <2>1, <2>2, ChunkFills DEF WithChunk
  <2>5. /\ q \in Renderers(B, C)
        /\ q.data = WithBuffer(r.data, Staging(r), Filled(s, k + 1))
        /\ q.active = r.active /\ q.active_bytes = r.active_bytes
        /\ q.pending.next = k + 1 /\ q.pending.allocated = r.pending.allocated
        /\ SameAtlases(r, q) /\ SameGoal(r, q)
    <3>1. WithChunk(r) \in Seq(ScenesOrNothing)
      BY <2>3, <2>4
    <3>2. /\ q \in Renderers(B, C)
          /\ q.data = WithBuffer(r.data, Staging(r), WithChunk(r))
          /\ q.active = r.active /\ q.active_bytes = r.active_bytes
          /\ q.pending.next = k + 1 /\ q.pending.allocated = r.pending.allocated
          /\ SameAtlases(r, q) /\ SameGoal(r, q)
      BY <1>1, <1>4, <3>1, ChunkFields
    <3> QED BY <3>2, <2>4
  <2>6. Staging(r) \in {0, 1} /\ 1 - Staging(r) = r.active
    BY <2>2 DEF Staging
  <2>7. q.data[Staging(r)] = Filled(s, k + 1) /\ q.data[r.active] = r.data[r.active]
    BY <2>2, <2>3, <2>5, <2>6, OneBuffer
  <2>8. Len(q.data[0]) + Len(q.data[1]) <= MaximumCacheBytes
    <3>1. MaximumCacheBytes \in Nat /\ Edges[s] \in Nat
      BY <2>1, Budgets
    <3>2. Len(r.data[0]) + Len(r.data[1]) <= MaximumCacheBytes
      BY DEF Filling, Sized
    <3>3. Len(r.data[0]) + Len(r.data[1]) = Len(r.data[Staging(r)]) + Len(r.data[1 - Staging(r)])
      BY <2>2, <2>6, BothBuffers
    <3>4. Len(Filled(s, k + 1)) + Len(r.data[1 - Staging(r)]) <= MaximumCacheBytes
      BY <2>1, <2>3, <3>2, <3>3
    <3> QED BY <2>2, <2>3, <2>5, <2>6, <3>1, <3>4, StaysInBudget
  <2>9. Sized(q)
    BY <2>1, <2>5, <2>7, <2>8 DEF Sized, IsRenderer
  <2>10. Chunked(q, s)
    BY <2>1, <2>5, <2>7 DEF Chunked, Staging
  <2>11. AtlasesMatch(q) /\ Aims(q, s) /\ AtlasesDue(q, s)
    BY <2>5 DEF Filling, AtlasesMatch, Aims, AtlasesDue, SameAtlases, SameGoal
  <2> QED BY <2>9, <2>10, <2>11 DEF Filling
<1> QED BY <1>2, <1>3, <1>4, IssueCases, Effects DEF Filling, Aims

\* After the last chunk the calls run to the end of the upload.
Waiting(r, s) == Filling(r, s) /\ ~LastChunkIn(r)

Whole(s) == [e \in 1 .. Edges[s] |-> s]

Swapped(r, s) ==
  /\ Sized(r) /\ Aims(r, s) /\ LastChunkIn(r)
  /\ r.batches = s /\ r.data[r.active] = Whole(s)

Retired(r, s) == Swapped(r, s) /\ AtlasesMatch(r) /\ AtlasesDue(r, s)

Drawn(r, s) == Retired(r, s) /\ r.primitive_data = s

Patterned(r, s) ==
  /\ Swapped(r, s) /\ AtlasesDue(r, s) /\ r.primitive_data = s
  /\ r.glyph = r.uploaded
  /\ r.pattern = Fingerprint[s] \/ (r.torn /\ ~r.pending.atlases)

Glyphed(r, s) ==
  /\ Swapped(r, s) /\ AtlasesMatch(r) /\ r.primitive_data = s
  /\ r.uploaded = Fingerprint[s]

Published(r, s) ==
  /\ Sized(r) /\ AtlasesMatch(r) /\ ~r.upload_pending /\ r.pending = Idle
  /\ r.batches = s /\ r.data[r.active] = Whole(s)
  /\ r.primitive_data = s /\ r.primitive_batches = s /\ r.uploaded = Fingerprint[s]

LEMMA RetireSwaps ==
  ASSUME NEW s, NEW r, Filling(r, s), NEW q \in Issue(r, "retire")
  PROVE  Waiting(q, s) \/ Retired(q, s) \/ Broken(q, s)
<1>1. PICK B, C : r \in Renderers(B, C)
  BY DEF Filling, Sized, IsRenderer
<1>2. \A call : Broken(BrokenOff(r, call), s)
  BY ErrorBreaks DEF Filling
<1>3. CASE q = r /\ ~LastChunkIn(r)
  BY <1>3 DEF Waiting
<1>4. CASE q = SwapBuffers(r) /\ LastChunkIn(r)
  <2> DEFINE k == r.pending.next
  <2>1. /\ s \in PreparedScenes /\ r.pending.scene = s
        /\ r.data[Staging(r)] = Filled(s, k)
        /\ Len(r.data[0]) + Len(r.data[1]) <= MaximumCacheBytes
    BY DEF Filling, Aims, Chunked, Sized
  <2>2. k \in Nat /\ r.data \in Buffers /\ r.active \in {0, 1} /\ Edges[s] \in Nat
    BY <1>1, <2>1, Budgets DEF Renderers, Uploads
  <2>3. Filled(s, k) = Whole(s) /\ Len(Filled(s, k)) = Edges[s]
    <3>1. Offset(k) >= Edges[s]
      BY <1>4, <2>1 DEF LastChunkIn
    <3> QED BY <2>1, <2>2, <3>1, FilledFacts DEF Whole
  <2>4. /\ q \in Renderers(B, C)
        /\ q.data = Emptied(r.data, r.active)
        /\ q.active = 1 - r.active /\ q.active_bytes = Edges[s]
        /\ q.batches = s /\ q.pending = r.pending
        /\ SameAtlases(r, q) /\ SameGoal(r, q)
    BY <1>1, <1>4, <2>1, <2>2, SwapFields
  <2>5. /\ Emptied(r.data, r.active)[1 - r.active] = r.data[1 - r.active]
        /\ Len(Emptied(r.data, r.active)[0]) + Len(Emptied(r.data, r.active)[1])
             <= MaximumCacheBytes
    <3>1. MaximumCacheBytes \in Nat
      BY Budgets
    <3> QED BY <2>1, <2>2, <3>1, EmptiedBuffer
  <2>6. q.data[q.active] = Whole(s) /\ Len(q.data[q.active]) = Edges[s]
    BY <2>1, <2>3, <2>4, <2>5 DEF Staging
  <2>7. Sized(q)
    BY <2>4, <2>5, <2>6 DEF Sized, IsRenderer
  <2>8. AtlasesMatch(q) /\ Aims(q, s) /\ AtlasesDue(q, s)
    BY <2>4 DEF Filling, AtlasesMatch, Aims, AtlasesDue, SameAtlases, SameGoal
  <2>9. LastChunkIn(q)
    BY <1>4, <2>4 DEF LastChunkIn
  <2> QED BY <2>4, <2>6, <2>7, <2>8, <2>9 DEF Retired, Swapped
<1> QED BY <1>2, <1>3, <1>4, IssueCases, Calls, Effects DEF Filling, Aims

\* What the calls after the swap leave alone.
LEMMA StaysSwapped ==
  ASSUME NEW s, NEW r, Swapped(r, s), NEW q, IsRenderer(q),
         q.data = r.data, q.active = r.active, q.active_bytes = r.active_bytes,
         q.batches = r.batches, q.pending = r.pending, q.upload_pending = r.upload_pending
  PROVE  Swapped(q, s)
BY DEF Swapped, Sized, Aims, LastChunkIn

\* A call that is not due, because more chunks are to come, changes nothing.
LEMMA WaitingStays ==
  ASSUME NEW s, NEW r, Waiting(r, s),
         NEW call \in {"retire", "primitives", "pattern", "glyph", "publish"}
  PROVE  Issue(r, call) = {r}
<1>1. ~Due(r, call)
  BY Calls DEF Waiting
<1> QED BY <1>1 DEF Issue

LEMMA PrimitivesFollow ==
  ASSUME NEW s, NEW r, Retired(r, s), NEW q \in Issue(r, "primitives")
  PROVE  Drawn(q, s) \/ Broken(q, s)
<1>1. PICK B, C : r \in Renderers(B, C)
  BY DEF Retired, Swapped, Sized, IsRenderer
<1>2. \A call : Broken(BrokenOff(r, call), s)
  BY ErrorBreaks DEF Retired, Swapped
<1>3. CASE q = WithPrimitives(r)
  <2>1. /\ q \in Renderers(B, C)
        /\ q.data = r.data /\ q.active = r.active /\ q.active_bytes = r.active_bytes
        /\ q.batches = r.batches /\ q.primitive_data = r.pending.scene
        /\ q.pending = r.pending /\ SameAtlases(r, q) /\ q.upload_pending = r.upload_pending
    BY <1>1, <1>3, PrimitivesFields
  <2>2. IsRenderer(q)
    BY <2>1 DEF IsRenderer
  <2>3. Swapped(q, s)
    BY <2>1, <2>2, StaysSwapped DEF Retired
  <2>4. AtlasesMatch(q) /\ AtlasesDue(q, s) /\ q.primitive_data = s
    BY <2>1 DEF Retired, Swapped, Aims, AtlasesMatch, AtlasesDue, SameAtlases
  <2> QED BY <2>3, <2>4 DEF Drawn, Retired
<1>4. Due(r, "primitives") /\ r.upload_pending
  BY Calls DEF Retired, Swapped, Aims
<1> QED BY <1>2, <1>3, <1>4, IssueCases, Effects

LEMMA PatternFollows ==
  ASSUME NEW s, NEW r, Drawn(r, s), NEW q \in Issue(r, "pattern")
  PROVE  Patterned(q, s) \/ Broken(q, s)
<1>1. PICK B, C : r \in Renderers(B, C)
  BY DEF Drawn, Retired, Swapped, Sized, IsRenderer
<1>2. \A call : Broken(BrokenOff(r, call), s)
  BY ErrorBreaks DEF Drawn, Retired, Swapped
<1>3. CASE q = WithPattern(r)
  <2>1. /\ q \in Renderers(B, C)
        /\ q.data = r.data /\ q.active = r.active /\ q.active_bytes = r.active_bytes
        /\ q.batches = r.batches /\ q.primitive_data = r.primitive_data
        /\ q.pending = r.pending /\ q.upload_pending = r.upload_pending
        /\ q.pattern = r.pending.fingerprint /\ q.glyph = r.glyph /\ q.uploaded = r.uploaded
        /\ q.torn = r.torn
    BY <1>1, <1>3, PatternFields
  <2>2. IsRenderer(q)
    BY <2>1 DEF IsRenderer
  <2>3. Swapped(q, s)
    BY <2>1, <2>2, StaysSwapped DEF Drawn, Retired
  <2> QED BY <2>1, <2>3
      DEF Drawn, Retired, Swapped, Aims, AtlasesMatch, AtlasesDue, Patterned
<1>4. CASE q = r /\ ~r.pending.atlases
  BY <1>4 DEF Drawn, Retired, AtlasesMatch, AtlasesDue, Patterned
<1>5. r.upload_pending /\ (Due(r, "pattern") <=> r.pending.atlases)
  BY Calls DEF Drawn, Retired, Swapped, Aims
<1> QED BY <1>2, <1>3, <1>4, <1>5, IssueCases, Effects

LEMMA GlyphFollows ==
  ASSUME NEW s, NEW r, Patterned(r, s), NEW q \in Issue(r, "glyph")
  PROVE  Glyphed(q, s) \/ Broken(q, s)
<1>1. PICK B, C : r \in Renderers(B, C)
  BY DEF Patterned, Swapped, Sized, IsRenderer
<1>2. CASE q = UploadGlyph(r) /\ r.pending.atlases
  <2>1. /\ q \in Renderers(B, C)
        /\ q.data = r.data /\ q.active = r.active /\ q.active_bytes = r.active_bytes
        /\ q.batches = r.batches /\ q.primitive_data = r.primitive_data
        /\ q.pattern = r.pattern /\ q.glyph = r.pending.fingerprint
        /\ q.uploaded = r.pending.fingerprint /\ ~q.torn
        /\ q.pending = r.pending /\ q.upload_pending = r.upload_pending
    BY <1>1, <1>2, GlyphFields
  <2>2. IsRenderer(q)
    BY <2>1 DEF IsRenderer
  <2>3. Swapped(q, s)
    BY <2>1, <2>2, StaysSwapped DEF Patterned
  <2> QED BY <1>2, <2>1, <2>3 DEF Patterned, Swapped, Aims, AtlasesMatch, Glyphed
<1>3. CASE q = r /\ ~r.pending.atlases
  BY <1>3 DEF Patterned, AtlasesMatch, AtlasesDue, Glyphed
<1>4. r.upload_pending /\ (Due(r, "glyph") <=> r.pending.atlases)
  BY Calls DEF Patterned, Swapped, Aims
<1>5. CASE q = BrokenOff(r, "glyph")
  BY <1>5, ErrorBreaks DEF Patterned, Swapped
<1>6. \/ ~Due(r, "glyph") /\ q = r
      \/ Due(r, "glyph") /\ q = UploadGlyph(r)
      \/ q = BrokenOff(r, "glyph")
  BY <1>4, IssueCases, Effects
<1> QED BY <1>2, <1>3, <1>4, <1>5, <1>6

LEMMA PublishEnds ==
  ASSUME NEW s, NEW r, Glyphed(r, s), NEW q \in Issue(r, "publish")
  PROVE  Published(q, s)
<1>1. PICK B, C : r \in Renderers(B, C)
  BY DEF Glyphed, Swapped, Sized, IsRenderer
<1>2. q = Publish(r)
  <2>1. Due(r, "publish") /\ r.upload_pending
    BY Calls DEF Glyphed, Swapped, Aims
  <2>2. "publish" \notin Failing
    BY RendererAssumption DEF GlCalls
  <2> QED BY <2>1, <2>2, IssueCases, Effects
<1>3. /\ IsRenderer(q)
      /\ q.data = r.data /\ q.active = r.active /\ q.active_bytes = r.active_bytes
      /\ q.batches = r.batches /\ q.primitive_data = r.primitive_data
      /\ q.primitive_batches = r.pending.scene
      /\ SameAtlases(r, q) /\ ~q.upload_pending /\ q.pending = Idle
  BY <1>1, <1>2, PublishFields
<1>4. Sized(q) /\ AtlasesMatch(q)
  BY <1>3 DEF Glyphed, Swapped, Sized, AtlasesMatch, SameAtlases
<1> QED BY <1>3, <1>4 DEF Glyphed, Swapped, Aims, SameAtlases, Published

-----------------------------------------------------------------------------
(***************************************************************************)
(* queue_upload and upload_next.                                           *)
(***************************************************************************)
RendererInv(r) ==
  Sized(r) /\ AtlasesMatch(r) /\ (r.upload_pending => Begun(r, r.pending.scene))

LEMMA StaysRenderer ==
  ASSUME NEW r, RendererInv(r), NEW q, IsRenderer(q),
         q.data = r.data, q.active = r.active, q.active_bytes = r.active_bytes,
         SameAtlases(r, q), q.pending = r.pending, q.upload_pending = r.upload_pending
  PROVE  RendererInv(q)
<1>1. Sized(q) /\ AtlasesMatch(q)
  BY DEF RendererInv, Sized, AtlasesMatch, SameAtlases
<1>2. ASSUME q.upload_pending PROVE Begun(q, q.pending.scene)
  BY <1>1, <1>2
     DEF RendererInv, Begun, Aims, AtlasesDue, Chunked, Room, Staging, SameAtlases
<1> QED BY <1>1, <1>2 DEF RendererInv

LEMMA QueuedIsBegun ==
  ASSUME NEW r, Sized(r), AtlasesMatch(r), NEW s \in PreparedScenes, QueueAccepts(r, s),
         NEW resolved, NEW q \in queue_upload(r, s, resolved)
  PROVE  RendererInv(q) /\ q.upload_pending /\ q.pending.scene = s
<1>1. PICK B, C : r \in Renderers(B, C)
  BY DEF Sized, IsRenderer
<1>2. PICK e \in EmitImages(r.tiles, s, resolved) : q = WithTiles(r, s, e.cache, e.batches)
  BY DEF queue_upload, WithTiles
<1>3. /\ IsRenderer(q)
      /\ q.data = r.data /\ q.active = r.active /\ q.active_bytes = r.active_bytes
      /\ q.pending.scene = s /\ q.pending.fingerprint = Fingerprint[s]
      /\ q.pending.atlases = (r.uploaded # Fingerprint[s])
      /\ ~q.pending.allocated /\ q.pending.next = 0
      /\ q.pending.drop = (r.active_bytes > MaximumCacheBytes - Edges[s])
      /\ SameAtlases(r, q) /\ q.upload_pending
  BY <1>1, <1>2, QueuedFields
<1>4. Sized(q) /\ AtlasesMatch(q)
  BY <1>3 DEF Sized, AtlasesMatch, SameAtlases
<1>5. Aims(q, s) /\ AtlasesDue(q, s)
  BY <1>3 DEF Aims, AtlasesDue, QueueAccepts, SameAtlases
<1>6. q.pending.drop \/ q.active_bytes + Edges[s] <= MaximumCacheBytes
  <2>1. r.active_bytes \in Nat /\ MaximumCacheBytes \in Nat /\ Edges[s] \in Nat
    BY <1>1, Budgets DEF Renderers
  <2>2. r.active_bytes > MaximumCacheBytes - Edges[s]
          \/ r.active_bytes + Edges[s] <= MaximumCacheBytes
    BY <2>1
  <2> QED BY <2>2, <1>3
<1> QED BY <1>3, <1>4, <1>5, <1>6 DEF RendererInv, Begun, Room

LEMMA OneBefore ==
  ASSUME NEW R, NEW call, NEW q \in Then(R, call)
  PROVE  \E r \in R : q \in Issue(r, call)
BY DEF Then

LEMMA NothingToUpload ==
  ASSUME NEW r, ~r.upload_pending
  PROVE  upload_next(r) = {r}
<1>1. \A call : Then({r}, call) = {r}
  <2> SUFFICES ASSUME NEW call PROVE Then({r}, call) = {r}
    OBVIOUS
  <2>1. Issue(r, call) = {r}
    BY Over
  <2> QED BY <2>1 DEF Then
<1> QED BY <1>1 DEF upload_next, Staged

LEMMA UploadGoesOn ==
  ASSUME NEW s, NEW r, Begun(r, s), NEW q \in upload_next(r)
  PROVE  Waiting(q, s) \/ Published(q, s) \/ Broken(q, s)
<1> DEFINE dropped == Then({r}, "drop")
           allocated == Then(dropped, "allocate")
           staged == Then(allocated, "chunk")
           retired == Then(staged, "retire")
           drawn == Then(retired, "primitives")
           patterned == Then(drawn, "pattern")
           glyphed == Then(patterned, "glyph")
<1>1. q \in Then(glyphed, "publish")
  BY DEF upload_next, Staged
<1>2. ASSUME NEW p, Broken(p, s), NEW call, NEW t \in Issue(p, call) PROVE t = p
  BY <1>2, Over DEF Broken
<1>3. ASSUME NEW p, Waiting(p, s), NEW t,
             NEW call \in {"retire", "primitives", "pattern", "glyph", "publish"},
             t \in Issue(p, call)
      PROVE  t = p
  BY <1>3, WaitingStays
<1>4. \A p \in dropped : Roomy(p, s) \/ Broken(p, s)
  BY OneBefore, DropMakesRoom
<1> HIDE DEF dropped
<1>5. \A p \in allocated : Filling(p, s) \/ Broken(p, s)
  BY <1>4, <1>2, OneBefore, AllocateFits
<1> HIDE DEF allocated
<1>6. \A p \in staged : Filling(p, s) \/ Broken(p, s)
  BY <1>5, <1>2, OneBefore, ChunkGoesOn
<1> HIDE DEF staged
<1>7. \A p \in retired : Waiting(p, s) \/ Retired(p, s) \/ Broken(p, s)
  BY <1>6, <1>2, OneBefore, RetireSwaps
<1> HIDE DEF retired
<1>8. \A p \in drawn : Waiting(p, s) \/ Drawn(p, s) \/ Broken(p, s)
  BY <1>7, <1>2, <1>3, OneBefore, PrimitivesFollow
<1> HIDE DEF drawn
<1>9. \A p \in patterned : Waiting(p, s) \/ Patterned(p, s) \/ Broken(p, s)
  BY <1>8, <1>2, <1>3, OneBefore, PatternFollows
<1> HIDE DEF patterned
<1>10. \A p \in glyphed : Waiting(p, s) \/ Glyphed(p, s) \/ Broken(p, s)
  BY <1>9, <1>2, <1>3, OneBefore, GlyphFollows
<1> HIDE DEF glyphed
<1> QED BY <1>1, <1>10, <1>2, <1>3, OneBefore, PublishEnds

-----------------------------------------------------------------------------
(***************************************************************************)
(* The widget.  While it waits for a scene, that is the scene the renderer *)
(* uploads; when it waits for none, the one it takes for uploaded is there *)
(* as a whole; and a lost context leaves it neither.                       *)
(***************************************************************************)
WholeOn(r, s) ==
  /\ r.batches = s /\ r.data[r.active] = Whole(s)
  /\ r.primitive_data = s /\ r.primitive_batches = s
  /\ r.glyph = Fingerprint[s] /\ (r.torn \/ r.pattern = Fingerprint[s])

Follows(r, uploaded, awaited) ==
  /\ RendererInv(r)
  /\ uploaded \in ScenesOrNothing /\ awaited \in ScenesOrNothing
  /\ r.upload_pending /\ awaited # Nothing => r.pending.scene = awaited
  /\ uploaded # Nothing /\ awaited = Nothing => WholeOn(r, uploaded)

VInv ==
  /\ scene \in ScenesOrNothing
  /\ Follows(gl, uploaded_scene, queued_scene)
  /\ context = "none" => uploaded_scene = Nothing /\ queued_scene = Nothing
  /\ graphics => context # "none"

LEMMA EmptyRenderer ==
  /\ RendererInv(Abandoned) /\ ~Abandoned.upload_pending
  /\ RendererInv(initialize) /\ ~initialize.upload_pending
<1> DEFINE none == <<>>
           B == {none}
           tiles == NoTiles
           data == [b \in {0, 1} |-> none]
           r == [initialized |-> FALSE, data |-> data, active |-> 0, active_bytes |-> 0,
                 batches |-> Nothing, primitive_data |-> Nothing,
                 primitive_batches |-> Nothing, image_batches |-> none,
                 cached |-> Nothing, uploaded |-> Nothing, pattern |-> Nothing,
                 glyph |-> Nothing, torn |-> FALSE, upload_pending |-> FALSE, pending |-> Idle,
                 tiles |-> tiles]
<1>1. Abandoned = r
  BY DEF Abandoned
<1>2. Idle \in Uploads(B) /\ none \in B
  BY DEF Idle, Uploads, ScenesOrNothing, Prints
<1>3. data \in Buffers /\ Len(data[0]) = 0 /\ Len(data[1]) = 0
  BY DEF Buffers
<1> HIDE DEF data, none, B, tiles
<1>4. r \in Renderers(B, {tiles})
  BY <1>2, <1>3 DEF Renderers, ScenesOrNothing, Prints
<1>5. /\ r.data = data /\ r.active = 0 /\ r.active_bytes = 0 /\ r.upload_pending = FALSE
      /\ r.pattern = Nothing /\ r.glyph = Nothing /\ r.uploaded = Nothing
  OBVIOUS
<1> HIDE DEF r
<1>6. RendererInv(r)
  <2>1. 0 + 0 <= MaximumCacheBytes
    BY Budgets
  <2>2. Sized(r)
    BY <1>3, <1>4, <1>5, <2>1 DEF Sized, IsRenderer
  <2> QED BY <1>5, <2>2 DEF RendererInv, AtlasesMatch
<1> DEFINE q == [r EXCEPT !.initialized = TRUE]
<1>7. /\ q \in Renderers(B, {tiles})
      /\ q.data = r.data /\ q.active = r.active /\ q.active_bytes = r.active_bytes
      /\ SameAtlases(r, q) /\ q.pending = r.pending /\ q.upload_pending = r.upload_pending
  BY <1>4 DEF Renderers, SameAtlases
<1>8. initialize = q
  BY <1>1 DEF initialize
<1> HIDE DEF q
<1>9. RendererInv(q)
  BY <1>6, <1>7, StaysRenderer DEF IsRenderer
<1> QED BY <1>1, <1>5, <1>6, <1>7, <1>8, <1>9

LEMMA AdvanceFollows ==
  ASSUME NEW r, NEW uploaded, NEW awaited, Follows(r, uploaded, awaited)
  PROVE  Follows(Advance(r), uploaded, awaited)
<1>1. PICK B, C : r \in Renderers(B, C)
  BY DEF Follows, RendererInv, Sized, IsRenderer
<1> DEFINE q == Advance(r)
<1>2. /\ IsRenderer(q)
      /\ q.data = r.data /\ q.active = r.active /\ q.active_bytes = r.active_bytes
      /\ q.batches = r.batches /\ q.primitive_data = r.primitive_data
      /\ q.primitive_batches = r.primitive_batches
      /\ SameAtlases(r, q) /\ q.upload_pending = r.upload_pending /\ q.pending = r.pending
  BY <1>1, AdvanceFields
<1> HIDE DEF q
<1>3. RendererInv(q)
  BY <1>2, StaysRenderer DEF Follows
<1>4. Follows(q, uploaded, awaited)
  BY <1>2, <1>3 DEF Follows, WholeOn, SameAtlases
<1> QED BY <1>4 DEF q

\* One paint moves the upload on.
LEMMA AdvancesFollow ==
  ASSUME NEW r, NEW awaited, Follows(r, uploaded_scene, awaited), Advances(r, awaited),
         awaited = Nothing => queued_scene = Nothing
  PROVE  Follows(gl', uploaded_scene', queued_scene')
<1>1. CASE awaited = Nothing
  <2>1. gl' = Advance(r) /\ uploaded_scene' = uploaded_scene /\ queued_scene' = awaited
    BY <1>1 DEF Advances
  <2> QED BY <2>1, AdvanceFollows
<1>2. CASE awaited # Nothing
  <2>1. PICK q \in upload_next(r) :
               \/ /\ Completed(r, q)
                  /\ uploaded_scene' = awaited /\ queued_scene' = Nothing
                  /\ Draws(r, q)
               \/ /\ q.upload_pending
                  /\ queued_scene' = awaited /\ UNCHANGED uploaded_scene
                  /\ Draws(r, q)
               \/ /\ ~q.upload_pending /\ ~Completed(r, q)
                  /\ gl' = q /\ queued_scene' = awaited
                  /\ Gives_up
    BY <1>2 DEF Advances
  <2>2. CASE ~r.upload_pending
    <3>1. q = r
      BY <2>2, NothingToUpload
    <3>2. gl' = r /\ queued_scene' = awaited /\ uploaded_scene' = uploaded_scene
      BY <2>1, <2>2, <3>1 DEF Completed, Gives_up
    <3> QED BY <3>2
  <2>3. CASE r.upload_pending
    <3>1. Begun(r, awaited) /\ awaited \in PreparedScenes
      BY <1>2, <2>3 DEF Follows, RendererInv, ScenesOrNothing
    <3>2. Waiting(q, awaited) \/ Published(q, awaited) \/ Broken(q, awaited)
      BY <3>1, UploadGoesOn
    <3>3. CASE Waiting(q, awaited)
      <4>1. q.upload_pending /\ q.pending.scene = awaited /\ Begun(q, awaited)
        BY <3>3 DEF Waiting, Filling, Aims, Begun
      <4>2. Follows(q, uploaded_scene, awaited)
        BY <1>2, <4>1 DEF Follows, RendererInv, Begun
      <4>3. gl' = Advance(q) /\ uploaded_scene' = uploaded_scene /\ queued_scene' = awaited
        BY <2>1, <4>1 DEF Completed, Draws
      <4> QED BY <4>2, <4>3, AdvanceFollows
    <3>4. CASE Published(q, awaited)
      <4>1. ~q.upload_pending /\ Completed(r, q)
        BY <2>3, <3>4 DEF Published, Completed
      <4>2. Follows(q, awaited, Nothing)
        BY <3>1, <3>4
           DEF Follows, RendererInv, Published, WholeOn, AtlasesMatch, ScenesOrNothing
      <4>3. gl' = Advance(q) /\ uploaded_scene' = awaited /\ queued_scene' = Nothing
        BY <2>1, <4>1 DEF Draws
      <4> QED BY <4>2, <4>3, AdvanceFollows
    <3>5. CASE Broken(q, awaited)
      <4>1. Idle.scene = Nothing
        BY DEF Idle
      <4>2. ~q.upload_pending /\ ~Completed(r, q)
        BY <1>2, <3>5, <4>1 DEF Broken, Completed
      <4>3. Follows(q, uploaded_scene, awaited)
        BY <1>2, <3>5 DEF Follows, RendererInv, Broken
      <4>4. gl' = q /\ uploaded_scene' = uploaded_scene /\ queued_scene' = awaited
        BY <2>1, <4>2 DEF Gives_up
      <4> QED BY <4>3, <4>4
    <3> QED BY <3>2, <3>3, <3>4, <3>5
  <2> QED BY <2>2, <2>3
<1> QED BY <1>1, <1>2

LEMMA PaintFollows ==
  ASSUME VInv, paintGL
  PROVE  VInv'
<1>1. scene' = scene /\ scene \in ScenesOrNothing
  BY DEF VInv, paintGL
<1>2. /\ context = "none" => context' = "none" /\ ~graphics /\ ~graphics'
      /\ graphics' => context' # "none"
      /\ context' = "none" => context = "none"
  BY DEF VInv, paintGL
<1>3. CASE ~graphics' /\ UNCHANGED <<uploaded_scene, queued_scene, gl>>
  BY <1>1, <1>2, <1>3 DEF VInv
<1>4. CASE graphics' /\ Follows(gl', uploaded_scene', queued_scene')
  BY <1>1, <1>2, <1>4 DEF VInv
<1>5. CASE /\ graphics' /\ NeedsUpload /\ ~QueueAccepts(gl, scene)
           /\ UNCHANGED <<gl, queued_scene>> /\ Gives_up
  <2>1. Follows(gl', uploaded_scene', queued_scene')
    BY <1>5 DEF VInv, Gives_up
  <2> QED BY <2>1, <1>4, <1>5
<1>6. CASE /\ graphics' /\ NeedsUpload /\ QueueAccepts(gl, scene)
           /\ \E r \in queue_upload(gl, scene, resolver') : Advances(r, scene)
  <2>1. PICK r \in queue_upload(gl, scene, resolver') : Advances(r, scene)
    BY <1>6
  <2>2. scene \in PreparedScenes /\ scene # Nothing
    BY <1>1, <1>6 DEF NeedsUpload, ScenesOrNothing
  <2>3. RendererInv(r) /\ r.upload_pending /\ r.pending.scene = scene
    BY <1>6, <2>1, <2>2, QueuedIsBegun DEF VInv, Follows, RendererInv
  <2>4. Follows(r, uploaded_scene, scene)
    BY <2>2, <2>3 DEF VInv, Follows, ScenesOrNothing
  <2>5. Follows(gl', uploaded_scene', queued_scene')
    BY <2>1, <2>2, <2>4, AdvancesFollow
  <2> QED BY <2>5, <1>4, <1>6
<1>7. CASE graphics' /\ ~NeedsUpload /\ Advances(gl, queued_scene)
  <2>1. Follows(gl', uploaded_scene', queued_scene')
    BY <1>7, AdvancesFollow DEF VInv
  <2> QED BY <2>1, <1>4, <1>7
<1> QED BY <1>3, <1>5, <1>6, <1>7 DEF paintGL

LEMMA NextFollows ==
  ASSUME VInv, [ViewNext]_view_vars
  PROVE  VInv'
<1>1. CASE InitializeGL
  <2>1. context = "none" /\ uploaded_scene = Nothing /\ queued_scene = Nothing
    BY <1>1 DEF InitializeGL, VInv
  <2>2. UNCHANGED <<scene, uploaded_scene, queued_scene>> /\ context' # "none"
    BY <1>1 DEF InitializeGL, view
  <2>3. gl' = initialize \/ gl' = gl
    BY <1>1 DEF InitializeGL
  <2>4. RendererInv(gl')
    BY <2>3, EmptyRenderer DEF VInv, Follows
  <2> QED BY <2>1, <2>2, <2>4 DEF VInv, Follows
<1>2. CASE cleanup_context
  <2>1. /\ gl' = Abandoned /\ uploaded_scene' = Nothing /\ queued_scene' = Nothing
        /\ scene' = scene /\ graphics' = FALSE
    BY <1>2 DEF cleanup_context
  <2> QED BY <2>1, EmptyRenderer DEF VInv, Follows, ScenesOrNothing
<1>3. CASE handle_session_event
  BY <1>3 DEF handle_session_event, VInv, ScenesOrNothing
<1>4. CASE set_document_id
  BY <1>4 DEF set_document_id, VInv, Follows, ScenesOrNothing
<1>5. CASE set_image_tile_resolver
  BY <1>5 DEF set_image_tile_resolver, view, VInv
<1>6. CASE update_pointer
  BY <1>6 DEF update_pointer, view, VInv
<1>7. CASE Timeout
  BY <1>7 DEF Timeout, view, VInv
<1>8. CASE paintGL
  BY <1>8, PaintFollows
<1>9. CASE UNCHANGED view_vars
  BY <1>9 DEF view_vars, VInv
<1> QED BY <1>1, <1>2, <1>3, <1>4, <1>5, <1>6, <1>7, <1>8, <1>9 DEF ViewNext

LEMMA InitFollows == ViewInit => VInv
BY EmptyRenderer DEF ViewInit, VInv, Follows, ScenesOrNothing

\* The widget and the renderer agree on what is uploaded and what is on its way,
\* whatever calls fail and contexts are lost.
THEOREM ViewInvariant == ViewSpec => []VInv
<1> QED BY InitFollows, NextFollows, PTL DEF ViewSpec

\* The two curve buffers fit their budget, also while one scene is drawn and the
\* next is uploaded, whatever calls fail (ADR 0034).
THEOREM BuffersFit == ViewSpec => []CurveMemoryWithinBudget
<1>1. VInv => CurveMemoryWithinBudget
  BY DEF VInv, Follows, RendererInv, Sized, CurveMemoryWithinBudget
<1> QED BY <1>1, ViewInvariant, PTL

\* Whatever calls fail, a scene taken for uploaded has the curves, the primitives and
\* the glyphs that are its own, and its own patterns unless a glyph texture failed
\* and no upload of both atlases has succeeded since.
THEOREM UploadsAreWhole == ViewSpec => []ViewDrawsOneScene
<1>1. VInv => ViewDrawsOneScene
  BY DEF VInv, Follows, RendererInv, Sized, WholeOn, Whole,
         ViewDrawsOneScene, UploadedIsWhole, CurveMemoryWithinBudget
<1> QED BY <1>1, ViewInvariant, PTL

-----------------------------------------------------------------------------
(***************************************************************************)
(* The textures of image tiles.  The size of a set of tiles grows by that  *)
(* of a tile that is added, whatever the order they are added up in.       *)
(***************************************************************************)
TilesInAll == Cardinality(Tiles)
InOrder(n) == SetToSeq(Tiles)[n]

LEMMA TilesHaveAnOrder ==
  /\ TilesInAll \in Nat
  /\ \A n \in 1 .. TilesInAll : InOrder(n) \in Tiles
  /\ \A t \in Tiles : \E n \in 1 .. TilesInAll : InOrder(n) = t
  /\ \A n, k \in 1 .. TilesInAll : InOrder(n) = InOrder(k) => n = k
<1> DEFINE order == SetToSeq(Tiles)
<1>1. IsFiniteSet(Tiles)
  BY RendererAssumption
<1>2. TilesInAll \in Nat /\ ExistsBijection(1 .. TilesInAll, Tiles)
  BY <1>1, FS_CardinalityType DEF TilesInAll
<1>3. \E f \in [1 .. TilesInAll -> Tiles] : IsInjective(f)
  BY <1>2 DEF ExistsBijection, Bijection, Injection, IsInjective
<1>4. order \in [1 .. TilesInAll -> Tiles] /\ IsInjective(order)
  BY <1>3 DEF SetToSeq, TilesInAll
<1> HIDE DEF order
<1>5. order \in Injection(1 .. TilesInAll, Tiles)
  BY <1>4 DEF Injection, IsInjective
<1>6. Cardinality(1 .. TilesInAll) = TilesInAll
  BY <1>2, FS_Interval
<1>7. order \in Surjection(1 .. TilesInAll, Tiles)
  BY <1>1, <1>5, <1>6, FS_Injection DEF TilesInAll
<1>8. \A t \in Tiles : \E n \in 1 .. TilesInAll : order[n] = t
  BY <1>7 DEF Surjection
<1> QED BY <1>2, <1>4, <1>8 DEF InOrder, order, IsInjective

Share(S, n) == IF InOrder(n) \in S THEN TileBytes[InOrder(n)] ELSE 0

LEMMA SizesAreDefined ==
  ASSUME NEW S
  PROVE  /\ SizeUpTo(S) \in [0 .. TilesInAll -> Nat]
         /\ SizeUpTo(S)[0] = 0
         /\ \A n \in 1 .. TilesInAll : SizeUpTo(S)[n] = SizeUpTo(S)[n - 1] + Share(S, n)
<1> DEFINE step == [n \in 1 .. TilesInAll |-> [b \in Nat |-> b + Share(S, n)]]
<1>1. TilesInAll \in Nat
  BY TilesHaveAnOrder
<1>2. ASSUME NEW n \in 1 .. TilesInAll PROVE Share(S, n) \in Nat
  <2>1. InOrder(n) \in Tiles
    BY TilesHaveAnOrder
  <2> QED BY <2>1, RendererAssumption DEF Share
<1>3. step \in Steps(Nat, TilesInAll)
  <2>1. \A n \in 1 .. TilesInAll, b \in Nat : b + Share(S, n) \in Nat
    BY <1>2
  <2> QED BY <2>1 DEF Steps
<1>4. PICK f : IsLoop(f, Nat, 0, TilesInAll, step)
  <2> HIDE DEF step
  <2> QED BY <1>1, <1>3, LoopsEnd
<1>5. \A n \in 1 .. TilesInAll : f[n - 1] \in Nat /\ f[n] = f[n - 1] + Share(S, n)
  <2> SUFFICES ASSUME NEW n \in 1 .. TilesInAll
               PROVE  f[n - 1] \in Nat /\ f[n] = f[n - 1] + Share(S, n)
    OBVIOUS
  <2>1. f[n - 1] \in Nat
    BY <1>1, <1>4 DEF IsLoop
  <2> QED BY <2>1, <1>4 DEF IsLoop
<1>6. f = [n \in 0 .. TilesInAll |-> IF n = 0 THEN 0 ELSE f[n - 1] + Share(S, n)]
  <2>1. \A n \in 0 .. TilesInAll : n # 0 => n \in 1 .. TilesInAll
    OBVIOUS
  <2> QED BY <2>1, <1>4, <1>5 DEF IsLoop
<1> DEFINE g == CHOOSE g : g = [n \in 0 .. TilesInAll |->
                                 IF n = 0 THEN 0 ELSE g[n - 1] + Share(S, n)]
<1>7. SizeUpTo(S) = g
  BY DEF SizeUpTo, Share, InOrder, TilesInAll
<1>8. g = [n \in 0 .. TilesInAll |-> IF n = 0 THEN 0 ELSE g[n - 1] + Share(S, n)]
  BY <1>6
<1> HIDE DEF g
<1>9. g[0] = 0 /\ \A n \in 1 .. TilesInAll : g[n] = g[n - 1] + Share(S, n)
  BY <1>1, <1>8
<1>10. g \in [0 .. TilesInAll -> Nat]
  <2> DEFINE G == {n \in 0 .. TilesInAll : g[n] \in Nat}
  <2>1. 0 \in G
    BY <1>1, <1>9
  <2>2. \A n \in 1 .. TilesInAll : n - 1 \in G => n \in G
    BY <1>2, <1>9
  <2> HIDE DEF G
  <2>3. 0 .. TilesInAll \subseteq G
    BY <1>1, <2>1, <2>2, UpTo
  <2> QED BY <2>3, <1>8 DEF G
<1> QED BY <1>7, <1>9, <1>10

LEMMA OneMoreTile ==
  ASSUME NEW S, NEW t \in Tiles, t \notin S
  PROVE  /\ Bytes(S) \in Nat
         /\ Bytes(S \cup {t}) = Bytes(S) + TileBytes[t]
<1> DEFINE f == SizeUpTo(S)
           g == SizeUpTo(S \cup {t})
<1>1. TilesInAll \in Nat
  BY TilesHaveAnOrder
<1>2. PICK p \in 1 .. TilesInAll : InOrder(p) = t
  BY TilesHaveAnOrder
<1>3. TileBytes[t] \in Nat
  BY RendererAssumption
<1> DEFINE G == {n \in 0 .. TilesInAll : g[n] = f[n] + IF p <= n THEN TileBytes[t] ELSE 0}
<1>4. /\ f \in [0 .. TilesInAll -> Nat] /\ f[0] = 0
      /\ \A n \in 1 .. TilesInAll : f[n] = f[n - 1] + Share(S, n)
  BY SizesAreDefined
<1>5. /\ g \in [0 .. TilesInAll -> Nat] /\ g[0] = 0
      /\ \A n \in 1 .. TilesInAll : g[n] = g[n - 1] + Share(S \cup {t}, n)
  BY SizesAreDefined
<1> HIDE DEF f, g
<1>6. 0 \in G
  BY <1>1, <1>4, <1>5
<1>7. ASSUME NEW n \in 1 .. TilesInAll, n - 1 \in G PROVE n \in G
  <2>1. f[n - 1] \in Nat /\ n - 1 \in 0 .. TilesInAll
    BY <1>1, <1>4
  <2>2. Share(S, n) \in Nat
    <3>1. InOrder(n) \in Tiles
      BY TilesHaveAnOrder
    <3> QED BY <3>1, RendererAssumption DEF Share
  <2> DEFINE grown(k) == IF p <= k THEN TileBytes[t] ELSE 0
  <2>5. g[n - 1] = f[n - 1] + grown(n - 1)
    BY <1>7
  <2>6. n \in G <=> g[n] = f[n] + grown(n)
    OBVIOUS
  <2>7. /\ f[n] = f[n - 1] + Share(S, n)
        /\ g[n] = g[n - 1] + Share(S \cup {t}, n)
    BY <1>4, <1>5
  <2>8. n \in Int /\ p \in Int
    OBVIOUS
  <2> HIDE DEF G
  <2>3. CASE n = p
    <3>1. Share(S, n) = 0 /\ Share(S \cup {t}, n) = TileBytes[t]
      BY <2>3, <1>2 DEF Share
    <3>2. grown(n - 1) = 0 /\ grown(n) = TileBytes[t]
      BY <2>3, <2>8
    <3> QED BY <2>1, <2>5, <2>6, <2>7, <3>1, <3>2, <1>3
  <2>4. CASE n # p
    <3>1. InOrder(n) # t
      BY <2>4, <1>2, TilesHaveAnOrder
    <3>2. Share(S \cup {t}, n) = Share(S, n)
      BY <3>1 DEF Share
    <3>3. grown(n - 1) = grown(n) /\ grown(n) \in Nat
      BY <2>4, <2>8, <1>3
    <3> HIDE DEF grown
    <3> QED BY <2>1, <2>2, <2>5, <2>6, <2>7, <3>2, <3>3
  <2> QED BY <2>3, <2>4
<1>8. TilesInAll \in G
  <2>1. \A n \in 1 .. TilesInAll : n - 1 \in G => n \in G
    BY <1>7
  <2> HIDE DEF G
  <2>2. 0 .. TilesInAll \subseteq G
    BY <1>1, <1>6, <2>1, UpTo
  <2> QED BY <1>1, <2>2
<1>9. f[TilesInAll] \in Nat /\ g[TilesInAll] = f[TilesInAll] + TileBytes[t]
  BY <1>1, <1>4, <1>8
<1> QED BY <1>9 DEF Bytes, f, g, TilesInAll

LEMMA NoTilesNoBytes == Bytes({}) = 0
<1> DEFINE f == SizeUpTo({})
           G == {n \in 0 .. TilesInAll : f[n] = 0}
<1>1. TilesInAll \in Nat
  BY TilesHaveAnOrder
<1>2. f[0] = 0 /\ \A n \in 1 .. TilesInAll : f[n] = f[n - 1] + Share({}, n)
  BY SizesAreDefined
<1> HIDE DEF f
<1>3. 0 \in G
  BY <1>1, <1>2
<1>4. \A n \in 1 .. TilesInAll : n - 1 \in G => n \in G
  BY <1>2 DEF Share
<1> HIDE DEF G
<1>5. 0 .. TilesInAll \subseteq G
  BY <1>1, <1>3, <1>4, UpTo
<1> QED BY <1>1, <1>5 DEF G, f, Bytes, TilesInAll

-----------------------------------------------------------------------------
(***************************************************************************)
(* TileCaches whose textures are those of their images, and whose count of     *)
(* bytes is right and within the budget.                                   *)
(***************************************************************************)
TextureTables == UNION {[N -> Tiles] : N \in SUBSET Nat}
ImageTables == UNION {[S -> [texture : Nat, used : Nat]] : S \in SUBSET Tiles}
TileCaches == [textures : TextureTables, images : ImageTables, bytes : Nat, stamp : Nat]

Textures(I) == {I[t].texture : t \in DOMAIN I}

Sound(c) ==
  /\ DOMAIN c.textures = Textures(c.images)
  /\ \A t \in DOMAIN c.images : c.textures[c.images[t].texture] = t
  /\ c.bytes = Bytes(DOMAIN c.images)
  /\ c.bytes <= MaximumImageTextureBytes

SoundCaches == {c \in TileCaches : Sound(c)}

LEMMA NoTilesAreSound == NoTiles \in SoundCaches
<1> DEFINE none == <<>>
<1>1. none \in TextureTables
  <2>1. none \in [{} -> Tiles]
    OBVIOUS
  <2> HIDE DEF none
  <2> QED BY <2>1 DEF TextureTables
<1>2. none \in ImageTables /\ DOMAIN none = {}
  <2>1. none \in [{} -> [texture : Nat, used : Nat]]
    OBVIOUS
  <2> HIDE DEF none
  <2> QED BY <2>1 DEF ImageTables
<1>3. 0 <= MaximumImageTextureBytes
  BY RendererAssumption
<1>4. NoTiles = [textures |-> none, images |-> none, bytes |-> 0, stamp |-> 0]
  BY DEF NoTiles
<1> HIDE DEF none
<1>5. NoTiles \in TileCaches
  BY <1>1, <1>2, <1>4 DEF TileCaches
<1>6. Sound(NoTiles)
  BY <1>2, <1>3, <1>4, NoTilesNoBytes DEF Sound, Textures
<1> QED BY <1>5, <1>6 DEF SoundCaches

LEMMA TablesOfCache ==
  ASSUME NEW c \in TileCaches
  PROVE  /\ DOMAIN c.images \subseteq Tiles
         /\ c.images \in [DOMAIN c.images -> [texture : Nat, used : Nat]]
         /\ DOMAIN c.textures \subseteq Nat
         /\ c.textures \in [DOMAIN c.textures -> Tiles]
         /\ IsFiniteSet(DOMAIN c.images)
         /\ Cardinality(DOMAIN c.images) \in 0 .. TilesInAll
<1>1. c.images \in ImageTables /\ c.textures \in TextureTables
  BY DEF TileCaches
<1>2. PICK S \in SUBSET Tiles : c.images \in [S -> [texture : Nat, used : Nat]]
  BY <1>1 DEF ImageTables
<1>3. PICK N \in SUBSET Nat : c.textures \in [N -> Tiles]
  BY <1>1 DEF TextureTables
<1>4. DOMAIN c.images = S /\ DOMAIN c.textures = N
  BY <1>2, <1>3
<1>5. IsFiniteSet(S) /\ Cardinality(S) <= TilesInAll
  BY RendererAssumption, FS_Subset DEF TilesInAll
<1>6. Cardinality(S) \in Nat
  BY <1>5, FS_CardinalityType
<1> QED BY <1>2, <1>3, <1>4, <1>5, <1>6

(***************************************************************************)
(* Every tile of the cache has a texture name of its own.                  *)
(***************************************************************************)
LEMMA EvictKeepsSound ==
  ASSUME NEW c \in SoundCaches, NEW t \in DOMAIN c.images
  PROVE  /\ Evict(c, t) \in SoundCaches
         /\ DOMAIN Evict(c, t).images = DOMAIN c.images \ {t}
         /\ Evict(c, t).stamp = c.stamp
<1> DEFINE name == c.images[t].texture
           fewer == Without(c.textures, {name})
           rest == Without(c.images, {t})
           bytes == c.bytes - TileBytes[t]
           q == Evict(c, t)
<1>1. c \in TileCaches /\ Sound(c)
  BY DEF SoundCaches
<1>2. /\ DOMAIN c.images \subseteq Tiles
      /\ c.images \in [DOMAIN c.images -> [texture : Nat, used : Nat]]
      /\ DOMAIN c.textures \subseteq Nat
      /\ c.textures \in [DOMAIN c.textures -> Tiles]
  BY <1>1, TablesOfCache
<1>3. q \in [textures : {fewer}, images : {rest}, bytes : {bytes}, stamp : {c.stamp}]
  BY <1>1 DEF Evict, TileCaches
<1>4. /\ DOMAIN fewer = DOMAIN c.textures \ {name}
      /\ \A n \in DOMAIN fewer : fewer[n] = c.textures[n]
  BY DEF Without
<1>5. /\ DOMAIN rest = DOMAIN c.images \ {t}
      /\ \A u \in DOMAIN rest : rest[u] = c.images[u]
  BY DEF Without
<1>6. fewer \in TextureTables
  <2>1. fewer \in [DOMAIN c.textures \ {name} -> Tiles]
    BY <1>2 DEF Without
  <2> HIDE DEF fewer, name
  <2> QED BY <2>1, <1>2 DEF TextureTables
<1>7. rest \in ImageTables
  <2>1. rest \in [DOMAIN c.images \ {t} -> [texture : Nat, used : Nat]]
    BY <1>2 DEF Without
  <2> HIDE DEF rest
  <2> QED BY <2>1, <1>2 DEF ImageTables
<1>8. /\ c.bytes = Bytes(DOMAIN rest) + TileBytes[t]
      /\ Bytes(DOMAIN rest) \in Nat
  <2>1. DOMAIN rest \cup {t} = DOMAIN c.images /\ t \notin DOMAIN rest /\ t \in Tiles
    BY <1>2, <1>5
  <2> HIDE DEF rest
  <2>2. Bytes(DOMAIN rest \cup {t}) = Bytes(DOMAIN rest) + TileBytes[t] /\ Bytes(DOMAIN rest) \in Nat
    BY <2>1, OneMoreTile
  <2> QED BY <2>1, <2>2, <1>1 DEF Sound
<1>9. TileBytes[t] \in Nat /\ c.bytes \in Nat /\ MaximumImageTextureBytes \in Nat
  BY <1>1, <1>2, RendererAssumption DEF TileCaches
<1>10. bytes = Bytes(DOMAIN rest) /\ bytes \in Nat /\ bytes <= MaximumImageTextureBytes
  <2>1. c.bytes <= MaximumImageTextureBytes
    BY <1>1 DEF Sound
  <2> HIDE DEF rest
  <2> QED BY <1>8, <1>9, <2>1
<1>11. \A u \in DOMAIN c.images : u # t => c.images[u].texture # name
  BY <1>1 DEF Sound
<1>12. \A u \in DOMAIN rest : /\ rest[u].texture \in DOMAIN fewer
                              /\ fewer[rest[u].texture] = u
  <2> SUFFICES ASSUME NEW u \in DOMAIN rest
               PROVE  rest[u].texture \in DOMAIN fewer /\ fewer[rest[u].texture] = u
    OBVIOUS
  <2>1. u \in DOMAIN c.images /\ u # t /\ rest[u] = c.images[u]
    BY <1>5
  <2>2. c.images[u].texture \in DOMAIN c.textures /\ c.textures[c.images[u].texture] = u
    BY <2>1, <1>1 DEF Sound, Textures
  <2>3. c.images[u].texture # name
    BY <2>1, <1>11
  <2> HIDE DEF name, fewer, rest
  <2> QED BY <2>1, <2>2, <2>3, <1>4
<1>13. DOMAIN fewer \subseteq Textures(rest)
  <2> SUFFICES ASSUME NEW n \in DOMAIN fewer PROVE n \in Textures(rest)
    OBVIOUS
  <2>1. n \in DOMAIN c.textures /\ n # name
    BY <1>4
  <2>2. PICK u \in DOMAIN c.images : n = c.images[u].texture
    BY <2>1, <1>1 DEF Sound, Textures
  <2>3. u \in DOMAIN rest /\ rest[u] = c.images[u]
    BY <2>1, <2>2, <1>5
  <2> HIDE DEF rest
  <2> QED BY <2>2, <2>3 DEF Textures
<1> HIDE DEF fewer, rest, bytes, name
<1>14. q.textures = fewer /\ q.images = rest /\ q.bytes = bytes /\ q.stamp = c.stamp
  BY <1>3
<1>15. q \in TileCaches
  BY <1>1, <1>3, <1>6, <1>7, <1>10 DEF TileCaches
<1> HIDE DEF q
<1>16. Sound(q)
  <2>1. Textures(rest) \subseteq DOMAIN fewer
    BY <1>12 DEF Textures
  <2> QED BY <2>1, <1>10, <1>12, <1>13, <1>14 DEF Sound
<1> QED BY <1>5, <1>14, <1>15, <1>16 DEF SoundCaches, q

LEMMA FreeNameIsFree ==
  ASSUME NEW c \in SoundCaches
  PROVE  FreeName(c) \in Nat /\ FreeName(c) \notin DOMAIN c.textures
<1> DEFINE n == TilesInAll + 1
           free(k) == k \notin DOMAIN c.textures /\ 1 .. (k - 1) \subseteq DOMAIN c.textures
           D == DOMAIN c.images
           name == [t \in D |-> c.images[t].texture]
<1>1. c \in TileCaches /\ DOMAIN c.textures = Textures(c.images)
  BY DEF SoundCaches, Sound
<1>2. TilesInAll \in Nat /\ n \in Nat
  BY TilesHaveAnOrder
<1>3. \E k \in 1 .. n : k \notin DOMAIN c.textures
  <2> SUFFICES ASSUME 1 .. n \subseteq DOMAIN c.textures PROVE FALSE
    OBVIOUS
  <2>1. IsFiniteSet(D) /\ Cardinality(D) \in 0 .. TilesInAll
    BY <1>1, TablesOfCache
  <2>2. name \in Surjection(D, Textures(c.images))
    <3>1. name \in [D -> Textures(c.images)]
      BY DEF Textures
    <3>2. \A x \in Textures(c.images) : \E t \in D : name[t] = x
      BY DEF Textures
    <3> HIDE DEF name, D
    <3> QED BY <3>1, <3>2 DEF Surjection
  <2>3. IsFiniteSet(Textures(c.images)) /\ Cardinality(Textures(c.images)) <= Cardinality(D)
    <3> HIDE DEF name, D
    <3> QED BY <2>1, <2>2, FS_Surjection
  <2>4. Cardinality(1 .. n) = n
    <3>1. n >= 1
      BY <1>2
    <3> HIDE DEF n
    <3> QED BY <1>2, <3>1, FS_Interval
  <2>5. Cardinality(1 .. n) <= Cardinality(Textures(c.images))
    <3> HIDE DEF n
    <3> QED BY <1>1, <2>3, FS_Subset
  <2>6. Cardinality(Textures(c.images)) \in Nat
    BY <2>3, FS_CardinalityType
  <2> QED BY <2>1, <2>3, <2>4, <2>5, <2>6, <1>2
<1>4. \E k \in 1 .. n : free(k)
  <2> SUFFICES ASSUME \A k \in 1 .. n : ~free(k) PROVE FALSE
    OBVIOUS
  <2> DEFINE G == {k \in 0 .. n : 1 .. k \subseteq DOMAIN c.textures}
  <2>1. 0 \in G
    BY <1>2
  <2>2. ASSUME NEW k \in 1 .. n, k - 1 \in G PROVE k \in G
    <3>1. 1 .. (k - 1) \subseteq DOMAIN c.textures
      BY <2>2
    <3>2. k \in DOMAIN c.textures
      BY <3>1
    <3>3. \A i \in 1 .. k : i = k \/ i \in 1 .. (k - 1)
      BY <1>2
    <3> QED BY <3>1, <3>2, <3>3
  <2>3. 0 .. n \subseteq G
    <3> HIDE DEF G, n
    <3> QED BY <1>2, <2>1, <2>2, UpTo
  <2>4. 1 .. n \subseteq DOMAIN c.textures
    <3>1. n \in G
      BY <1>2, <2>3
    <3> QED BY <3>1
  <2> QED BY <2>4, <1>3
<1>5. FreeName(c) = CHOOSE k \in 1 .. n : free(k)
  BY DEF FreeName, TilesInAll
<1>6. FreeName(c) \in 1 .. n /\ free(FreeName(c))
  <2> HIDE DEF free, n
  <2> QED BY <1>4, <1>5
<1> QED BY <1>2, <1>6

LEMMA AddKeepsSound ==
  ASSUME NEW c \in SoundCaches, NEW t \in Tiles, t \notin DOMAIN c.images,
         c.bytes + TileBytes[t] <= MaximumImageTextureBytes
  PROVE  AddTexture(c, t) \in SoundCaches
<1> DEFINE name == FreeName(c)
           record == [texture |-> name, used |-> c.stamp]
           more == With(c.textures, name, t)
           all == With(c.images, t, record)
           bytes == c.bytes + TileBytes[t]
           q == AddTexture(c, t)
<1>1. c \in TileCaches /\ Sound(c)
  BY DEF SoundCaches
<1>2. /\ DOMAIN c.images \subseteq Tiles
      /\ c.images \in [DOMAIN c.images -> [texture : Nat, used : Nat]]
      /\ DOMAIN c.textures \subseteq Nat
      /\ c.textures \in [DOMAIN c.textures -> Tiles]
  BY <1>1, TablesOfCache
<1>3. name \in Nat /\ name \notin DOMAIN c.textures
  BY FreeNameIsFree
<1>4. record \in [texture : Nat, used : Nat] /\ record.texture = name
  BY <1>1, <1>3 DEF TileCaches
<1>5. q = [c EXCEPT !.textures = more, !.images = all, !.bytes = bytes]
  BY <1>1 DEF AddTexture, TileCaches
<1> HIDE DEF name, record
<1>6. /\ DOMAIN more = DOMAIN c.textures \cup {name}
      /\ more[name] = t /\ \A n \in DOMAIN c.textures : more[n] = c.textures[n]
  BY <1>3 DEF With
<1>7. /\ DOMAIN all = DOMAIN c.images \cup {t}
      /\ all[t] = record /\ \A u \in DOMAIN c.images : all[u] = c.images[u]
  BY DEF With
<1>8. more \in TextureTables
  <2>1. more \in [DOMAIN c.textures \cup {name} -> Tiles]
    BY <1>2 DEF With
  <2> HIDE DEF more
  <2> QED BY <2>1, <1>2, <1>3 DEF TextureTables
<1>9. all \in ImageTables
  <2>1. all \in [DOMAIN c.images \cup {t} -> [texture : Nat, used : Nat]]
    BY <1>2, <1>4 DEF With
  <2> HIDE DEF all
  <2> QED BY <2>1, <1>2 DEF ImageTables
<1>10. TileBytes[t] \in Nat /\ c.bytes \in Nat
  BY <1>1, RendererAssumption DEF TileCaches
<1> HIDE DEF more, all
<1>11. bytes = Bytes(DOMAIN all) /\ bytes \in Nat
  <2>1. Bytes(DOMAIN c.images \cup {t}) = Bytes(DOMAIN c.images) + TileBytes[t]
    BY OneMoreTile
  <2> QED BY <2>1, <1>1, <1>7, <1>10 DEF Sound
<1>12. bytes <= MaximumImageTextureBytes
  OBVIOUS
<1> HIDE DEF bytes
<1>13. /\ q \in TileCaches
       /\ q.textures = more /\ q.images = all /\ q.bytes = bytes
  BY <1>1, <1>5, <1>8, <1>9, <1>11 DEF TileCaches
<1> HIDE DEF q
<1>14. \A u \in DOMAIN all : more[all[u].texture] = u /\ all[u].texture \in DOMAIN more
  <2> SUFFICES ASSUME NEW u \in DOMAIN all
               PROVE  more[all[u].texture] = u /\ all[u].texture \in DOMAIN more
    OBVIOUS
  <2>1. CASE u = t
    BY <2>1, <1>4, <1>6, <1>7
  <2>2. CASE u # t
    <3>1. u \in DOMAIN c.images /\ all[u] = c.images[u]
      BY <2>2, <1>7
    <3>2. c.images[u].texture \in DOMAIN c.textures /\ c.textures[c.images[u].texture] = u
      BY <3>1, <1>1 DEF Sound, Textures
    <3> QED BY <3>1, <3>2, <1>6
  <2> QED BY <2>1, <2>2
<1>15. DOMAIN more \subseteq Textures(all)
  <2> SUFFICES ASSUME NEW n \in DOMAIN more PROVE n \in Textures(all)
    OBVIOUS
  <2>1. CASE n = name
    BY <2>1, <1>4, <1>7 DEF Textures
  <2>2. CASE n \in DOMAIN c.textures
    <3>1. PICK u \in DOMAIN c.images : n = c.images[u].texture
      BY <2>2, <1>1 DEF Sound, Textures
    <3> QED BY <3>1, <1>7 DEF Textures
  <2> QED BY <2>1, <2>2, <1>6
<1>16. Sound(q)
  <2>1. Textures(all) \subseteq DOMAIN more
    BY <1>14 DEF Textures
  <2> QED BY <2>1, <1>11, <1>12, <1>13, <1>14, <1>15 DEF Sound
<1> QED BY <1>13, <1>16 DEF SoundCaches, q

(***************************************************************************)
(* Evictions make room: after each turn there is room for the tile or one  *)
(* image less, and there are no more of them than tiles.                   *)
(***************************************************************************)
Smaller(c) == {q \in SoundCaches : DOMAIN q.images \subseteq DOMAIN c.images}

Turn(C, t) == UNION {EvictFor(q, t) : q \in C}

LEMMA TurnsKeepSound ==
  ASSUME NEW c, NEW C \in SUBSET Smaller(c), NEW t
  PROVE  Turn(C, t) \in SUBSET Smaller(c)
<1> SUFFICES ASSUME NEW q \in C, NEW e \in EvictFor(q, t) PROVE e \in Smaller(c)
  BY DEF Turn
<1>1. q \in SoundCaches /\ DOMAIN q.images \subseteq DOMAIN c.images
  BY DEF Smaller
<1>2. CASE e = q
  BY <1>1, <1>2 DEF Smaller
<1>3. ASSUME NEW v \in Oldest(q), e = Evict(q, v) PROVE e \in Smaller(c)
  <2>1. v \in DOMAIN q.images
    BY DEF Oldest
  <2>2. e \in SoundCaches /\ DOMAIN e.images \subseteq DOMAIN q.images
    BY <1>1, <1>3, <2>1, EvictKeepsSound
  <2> QED BY <1>1, <2>2 DEF Smaller
<1> QED BY <1>2, <1>3 DEF EvictFor

LEMMA EvictionsAreDefined ==
  ASSUME NEW c \in SoundCaches, NEW t
  PROVE  /\ Evictions(c, t)[0] = {c}
         /\ \A n \in 0 .. TilesInAll : Evictions(c, t)[n] \in SUBSET Smaller(c)
         /\ \A n \in 1 .. TilesInAll : Evictions(c, t)[n] = Turn(Evictions(c, t)[n - 1], t)
<1> DEFINE S == SUBSET Smaller(c)
           step == [n \in 1 .. TilesInAll |-> [C \in S |-> Turn(C, t)]]
           body(f) == [n \in 0 .. TilesInAll |->
                         IF n = 0 THEN {c} ELSE UNION {EvictFor(q, t) : q \in f[n - 1]}]
<1>1. TilesInAll \in Nat
  BY TilesHaveAnOrder
<1>2. \A C \in S : Turn(C, t) \in S
  BY TurnsKeepSound
<1>3. {c} \in S
  BY DEF Smaller
<1> HIDE DEF S
<1>4. step \in Steps(S, TilesInAll)
  BY <1>2 DEF Steps
<1>5. PICK f : IsLoop(f, S, {c}, TilesInAll, step)
  <2> HIDE DEF step
  <2> QED BY <1>1, <1>3, <1>4, LoopsEnd
<1>6. \A n \in 1 .. TilesInAll : f[n - 1] \in S /\ f[n] = Turn(f[n - 1], t)
  <2> SUFFICES ASSUME NEW n \in 1 .. TilesInAll
               PROVE  f[n - 1] \in S /\ f[n] = Turn(f[n - 1], t)
    OBVIOUS
  <2>1. f[n - 1] \in S
    BY <1>1, <1>5 DEF IsLoop
  <2> QED BY <2>1, <1>5 DEF IsLoop
<1>7. f = body(f)
  <2>1. \A n \in 0 .. TilesInAll : n # 0 => n \in 1 .. TilesInAll
    OBVIOUS
  <2> QED BY <2>1, <1>5, <1>6 DEF IsLoop, Turn
<1> DEFINE g == CHOOSE g : g = body(g)
<1>8. Evictions(c, t) = g
  BY DEF Evictions, TilesInAll
<1>9. g = body(g)
  BY <1>7
<1> HIDE DEF g
<1>10. g[0] = {c} /\ \A n \in 1 .. TilesInAll : g[n] = Turn(g[n - 1], t)
  BY <1>1, <1>9 DEF Turn
<1>11. 0 .. TilesInAll \subseteq {n \in 0 .. TilesInAll : g[n] \in S}
  <2> DEFINE G == {n \in 0 .. TilesInAll : g[n] \in S}
  <2>1. 0 \in G
    BY <1>1, <1>3, <1>10
  <2>2. \A n \in 1 .. TilesInAll : n - 1 \in G => n \in G
    BY <1>2, <1>10
  <2> HIDE DEF G
  <2>3. 0 .. TilesInAll \subseteq G
    BY <1>1, <2>1, <2>2, UpTo
  <2> QED BY <2>3 DEF G
<1> QED BY <1>8, <1>10, <1>11 DEF S

LEMMA RoomIsMade ==
  ASSUME NEW c \in SoundCaches, NEW t \in Tiles, TileBytes[t] <= MaximumImageTextureBytes,
         NEW q \in MakeRoom(c, t)
  PROVE  q \in Smaller(c) /\ q.bytes + TileBytes[t] <= MaximumImageTextureBytes
<1> DEFINE f == Evictions(c, t)
           Fits(e) == e.bytes + TileBytes[t] <= MaximumImageTextureBytes
           Left(e) == Cardinality(DOMAIN e.images)
           Emptier(e, n) == Fits(e) \/ Left(e) <= TilesInAll - n
           G == {n \in 0 .. TilesInAll : \A e \in f[n] : Emptier(e, n)}
<1>1. TilesInAll \in Nat /\ TileBytes[t] \in Nat /\ MaximumImageTextureBytes \in Nat
  BY TilesHaveAnOrder, RendererAssumption
<1>2. /\ f[0] = {c}
      /\ \A n \in 0 .. TilesInAll : f[n] \in SUBSET Smaller(c)
      /\ \A n \in 1 .. TilesInAll : f[n] = Turn(f[n - 1], t)
  BY EvictionsAreDefined
<1> HIDE DEF f
<1>3. ASSUME NEW e \in SoundCaches
      PROVE  IsFiniteSet(DOMAIN e.images) /\ Left(e) \in 0 .. TilesInAll
  BY TablesOfCache DEF SoundCaches
<1>4. 0 \in G
  <2>1. Left(c) <= TilesInAll - 0
    BY <1>1, <1>3
  <2> QED BY <1>1, <1>2, <2>1
<1>5. ASSUME NEW n \in 1 .. TilesInAll, n - 1 \in G PROVE n \in G
  <2> SUFFICES ASSUME NEW e \in f[n] PROVE Emptier(e, n)
    BY <1>1
  <2>1. n - 1 \in 0 .. TilesInAll
    BY <1>1
  <2>2. PICK d \in f[n - 1] : e \in EvictFor(d, t)
    BY <1>2 DEF Turn
  <2>3. d \in SoundCaches
    BY <2>1, <1>2 DEF Smaller
  <2>4. Emptier(d, n - 1)
    BY <1>5
  <2>5. IsFiniteSet(DOMAIN d.images) /\ Left(d) \in 0 .. TilesInAll
    BY <2>3, <1>3
  <2>6. CASE DOMAIN d.images # {} /\ d.bytes + TileBytes[t] > MaximumImageTextureBytes
    <3>1. PICK v \in Oldest(d) : e = Evict(d, v)
      BY <2>2, <2>6 DEF EvictFor
    <3>2. v \in DOMAIN d.images
      BY DEF Oldest
    <3>3. DOMAIN e.images = DOMAIN d.images \ {v}
      BY <2>3, <3>1, <3>2, EvictKeepsSound
    <3>4. Left(e) = Left(d) - 1
      BY <2>5, <3>2, <3>3, FS_RemoveElement
    <3>5. d.bytes \in Nat
      BY <2>3 DEF SoundCaches, TileCaches
    <3>6. Left(d) <= TilesInAll - (n - 1)
      BY <2>4, <2>6, <3>5, <1>1
    <3> HIDE DEF Left
    <3> QED BY <3>4, <3>6, <2>5, <1>1
  <2>7. CASE ~(DOMAIN d.images # {} /\ d.bytes + TileBytes[t] > MaximumImageTextureBytes)
    <3>1. e = d
      BY <2>2, <2>7 DEF EvictFor
    <3>2. d.bytes \in Nat
      BY <2>3 DEF SoundCaches, TileCaches
    <3>3. CASE DOMAIN d.images = {}
      <4>1. d.bytes = 0
        BY <2>3, <3>3, NoTilesNoBytes DEF SoundCaches, Sound
      <4> QED BY <3>1, <4>1, <1>1
    <3>4. CASE ~(d.bytes + TileBytes[t] > MaximumImageTextureBytes)
      BY <3>1, <3>2, <3>4, <1>1
    <3> QED BY <2>7, <3>3, <3>4
  <2> QED BY <2>6, <2>7
<1>6. TilesInAll \in G
  <2> HIDE DEF G
  <2>1. 0 .. TilesInAll \subseteq G
    BY <1>1, <1>4, <1>5, UpTo
  <2> QED BY <1>1, <2>1
<1>7. q \in f[TilesInAll]
  BY DEF MakeRoom, f, TilesInAll
<1>8. q \in Smaller(c) /\ q \in SoundCaches
  BY <1>1, <1>2, <1>7 DEF Smaller
<1>9. CASE Fits(q)
  BY <1>8, <1>9
<1>10. CASE Left(q) <= TilesInAll - TilesInAll
  <2>1. IsFiniteSet(DOMAIN q.images) /\ Left(q) \in 0 .. TilesInAll
    BY <1>8, <1>3
  <2>2. Left(q) = 0
    <3> HIDE DEF Left
    <3> QED BY <2>1, <1>1, <1>10
  <2>3. DOMAIN q.images = {}
    BY <2>1, <2>2, FS_EmptySet
  <2>4. q.bytes = 0
    BY <1>8, <2>3, NoTilesNoBytes DEF SoundCaches, Sound
  <2> QED BY <1>1, <1>8, <2>4
<1>11. Emptier(q, TilesInAll)
  BY <1>6, <1>7
<1> QED BY <1>9, <1>10, <1>11

LEMMA UploadKeepsSound ==
  ASSUME NEW c \in SoundCaches, NEW t \in Tiles, NEW resolved,
         NEW q \in upload_image_tile(c, t, resolved)
  PROVE  q \in SoundCaches
<1>1. c \in TileCaches /\ Sound(c)
  BY DEF SoundCaches
<1>2. CASE t \in DOMAIN c.images
  <2> DEFINE used == [c.images[t] EXCEPT !.used = c.stamp]
             I == [c.images EXCEPT ![t] = used]
  <2>1. DOMAIN c.images \subseteq Tiles /\ c.images \in [DOMAIN c.images -> [texture : Nat, used : Nat]]
    BY <1>1, TablesOfCache
  <2>2. c.images[t] \in [texture : Nat, used : Nat] /\ c.stamp \in Nat
    BY <1>1, <1>2, <2>1 DEF TileCaches
  <2>3. used \in [texture : Nat, used : Nat] /\ used.texture = c.images[t].texture
    BY <2>2
  <2>4. q = [c EXCEPT !.images = I]
    BY <1>1, <1>2 DEF upload_image_tile, TileCaches
  <2> HIDE DEF used
  <2>5. I \in [DOMAIN c.images -> [texture : Nat, used : Nat]] /\ DOMAIN I = DOMAIN c.images
    BY <2>1, <2>3
  <2>6. \A u \in DOMAIN c.images : I[u].texture = c.images[u].texture
    BY <2>1, <2>3
  <2> HIDE DEF I
  <2>7. I \in ImageTables
    BY <2>1, <2>5 DEF ImageTables
  <2>8. /\ q \in TileCaches /\ q.images = I /\ q.textures = c.textures
        /\ q.bytes = c.bytes
    BY <1>1, <2>4, <2>7 DEF TileCaches
  <2>9. Textures(I) = Textures(c.images)
    BY <2>5, <2>6 DEF Textures
  <2>10. Sound(q)
    BY <1>1, <2>5, <2>6, <2>8, <2>9 DEF Sound
  <2> QED BY <2>8, <2>10 DEF SoundCaches
<1>3. CASE t \notin DOMAIN c.images /\ (t \notin resolved \/ TileBytes[t] > MaximumImageTextureBytes)
  BY <1>3 DEF upload_image_tile
<1>4. CASE /\ t \notin DOMAIN c.images
           /\ ~(t \notin resolved \/ TileBytes[t] > MaximumImageTextureBytes)
  <2>1. PICK e \in MakeRoom(c, t) : q = AddTexture(e, t)
    BY <1>4 DEF upload_image_tile
  <2>2. TileBytes[t] <= MaximumImageTextureBytes
    BY <1>4, RendererAssumption
  <2>3. e \in Smaller(c) /\ e.bytes + TileBytes[t] <= MaximumImageTextureBytes
    BY <2>2, RoomIsMade
  <2>4. e \in SoundCaches /\ t \notin DOMAIN e.images
    BY <1>4, <2>3 DEF Smaller
  <2> QED BY <2>1, <2>3, <2>4, AddKeepsSound
<1> QED BY <1>2, <1>3, <1>4

(***************************************************************************)
(* Loading the tiles of a scene, one after the other.                      *)
(***************************************************************************)
SoundEmissions == [cache : SoundCaches, batches : Seq([tile : Tiles, texture : Nat])]

Loaded(E, t, resolved) == UNION {EmitTile(e, t, resolved) : e \in E}

LEMMA LoadedIsSound ==
  ASSUME NEW E \in SUBSET SoundEmissions, NEW t \in Tiles, NEW resolved
  PROVE  Loaded(E, t, resolved) \in SUBSET SoundEmissions
<1> SUFFICES ASSUME NEW e \in E, NEW c \in upload_image_tile(e.cache, t, resolved)
             PROVE  Emitted(e, c, t) \in SoundEmissions
  BY DEF Loaded, EmitTile
<1>1. e.cache \in SoundCaches /\ e.batches \in Seq([tile : Tiles, texture : Nat])
  BY DEF SoundEmissions
<1>2. c \in SoundCaches
  BY <1>1, UploadKeepsSound
<1> DEFINE batch == [tile |-> t, texture |-> c.images[t].texture]
<1>3. ASSUME t \in DOMAIN c.images PROVE batch \in [tile : Tiles, texture : Nat]
  <2>1. c.images \in [DOMAIN c.images -> [texture : Nat, used : Nat]]
    BY <1>2, TablesOfCache DEF SoundCaches
  <2>2. c.images[t] \in [texture : Nat, used : Nat]
    BY <1>3, <2>1
  <2> QED BY <2>2
<1> HIDE DEF batch
<1>4. /\ t \in DOMAIN c.images => Append(e.batches, batch) \in Seq([tile : Tiles, texture : Nat])
  BY <1>1, <1>3
<1> QED BY <1>1, <1>2, <1>4 DEF Emitted, SoundEmissions, batch

LEMMA EmitKeepsSound ==
  ASSUME NEW c \in SoundCaches, NEW s \in PreparedScenes, NEW resolved,
         NEW e \in EmitImages(c, s, resolved)
  PROVE  e.cache \in SoundCaches
<1> DEFINE S == SUBSET SoundEmissions
           n == Len(SceneTiles[s])
           first == {[cache |-> c, batches |-> <<>>]}
           step == [i \in 1 .. n |-> [E \in S |-> Loaded(E, SceneTiles[s][i], resolved)]]
           body(f) == [i \in 0 .. n |->
                         IF i = 0 THEN first
                         ELSE UNION {EmitTile(d, SceneTiles[s][i], resolved) : d \in f[i - 1]}]
<1>1. n \in Nat /\ \A i \in 1 .. n : SceneTiles[s][i] \in Tiles
  BY RendererAssumption
<1>2. \A E \in S, i \in 1 .. n : Loaded(E, SceneTiles[s][i], resolved) \in S
  BY <1>1, LoadedIsSound
<1>3. first \in S
  BY DEF SoundEmissions
<1> HIDE DEF S, first, n
<1>4. step \in Steps(S, n)
  BY <1>2 DEF Steps
<1>5. PICK f : IsLoop(f, S, first, n, step)
  <2> HIDE DEF step
  <2> QED BY <1>1, <1>3, <1>4, LoopsEnd
<1>6. \A i \in 1 .. n : f[i - 1] \in S /\ f[i] = Loaded(f[i - 1], SceneTiles[s][i], resolved)
  <2> SUFFICES ASSUME NEW i \in 1 .. n
               PROVE  f[i - 1] \in S /\ f[i] = Loaded(f[i - 1], SceneTiles[s][i], resolved)
    OBVIOUS
  <2>1. f[i - 1] \in S
    BY <1>1, <1>5 DEF IsLoop
  <2> QED BY <2>1, <1>5 DEF IsLoop
<1>7. f = body(f)
  <2>1. \A i \in 0 .. n : i # 0 => i \in 1 .. n
    BY <1>1
  <2> QED BY <2>1, <1>5, <1>6 DEF IsLoop, Loaded
<1> DEFINE g == CHOOSE g : g = body(g)
<1>8. Emissions(c, s, resolved) = g
  BY DEF Emissions, first, n
<1>9. g = body(g)
  BY <1>7
<1> HIDE DEF g
<1>10. g[0] = first /\ \A i \in 1 .. n : g[i] = Loaded(g[i - 1], SceneTiles[s][i], resolved)
  <2>1. 0 \in 0 .. n /\ \A i \in 1 .. n : i \in 0 .. n /\ i # 0
    BY <1>1
  <2>2. \A i \in 0 .. n : g[i] = IF i = 0 THEN first
                                 ELSE Loaded(g[i - 1], SceneTiles[s][i], resolved)
    BY <1>9, Zenon DEF Loaded
  <2> QED BY <2>1, <2>2
<1> DEFINE G == {i \in 0 .. n : g[i] \in S}
<1>11. 0 \in G
  BY <1>1, <1>3, <1>10
<1>12. \A i \in 1 .. n : i - 1 \in G => i \in G
  BY <1>2, <1>10
<1>13. g[n] \in S
  <2> HIDE DEF G
  <2>1. 0 .. n \subseteq G
    BY <1>1, <1>11, <1>12, UpTo
  <2>2. n \in G
    BY <1>1, <2>1
  <2> QED BY <2>2 DEF G
<1>14. e \in g[n]
  BY <1>8 DEF EmitImages, n
<1> QED BY <1>13, <1>14 DEF S, SoundEmissions

-----------------------------------------------------------------------------
(***************************************************************************)
(* The renderer keeps its tiles in such a cache, whatever it uploads.      *)
(***************************************************************************)
HasSoundTiles(r) ==
  /\ IsRenderer(r) /\ r.tiles \in SoundCaches
  /\ r.upload_pending => r.pending.scene \in PreparedScenes

UploadCalls ==
  {"drop", "allocate", "chunk", "retire", "primitives", "pattern", "glyph", "publish"}

LEMMA ChunkIsBuffer ==
  ASSUME NEW B, NEW C, NEW r \in Renderers(B, C), r.pending.scene \in PreparedScenes
  PROVE  WithChunk(r) \in Seq(ScenesOrNothing) /\ ClearedBuffer(r) \in Seq(ScenesOrNothing)
<1> DEFINE s == r.pending.scene
           d == r.data[Staging(r)]
<1>1. d \in Seq(ScenesOrNothing)
  BY DEF Renderers, Buffers, Staging
<1>2. Edges[s] \in Nat
  BY Budgets
<1>3. ClearedBuffer(r) \in Seq(ScenesOrNothing)
  BY <1>2 DEF ClearedBuffer, ScenesOrNothing
<1>4. WithChunk(r) = [e \in DOMAIN d |-> IF e \in InChunk(s, r.pending.next) THEN s ELSE d[e]]
  BY DEF WithChunk
<1> HIDE DEF d, s
<1>5. DOMAIN d = 1 .. Len(d) /\ Len(d) \in Nat /\ \A e \in 1 .. Len(d) : d[e] \in ScenesOrNothing
  BY <1>1
<1>6. s \in ScenesOrNothing
  BY DEF s, ScenesOrNothing
<1> QED BY <1>3, <1>4, <1>5, <1>6

LEMMA SoundRenderer ==
  ASSUME NEW r, HasSoundTiles(r)
  PROVE  \E B : r \in Renderers(B, SoundCaches)
<1>1. PICK B, C : r \in Renderers(B, C)
  BY DEF HasSoundTiles, IsRenderer
<1>2. r \in Renderers(B, SoundCaches)
  BY <1>1 DEF HasSoundTiles, Renderers
<1> QED BY <1>2

LEMMA CallsKeepTiles ==
  ASSUME NEW r, HasSoundTiles(r), NEW call \in UploadCalls, NEW q \in Issue(r, call)
  PROVE  HasSoundTiles(q)
<1>1. PICK B : r \in Renderers(B, SoundCaches)
  BY SoundRenderer
<1>2. CASE ~r.upload_pending
  BY <1>2, Over
<1>3. CASE r.upload_pending
  <2>1. r.pending.scene \in PreparedScenes /\ Edges[r.pending.scene] \in Nat
    BY <1>3, Budgets DEF HasSoundTiles
  <2>2. WithChunk(r) \in Seq(ScenesOrNothing) /\ ClearedBuffer(r) \in Seq(ScenesOrNothing)
    BY <1>1, <2>1, ChunkIsBuffer
  <2>3. CASE q = BrokenOff(r, call)
    <3>1. q \in Renderers(B, SoundCaches) /\ ~q.upload_pending
      BY <1>1, <2>3, BrokenFields
    <3> QED BY <3>1 DEF HasSoundTiles, IsRenderer, Renderers
  <2>4. CASE q = Publish(r)
    <3>1. IsRenderer(q) /\ ~q.upload_pending /\ q.tiles = r.tiles
      BY <1>1, <2>4, PublishFields
    <3> QED BY <3>1 DEF HasSoundTiles
  <2>5. ASSUME q \in Renderers(B, SoundCaches), q.pending.scene = r.pending.scene
        PROVE  HasSoundTiles(q)
    <3>1. IsRenderer(q)
      BY <2>5 DEF IsRenderer
    <3>2. q.tiles \in SoundCaches
      BY <2>5 DEF Renderers
    <3> QED BY <2>1, <2>5, <3>1, <3>2 DEF HasSoundTiles
  <2>6. CASE q = DropActive(r)
    BY <1>1, <2>5, <2>6, DropFields
  <2>7. CASE q = AllocateStaging(r)
    BY <1>1, <2>2, <2>5, <2>7, AllocateFields DEF SameGoal
  <2>8. CASE q = UploadChunk(r)
    BY <1>1, <2>2, <2>5, <2>8, ChunkFields DEF SameGoal
  <2>9. CASE q = SwapBuffers(r)
    BY <1>1, <2>1, <2>5, <2>9, SwapFields
  <2>10. CASE q = WithPrimitives(r)
    BY <1>1, <2>5, <2>10, PrimitivesFields
  <2>11. CASE q = WithPattern(r)
    BY <1>1, <2>5, <2>11, PatternFields
  <2>12. CASE q = UploadGlyph(r)
    <3>1. q \in Renderers(B, SoundCaches) /\ q.pending = r.pending
      BY <1>1, <2>12, GlyphFields
    <3> QED BY <2>5, <3>1
  <2>13. q = r \/ q = Effect(r, call) \/ q = BrokenOff(r, call)
    BY <1>3, IssueCases
  <2> QED BY <2>3, <2>4, <2>6, <2>7, <2>8, <2>9, <2>10, <2>11, <2>12, <2>13, Effects
          DEF UploadCalls
<1> QED BY <1>2, <1>3

LEMMA UploadKeepsTiles ==
  ASSUME NEW r, HasSoundTiles(r), NEW q \in upload_next(r)
  PROVE  HasSoundTiles(q)
<1> DEFINE Kept(R) == \A p \in R : HasSoundTiles(p)
<1>1. ASSUME NEW R, Kept(R), NEW call \in UploadCalls
      PROVE  Kept(Then(R, call))
  BY <1>1, OneBefore, CallsKeepTiles
<1> DEFINE dropped == Then({r}, "drop")
           allocated == Then(dropped, "allocate")
           staged == Then(allocated, "chunk")
           retired == Then(staged, "retire")
           drawn == Then(retired, "primitives")
           patterned == Then(drawn, "pattern")
           glyphed == Then(patterned, "glyph")
<1>2. q \in Then(glyphed, "publish")
  BY DEF upload_next, Staged
<1>3. Kept({r})
  OBVIOUS
<1> HIDE DEF Kept
<1> USE DEF UploadCalls
<1>4. Kept(dropped)
  BY <1>1, <1>3
<1>5. Kept(allocated)
  BY <1>1, <1>4
<1>6. Kept(staged)
  BY <1>1, <1>5
<1>7. Kept(retired)
  BY <1>1, <1>6
<1>8. Kept(drawn)
  BY <1>1, <1>7
<1>9. Kept(patterned)
  BY <1>1, <1>8
<1>10. Kept(glyphed)
  BY <1>1, <1>9
<1>11. Kept(Then(glyphed, "publish"))
  BY <1>1, <1>10
<1> QED BY <1>2, <1>11 DEF Kept

LEMMA QueueKeepsTiles ==
  ASSUME NEW r, HasSoundTiles(r), NEW s \in PreparedScenes,
         NEW resolved, NEW q \in queue_upload(r, s, resolved)
  PROVE  HasSoundTiles(q)
<1>1. PICK B : r \in Renderers(B, SoundCaches)
  BY SoundRenderer
<1>2. PICK e \in EmitImages(r.tiles, s, resolved) : q = WithTiles(r, s, e.cache, e.batches)
  BY DEF queue_upload, WithTiles
<1>3. r.tiles \in SoundCaches
  BY <1>1 DEF Renderers
<1>4. e.cache \in SoundCaches
  BY <1>2, <1>3, EmitKeepsSound
<1>5. IsRenderer(q) /\ q.tiles = e.cache /\ q.pending.scene = s
  BY <1>1, <1>2, QueuedFields
<1> QED BY <1>4, <1>5 DEF HasSoundTiles

LEMMA AdvanceKeepsTiles ==
  ASSUME NEW r, HasSoundTiles(r)
  PROVE  HasSoundTiles(Advance(r))
<1>1. PICK B : r \in Renderers(B, SoundCaches)
  BY SoundRenderer
<1> DEFINE n == r.tiles.stamp + 1
           later == [r.tiles EXCEPT !.stamp = n]
           q == [r EXCEPT !.tiles = later]
<1>2. r.tiles \in TileCaches /\ Sound(r.tiles)
  BY <1>1 DEF Renderers, SoundCaches
<1>3. n \in Nat
  BY <1>2 DEF TileCaches
<1>4. Advance(r) = r \/ Advance(r) = q
  BY DEF Advance
<1> HIDE DEF n
<1>5. /\ later \in TileCaches
      /\ later.textures = r.tiles.textures /\ later.images = r.tiles.images
      /\ later.bytes = r.tiles.bytes
  BY <1>2, <1>3 DEF TileCaches
<1> HIDE DEF later
<1>6. later \in SoundCaches
  BY <1>2, <1>5 DEF SoundCaches, Sound
<1>7. /\ q \in Renderers(B, SoundCaches)
      /\ q.upload_pending = r.upload_pending /\ q.pending = r.pending
  BY <1>1, <1>6 DEF Renderers
<1> HIDE DEF q
<1>8. IsRenderer(q) /\ q.tiles \in SoundCaches
  BY <1>7 DEF IsRenderer, Renderers
<1>9. HasSoundTiles(q)
  BY <1>7, <1>8 DEF HasSoundTiles
<1> QED BY <1>4, <1>9

TilesInv == scene \in ScenesOrNothing /\ HasSoundTiles(gl)

LEMMA EmptyHasSoundTiles == HasSoundTiles(Abandoned) /\ HasSoundTiles(initialize)
<1>1. Abandoned.tiles = NoTiles /\ initialize.tiles = NoTiles
  BY DEF Abandoned, initialize
<1>2. IsRenderer(Abandoned) /\ IsRenderer(initialize)
  BY EmptyRenderer DEF RendererInv, Sized
<1> QED BY <1>1, <1>2, EmptyRenderer, NoTilesAreSound DEF HasSoundTiles

LEMMA AdvancesKeepTiles ==
  ASSUME NEW r, NEW awaited, HasSoundTiles(r), Advances(r, awaited)
  PROVE  HasSoundTiles(gl')
<1>1. CASE awaited = Nothing
  BY <1>1, AdvanceKeepsTiles DEF Advances
<1>2. CASE awaited # Nothing
  <2>1. PICK q \in upload_next(r) : gl' = q \/ gl' = Advance(q)
    BY <1>2 DEF Advances, Draws
  <2> QED BY <2>1, UploadKeepsTiles, AdvanceKeepsTiles
<1> QED BY <1>1, <1>2

LEMMA NextKeepsTiles ==
  ASSUME TilesInv, [ViewNext]_view_vars
  PROVE  TilesInv'
<1>1. ASSUME scene' \in ScenesOrNothing, gl' \in {gl, Abandoned, initialize}
      PROVE  TilesInv'
  BY <1>1, EmptyHasSoundTiles DEF TilesInv
<1>2. CASE InitializeGL
  BY <1>1, <1>2 DEF InitializeGL, view, TilesInv
<1>3. CASE cleanup_context
  BY <1>1, <1>3 DEF cleanup_context, TilesInv
<1>4. CASE handle_session_event
  BY <1>1, <1>4 DEF handle_session_event, ScenesOrNothing
<1>5. CASE set_document_id
  BY <1>1, <1>5 DEF set_document_id, ScenesOrNothing
<1>6. CASE set_image_tile_resolver
  BY <1>1, <1>6 DEF set_image_tile_resolver, view, TilesInv
<1>7. CASE update_pointer
  BY <1>1, <1>7 DEF update_pointer, view, TilesInv
<1>8. CASE Timeout
  BY <1>1, <1>8 DEF Timeout, view, TilesInv
<1>9. CASE paintGL
  <2>1. scene' = scene
    BY <1>9 DEF paintGL
  <2>2. CASE UNCHANGED gl
    BY <1>1, <2>1, <2>2 DEF TilesInv
  <2>3. CASE NeedsUpload /\ \E r \in queue_upload(gl, scene, resolver') : Advances(r, scene)
    <3>1. PICK r \in queue_upload(gl, scene, resolver') : Advances(r, scene)
      BY <2>3
    <3>2. scene \in PreparedScenes
      BY <2>3 DEF NeedsUpload, TilesInv, ScenesOrNothing
    <3>3. HasSoundTiles(r)
      BY <3>1, <3>2, QueueKeepsTiles DEF TilesInv
    <3> QED BY <2>1, <3>1, <3>3, AdvancesKeepTiles DEF TilesInv
  <2>4. CASE Advances(gl, queued_scene)
    BY <2>1, <2>4, AdvancesKeepTiles DEF TilesInv
  <2> QED BY <1>9, <2>2, <2>3, <2>4 DEF paintGL
<1>10. CASE UNCHANGED view_vars
  BY <1>1, <1>10 DEF view_vars, TilesInv
<1> QED BY <1>2, <1>3, <1>4, <1>5, <1>6, <1>7, <1>8, <1>9, <1>10 DEF ViewNext

\* Every texture of an image tile belongs to the cache and holds its tile, the bytes
\* counted are theirs and fit the budget, whatever calls fail and contexts are lost.
THEOREM TilesFit == ViewSpec => []TileMemoryWithinBudget
<1>1. ViewInit => TilesInv
  BY EmptyHasSoundTiles DEF ViewInit, TilesInv, ScenesOrNothing
<1>2. TilesInv => TileMemoryWithinBudget
  <2> SUFFICES ASSUME TilesInv PROVE TileMemoryWithinBudget
    OBVIOUS
  <2>1. gl.tiles \in SoundCaches
    BY DEF TilesInv, HasSoundTiles, Renderers
  <2>2. Sound(gl.tiles)
    BY <2>1 DEF SoundCaches
  <2> QED BY <2>2 DEF Sound, Textures, TileMemoryWithinBudget
<1> QED BY <1>1, <1>2, NextKeepsTiles, PTL DEF ViewSpec
=============================================================================
