--------------------------- MODULE TableSelection ---------------------------
(***************************************************************************)
(* Table models over one document of a session (TableModel): each shows    *)
(* the rows of one sampling axis, mirrors the session's selection as a     *)
(* span of rows, drives it from its own rows, and copies rows to the       *)
(* clipboard.  The session tells a model of a selection event by a call    *)
(* queued on the model's thread.  A document is a function from the ids of *)
(* its axes to the axes, each with a declared direction and coordinates    *)
(* that validate_document has found in that order, repeats allowed.  Rows  *)
(* count from 0 and a span [first, last) excludes its end.                 *)
(***************************************************************************)
EXTENDS Integers, Sequences, FiniteSets, FiniteSetsExt

CONSTANTS Models,      \* the table models, all on the GUI thread
          Contents,    \* what the document may be set to hold
          Ranges,      \* depth ranges the session accepts for a selection
          MaxRow,      \* bound on the rows a model is asked to select
          CellLimit,   \* cells a clipboard may hold, 250 000 in the code
          MaxChanges,  \* bound on the commands given to the session
          Absent

SamplingAxes == [increasing : BOOLEAN, coordinates : Seq(Int)]
DepthRanges == [top : Int, bottom : Int]

axis_is_ordered(axis) ==
  /\ axis.coordinates # <<>>
  /\ \A i, j \in DOMAIN axis.coordinates :
       i < j => IF axis.increasing THEN axis.coordinates[i] <= axis.coordinates[j]
                                   ELSE axis.coordinates[i] >= axis.coordinates[j]

valid_selection_range(range) == range.top <= range.bottom

AxesOf == UNION {DOMAIN d : d \in Contents}

ASSUME TableAssumption ==
  /\ \A doc \in Contents : \A axis \in DOMAIN doc :
       doc[axis] \in SamplingAxes /\ axis_is_ordered(doc[axis])
  /\ Ranges \subseteq DepthRanges /\ \A range \in Ranges : valid_selection_range(range)
  /\ MaxRow \in Nat /\ CellLimit \in Nat /\ MaxChanges \in Nat

VARIABLES document,   \* the session's document
          revision,   \* its revision
          selection,  \* the session's selection, or Absent
          models,     \* per model: its projection, its source and its mirror
          queued,     \* per model: refreshes posted to its thread
          shown,      \* per model: the rows a connected view draws as selected
          clipboard,  \* what was copied last, or Absent
          changes     \* commands given so far

vars == <<document, revision, selection, models, queued, shown, clipboard, changes>>

RowsOf(depths) == 0..(Len(depths) - 1)
Depth(depths, row) == depths[row + 1]
Span(first, last) == [first |-> first, last |-> last]
SpanRows(s, depths) == {r \in RowsOf(depths) : s.first <= r /\ r < s.last}

TypeOK ==
  /\ document \in Contents /\ revision \in Nat /\ changes \in 0..MaxChanges
  /\ selection # Absent =>
       /\ selection.axis \in AxesOf /\ selection.valid \in BOOLEAN
       /\ selection.span.first <= selection.span.last
  /\ \A m \in Models : models[m].source \in AxesOf \cup {Absent} /\ queued[m] \in Nat

-----------------------------------------------------------------------------
(* Rows and depths (session.cpp). *)

\* first_row_at_depth and last_row_after_depth: the first row that has reached
\* a set of depths.
FirstRow(depths, reached) ==
  LET rows == {r \in RowsOf(depths) : Depth(depths, r) \in reached}
  IN  IF rows = {} THEN Len(depths) ELSE Min(rows)

\* A plausible slip.
rows_for_range_rising(axis, range) ==
  LET depths == axis.coordinates
      first  == FirstRow(depths, {d \in Int : d >= range.top})
      last   == FirstRow(depths, {d \in Int : d > range.bottom})
  IN  Span(first, IF last < first THEN first ELSE last)

rows_for_range(axis, range) ==
  LET depths == axis.coordinates
      first  == FirstRow(depths, {d \in Int : IF axis.increasing THEN d >= range.top
                                                                ELSE d <= range.bottom})
      last   == FirstRow(depths, {d \in Int : IF axis.increasing THEN d > range.bottom
                                                                ELSE d < range.top})
  IN  Span(first, IF last < first THEN first ELSE last)

range_for_rows(depths, first, last) ==
  LET End  == Len(depths) - 1
      ends == {Depth(depths, IF first > End THEN End ELSE first),
               Depth(depths, IF last = 0 THEN 0 ELSE IF last > Len(depths) THEN End ELSE last - 1)}
  IN  IF depths = <<>> THEN [top |-> 0, bottom |-> 0] ELSE [top |-> Min(ends), bottom |-> Max(ends)]

-----------------------------------------------------------------------------
(* The session's commands.  Each change of the selection posts a refresh   *)
(* to every model attached to it.                                          *)

Notify == queued' = [m \in Models |-> IF models[m].source = Absent THEN queued[m] ELSE queued[m] + 1]
Counted == changes < MaxChanges /\ changes' = changes + 1

\* apply_selection; a range set by rows is resolved to depths and back.
Select(axis, range) ==
  selection' = [axis |-> axis, range |-> range, valid |-> TRUE,
                span |-> rows_for_range(document[axis], range)]

SetSelection(axis, range) ==
  /\ Counted /\ axis \in DOMAIN document
  /\ Select(axis, range) /\ Notify
  /\ UNCHANGED <<document, revision, models, shown, clipboard>>

ClearSelection ==
  /\ Counted /\ selection # Absent
  /\ selection' = Absent /\ Notify
  /\ UNCHANGED <<document, revision, models, shown, clipboard>>

\* TableModel::set_row_selection.
set_row_selection(m, first, last) ==
  LET source == models[m].source
  IN  /\ Counted /\ source # Absent /\ source \in DOMAIN document /\ first <= last
      /\ Select(source, range_for_rows(document[source].coordinates, first, last)) /\ Notify
      /\ UNCHANGED <<document, revision, models, shown, clipboard>>

\* A plausible slip.
RemappedInPlace(sel, doc) ==
  IF sel = Absent THEN Absent ELSE [sel EXCEPT !.valid = sel.axis \in DOMAIN doc]

\* A replaced document keeps a selection its axis still holds, on new rows.
Remapped(sel, doc) ==
  IF sel = Absent THEN Absent
  ELSE IF sel.axis \notin DOMAIN doc THEN [sel EXCEPT !.valid = FALSE]
  ELSE LET depths == doc[sel.axis].coordinates
           span   == rows_for_range(doc[sel.axis], sel.range)
           extent == range_for_rows(depths, 0, Len(depths))
       IN  IF span.last > span.first /\ sel.range.top >= extent.top
                                     /\ sel.range.bottom <= extent.bottom
           THEN [sel EXCEPT !.span = span, !.valid = TRUE]
           ELSE [sel EXCEPT !.valid = FALSE]

SetDocument(doc) ==
  /\ Counted
  /\ document' = doc /\ revision' = revision + 1
  /\ selection' = Remapped(selection, doc)
  /\ IF selection = Absent THEN UNCHANGED queued ELSE Notify
  /\ UNCHANGED <<models, shown, clipboard>>

-----------------------------------------------------------------------------
(* The models. *)

\* `left` is history: the rows that a mirror dropped by an attachment has left
\* drawn and that no dataChanged has covered since.
Cleared == [rows |-> <<>>, revision |-> 0, source |-> Absent, mirror |-> Absent,
            heard |-> FALSE, left |-> {}]

\* set_projection resets the model, so its views fetch and draw anew.
set_projection(m, axis) ==
  /\ axis \in DOMAIN document
  /\ models[m].revision # revision
  /\ models' = [models EXCEPT ![m] = [Cleared EXCEPT !.rows = document[axis].coordinates,
                                                !.revision = revision]]
  /\ shown' = [shown EXCEPT ![m] = {}]
  /\ UNCHANGED <<document, revision, selection, queued, clipboard, changes>>

MirroredRows(model) == IF model.mirror = Absent THEN {} ELSE SpanRows(model.mirror, model.rows)

\* set_session_selection_source, also to the axis the model is attached to; the
\* old mirror is dropped without a word to the views.
set_session_selection_source(m, axis) ==
  /\ axis # Absent => axis \in DOMAIN document /\ models[m].rows = document[axis].coordinates
  /\ models' = [models EXCEPT ![m].source = axis, ![m].mirror = Absent, ![m].heard = FALSE,
                              ![m].left = @ \cup MirroredRows(models[m])]
  /\ UNCHANGED <<document, revision, selection, queued, shown, clipboard, changes>>

\* The span of the session's selection a model on its source's axis mirrors.
Reflected(source) ==
  IF selection # Absent /\ selection.valid /\ selection.axis = source THEN selection.span ELSE Absent

\* A plausible slip.
ChangedRowsOfTheNew(model, next) == IF next = Absent THEN {} ELSE SpanRows(next, model.rows)

\* The rows of dataChanged: the span left and the span taken, cut to the rows.
ChangedRows(model, next) ==
  MirroredRows(model) \cup (IF next = Absent THEN {} ELSE SpanRows(next, model.rows))

\* A plausible slip.
refresh_when_selected(m) ==
  /\ models[m].source # Absent
  /\ LET next == Reflected(models[m].source)
     IN  IF next = Absent
         THEN models' = [models EXCEPT ![m].heard = TRUE] /\ UNCHANGED shown
         ELSE /\ models' = [models EXCEPT ![m].mirror = next, ![m].heard = TRUE]
              /\ shown' = [shown EXCEPT ![m] = SpanRows(next, models[m].rows)]

refresh_session_selection(m) ==
  IF models[m].source = Absent
  THEN UNCHANGED <<models, shown>>
  ELSE LET next    == Reflected(models[m].source)
           changed == ChangedRows(models[m], next)
           taken   == IF next = Absent THEN {} ELSE SpanRows(next, models[m].rows)
       IN  /\ models' = [models EXCEPT ![m].mirror = next, ![m].heard = TRUE,
                                       ![m].left = @ \ changed]
           /\ shown' = [shown EXCEPT ![m] = (@ \ changed) \cup (changed \cap taken)]

RunQueued(m) ==
  /\ queued[m] > 0
  /\ queued' = [queued EXCEPT ![m] = @ - 1]
  /\ refresh_session_selection(m)
  /\ UNCHANGED <<document, revision, selection, clipboard, changes>>

\* The host forces a refresh after attaching.
HostRefresh(m) ==
  /\ models[m].source # Absent /\ ~models[m].heard
  /\ refresh_session_selection(m)
  /\ UNCHANGED <<document, revision, selection, queued, clipboard, changes>>

\* build_selection_clipboard of the mirrored rows; a table has a depth column
\* and one curve.
Columns == 2
\* A plausible slip.
CopiedRowsWithTheEnd(model) ==
  {r \in RowsOf(model.rows) : model.mirror.first <= r /\ r <= model.mirror.last}

CopiedRows(model) == SpanRows(model.mirror, model.rows)

\* Kept beside the copy: the selection it was taken under.
SelectedDepths ==
  IF selection = Absent \/ ~selection.valid THEN {}
  ELSE LET depths == document[selection.axis].coordinates
       IN  {d \in {Depth(depths, r) : r \in RowsOf(depths)} :
              selection.range.top <= d /\ d <= selection.range.bottom}

Copy(m) ==
  /\ models[m].mirror # Absent
  /\ LET rows == CopiedRows(models[m])
     IN  clipboard' = [of |-> m, large |-> Cardinality(rows) * Columns > CellLimit,
                       depths |-> IF Cardinality(rows) * Columns > CellLimit THEN {}
                                  ELSE {Depth(models[m].rows, r) : r \in rows},
                       agree |-> queued[m] = 0 /\ models[m].revision = revision,
                       selected |-> SelectedDepths]
  /\ UNCHANGED <<document, revision, selection, models, queued, shown, changes>>

-----------------------------------------------------------------------------
Init ==
  /\ document \in Contents /\ revision = 1
  /\ selection = Absent /\ clipboard = Absent /\ changes = 0
  /\ models = [m \in Models |-> Cleared]
  /\ queued = [m \in Models |-> 0]
  /\ shown = [m \in Models |-> {}]

Next ==
  \/ \E axis \in AxesOf, range \in Ranges : SetSelection(axis, range)
  \/ ClearSelection
  \/ \E doc \in Contents : SetDocument(doc)
  \/ \E m \in Models :
       \/ \E first, last \in 0..MaxRow : set_row_selection(m, first, last)
       \/ \E axis \in AxesOf : set_projection(m, axis)
       \/ \E axis \in AxesOf \cup {Absent} : set_session_selection_source(m, axis)
       \/ RunQueued(m)
       \/ HostRefresh(m)
       \/ Copy(m)

Spec == Init /\ [][Next]_vars

-----------------------------------------------------------------------------
(* Properties. *)

\* A model with no refresh under way mirrors the session's selection when that
\* selection is valid and on its axis, and none otherwise: it never keeps rows a
\* later command, on any axis, has taken back.
QuietModelsMirror ==
  \A m \in Models : models[m].heard /\ queued[m] = 0 =>
    models[m].mirror = Reflected(models[m].source)

\* A connected view draws every row the model mirrors as selected, and no other
\* but those left over from a mirror that the host dropped by attaching the model
\* again: these stay until a selection covers them, is taken from them or the
\* model is projected anew (set_session_selection_source tells no view).
ViewsShowTheMirror ==
  \A m \in Models :
    /\ MirroredRows(models[m]) \subseteq shown[m]
    /\ shown[m] \subseteq MirroredRows(models[m]) \cup models[m].left

\* The rows of a valid selection are the rows of the document in force that lie
\* in its depth range, on an axis that rises and on one that falls, also after
\* the document was replaced under the selection.
SelectionIsOfThisDocument ==
  selection # Absent /\ selection.valid =>
    LET depths == document[selection.axis].coordinates
    IN  SpanRows(selection.span, depths) =
          {r \in RowsOf(depths) : selection.range.top <= Depth(depths, r)
                                  /\ Depth(depths, r) <= selection.range.bottom}

\* A copy taken while table and session agree holds exactly the depths of the
\* selected range, or says that it is too large.
CopyHoldsTheSelection ==
  clipboard # Absent /\ clipboard.agree /\ ~clipboard.large =>
    clipboard.depths = clipboard.selected

(* A table follows the session's selection and the session the table's.    *)
TableFollowsSelection ==
  /\ QuietModelsMirror
  /\ ViewsShowTheMirror
  /\ SelectionIsOfThisDocument
  /\ CopyHoldsTheSelection

\* A span of no rows selects at most the row it names.
EmptySpanSelectsOneRow ==
  [][\A m \in Models, first \in 0..MaxRow :
       set_row_selection(m, first, first) =>
         selection'.span.last - selection'.span.first <= 1]_vars
=============================================================================
