---------------------------- MODULE UndoTimeline ----------------------------
(***************************************************************************)
(* What a WellLogSession promises whoever edits a document: a timeline.    *)
(* The present document lies between the documents undo leads back to and  *)
(* those redo leads forward to.  An edit moves the present to the past,    *)
(* makes a later revision and forgets the future; undo and redo move along *)
(* the timeline one document at a time; nothing else touches it, commands  *)
(* that fail included.  A host that loads another document over a timeline *)
(* breaks it; from then on nothing is promised.                            *)
(***************************************************************************)
EXTENDS Naturals, Sequences

CONSTANTS Documents, None

VARIABLES
  past,      \* the documents undo leads back to, the nearest last
  present,
  future,    \* the documents redo leads forward to, the nearest last
  intact

vars == <<past, present, future, intact>>

Init ==
  /\ past = <<>>
  /\ present = None
  /\ future = <<>>
  /\ intact = TRUE

Load(doc) ==
  /\ past = <<>>
  /\ future = <<>>
  /\ present' = doc
  /\ UNCHANGED <<past, future, intact>>

Edit(doc) ==
  /\ present # None
  /\ doc.revision > present.revision
  /\ past' = Append(past, present)
  /\ present' = doc
  /\ future' = <<>>
  /\ UNCHANGED intact

Undo ==
  /\ past # <<>>
  /\ present' = past[Len(past)]
  /\ past' = SubSeq(past, 1, Len(past) - 1)
  /\ future' = Append(future, present)
  /\ UNCHANGED intact

Redo ==
  /\ future # <<>>
  /\ present' = future[Len(future)]
  /\ future' = SubSeq(future, 1, Len(future) - 1)
  /\ past' = Append(past, present)
  /\ UNCHANGED intact

Broken == ~intact' 

Next ==
  \/ \E doc \in Documents : Load(doc) \/ Edit(doc)
  \/ Undo
  \/ Redo
  \/ Broken

Spec == Init /\ [][Next]_vars
=============================================================================
