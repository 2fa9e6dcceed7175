---------------------------- MODULE FrameDelivery ---------------------------
(***************************************************************************)
(* What a WellLogSession promises whoever draws its documents: the scene   *)
(* shown for a document is a scene of the document as it is now.  It is    *)
(* taken away when the document is replaced; it is replaced by a scene of  *)
(* the current document and the current presentation and by nothing else,  *)
(* however many preparations of older documents and presentations are      *)
(* still under way.  SessionAsync implements this with tasks, generations  *)
(* and polling.                                                            *)
(***************************************************************************)
CONSTANTS
  DocumentIds, Documents, Presentations, Viewports,
  None,
  FullRange,          \* the window a presentation starts with
  PyramidsOf(_)       \* the LOD a document is drawn with, None when drawn directly

VARIABLES document, presentation, viewport, shown

vars == <<document, presentation, viewport, shown>>

Scene(doc, p, v) ==
  [document |-> doc, presentation |-> p, pyramids |-> PyramidsOf(doc), viewport |-> v]

Init ==
  /\ document = [d \in DocumentIds |-> None]
  /\ presentation = [d \in DocumentIds |-> None]
  /\ viewport = [d \in DocumentIds |-> None]
  /\ shown = [d \in DocumentIds |-> None]

(***************************************************************************)
(* A scene that comes with a command is prepared for the full range.       *)
(***************************************************************************)
Replace(d, doc, p, v) ==
  /\ document' = [document EXCEPT ![d] = doc]
  /\ presentation' = [presentation EXCEPT ![d] = p]
  /\ viewport' = [viewport EXCEPT ![d] = v]
  /\ \/ shown' = [shown EXCEPT ![d] = None]
     \/ p # None /\ shown' = [shown EXCEPT ![d] = Scene(doc, p, FullRange)]

Configure(d, p, v) ==
  /\ document[d] # None
  /\ presentation' = [presentation EXCEPT ![d] = p]
  /\ viewport' = [viewport EXCEPT ![d] = v]
  /\ \/ UNCHANGED shown
     \/ p # None /\ shown' = [shown EXCEPT ![d] = Scene(document[d], p, FullRange)]
  /\ UNCHANGED document

(***************************************************************************)
(* A background frame arrives.  Its window is the document's window, or    *)
(* the full range when a patch put the window back after asking for it.    *)
(***************************************************************************)
Deliver(d) ==
  /\ document[d] # None
  /\ presentation[d] # None
  /\ \E v \in {viewport[d], FullRange} :
       shown' = [shown EXCEPT ![d] = Scene(document[d], presentation[d], v)]
  /\ UNCHANGED <<document, presentation, viewport>>

Next ==
  \E d \in DocumentIds :
    \/ \E doc \in Documents, p \in Presentations \cup {None},
          v \in Viewports \cup {None} : Replace(d, doc, p, v)
    \/ \E p \in Presentations \cup {None}, v \in Viewports \cup {None} :
         Configure(d, p, v)
    \/ Deliver(d)

Spec == Init /\ [][Next]_vars
=============================================================================
