-------------------------- MODULE MCDocumentHistory -------------------------
(***************************************************************************)
(* Instances of DocumentHistory: three revisions, so that a second change  *)
(* can follow an undo or a change; a history of at most two entries; small *)
(* documents that are prepared inline and may fail to, and large ones; an  *)
(* interpretation without QC masks and one with, i2.                       *)
(***************************************************************************)
EXTENDS DocumentHistory_proofs, TLC

CONSTANTS small, tall, big, i1, i2, p1, p2, full, high

SmallAndTall == {small, tall}
SmallAndBig == {small, big}
OnlyBig == {big}
TwoInterpretations == {i1, i2}
OneInterpretation == {i1}
SecondIsMasked == [i \in TwoInterpretations |-> i1]
NothingMasked == [i \in OneInterpretation |-> i]
OnePresentation == {p1}
TwoPresentations == {p1, p2}
OneViewport == {full}
OneRange == {high}
ThreeRevisions == {1, 2, 3}
TwoRevisions == {1, 2}

\* The small curves do not reach the depths that may be selected.
Reach == [c \in CurveSets |-> IF c = small THEN {} ELSE DepthRanges]
=============================================================================
