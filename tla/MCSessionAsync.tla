--------------------------- MODULE MCSessionAsync ---------------------------
(***************************************************************************)
(* Instances of SessionAsync: one document id with small and large         *)
(* documents, two ids that share the pool, and a smaller one for liveness. *)
(* Two workers throughout, as in the code; generations 1 and 2 of each     *)
(* kind are enough for a current task, a superseded one, and an exhausted  *)
(* counter.  No text engine: SessionTeardown covers its mutex.  The        *)
(* inductive invariant of the proofs is checked along with the rest.       *)
(***************************************************************************)
EXTENDS SessionAsync, TLC

CONSTANTS w1, w2, small, big, big2, i1, p1, p2, v1, full, d1, d2

MCWorkers == {w1, w2}
OneDocument == {d1}
TwoDocuments == {d1, d2}
SmallAndLarge == {small, big, big2}
TwoLarge == {big, big2}
OneLarge == {big}
OneOfEach == {small, big}
OneInterpretation == {i1}
NothingMasked == [i \in {i1} |-> i]
OnePresentation == {p1}
TwoPresentations == {p1, p2}
TwoViewports == {full, v1}
OneViewport == {full}
TwoRevisions == {1, 2}

WorkersAndCurves == Permutations(MCWorkers) \cup Permutations(TwoLarge)
WorkersAndDocuments == Permutations(MCWorkers) \cup Permutations(TwoDocuments)
=============================================================================
