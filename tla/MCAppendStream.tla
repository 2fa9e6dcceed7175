--------------------------- MODULE MCAppendStream ---------------------------
(***************************************************************************)
(* Instances of AppendStream.  Two curves, on axes of their own or on one  *)
(* axis.  The batches: one tail, two tails of one curve in order and out   *)
(* of order, a tail of each curve, and a tail that is not sound.  Three    *)
(* revisions and three or four commands are enough for a first flush, a    *)
(* staged batch and a second one merged with it or a replacement between.  *)
(***************************************************************************)
EXTENDS AppendStream_proofs

CONSTANTS c1, c2, a1, a2

TwoCurves == {c1, c2}
OwnAxes == [c \in TwoCurves |-> IF c = c1 THEN a1 ELSE a2]
SharedAxis == [c \in TwoCurves |-> a1]
TwoDepths == {1, 2}

Tail1(c, d) == [curve |-> c, first |-> d, last |-> d, sound |-> TRUE]
Bad == [curve |-> c1, first |-> 2, last |-> 2, sound |-> FALSE]

Shallow == <<Tail1(c1, 1)>>
TwoTails == <<Tail1(c1, 1), Tail1(c1, 2)>>
Swapped == <<Tail1(c1, 2), Tail1(c1, 1)>>
Both == <<Tail1(c1, 2), Tail1(c2, 2)>>

AllBatches == {Shallow, TwoTails, Swapped, Both, <<Bad>>}
GoodAndBad == {Shallow, <<Bad>>}
OnlyShallow == {Shallow}
ShallowAndBoth == {Shallow, Both}

ZeroAndTenHertz == {0, 10}
=============================================================================
