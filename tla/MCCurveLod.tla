---------------------------- MODULE MCCurveLod -----------------------------
(***************************************************************************)
(* Curves of four and of nine samples in runs of every length, on a rising *)
(* and on a falling axis with equal depths, with and without a bitmap of   *)
(* nulls; tails of one and two samples.                                    *)
(***************************************************************************)
EXTENDS Naturals, Sequences

CONSTANTS nan
VARIABLES curve, other, budget, task, staged, published, how, commands

Rising == [direction |-> "increasing", coordinates |-> <<1, 2, 2, 3, 4, 5, 6, 6, 7, 8, 9>>]
Falling == [direction |-> "decreasing", coordinates |-> <<9, 8, 7, 6, 5, 5, 4, 3, 2, 2, 1>>]

Curve(axis, values, nulls, bits) ==
  [axis |-> axis, values |-> values, nulls |-> nulls, bits |-> bits]
Short == {<<1, 2, 0, 1>>, <<2, 2, 0, 0>>}
Long == {<<1, 2, 0, 1, 2, 2, 0, 1, 1>>, <<0, 1, 0, 3, 1, 0, 2, 0, 2>>, <<3, 2, 2, 1, 1, 1, 1, 0, 2>>}
MCCurves ==
  {Curve(axis, values, nulls, 11) :
     axis \in {Rising, Falling}, values \in Long, nulls \in {{}, {2}, {3, 4}, {1, 6, 10}, {7}}}
  \cup {Curve(Rising, values, {}, 0) : values \in Short \cup Long}
  \cup {Curve(Falling, values, {3}, 4) : values \in Short}
  \cup {Curve(Rising, [values EXCEPT ![4] = nan], {}, 0) : values \in Long}
MCBatches == {<<3>>, <<1, 0>>}
MCQueries ==
  {[top |-> w[1], bottom |-> w[2], pixels |-> p, prefetch |-> f] :
     w \in {<<1, 9>>, <<2, 5>>, <<3, 4>>}, p \in {1, 2}, f \in {0, 1}}

INSTANCE CurveLod WITH NaN <- nan, Base <- 2, RunBytes <- 2, LevelBytes <- 2,
  SummaryBytes <- 1, SampleBytes <- 4, Curves <- MCCurves, Batches <- MCBatches,
  Budgets <- {0, 18, 60}, Others <- {1}, Queries <- MCQueries, MaxCommands <- 3
=============================================================================
