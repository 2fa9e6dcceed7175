------------------------------ MODULE CurveLod ------------------------------
(***************************************************************************)
(* The level-of-detail pyramid of a curve (src/scene/curve_lod.cpp) and    *)
(* the task of a session that derives it: built from the samples, or, when *)
(* an append has staged the pyramid of the shorter curve, extended from    *)
(* it.  A query selects the samples that are drawn in a viewport.          *)
(*                                                                         *)
(* Samples count from 1; a range [begin, end) holds begin .. end - 1.      *)
(* Summaries are kept by their sample numbers, which the code sorts, so a  *)
(* set of numbers stands for an array.                                     *)
(***************************************************************************)
EXTENDS Integers, Sequences, SequencesExt, FiniteSets, FiniteSetsExt, Functions

CONSTANTS
  Base,                                  \* base_bucket_samples
  RunBytes, LevelBytes, SummaryBytes,    \* the sizes of the three records
  SampleBytes,                           \* of a value and of a coordinate
  Curves,      \* [axis, values, nulls, bits]: the curves a host may load
  Batches,     \* the tails it may append: sequences of values
  Budgets,     \* what maximum_cpu_derived_bytes may be; 0 means unset
  Others,      \* lengths of the document's other curve
  Queries,     \* [top, bottom, pixels, prefetch]
  NaN,         \* a value that is not a number
  MaxCommands  \* bound on loads and appends together

LodAssumption ==
  /\ Base \in Nat /\ Base >= 2
  /\ {RunBytes, LevelBytes, SummaryBytes, SampleBytes} \subseteq Nat \ {0}
  /\ Budgets \subseteq Nat /\ Others \subseteq Nat

VARIABLES
  curve,      \* the curve of the current document
  other,      \* the length of its other curve
  budget,     \* budgets.maximum_cpu_derived_bytes
  task,       \* the budget of the task that derives the pyramid of curve, or 0
  staged,     \* the pyramid handed to that task, or NoPyramid
  published,  \* the pyramid of the ready preparation, or NoPyramid
  how,        \* auxiliary: how published came about
  commands    \* auxiliary: commands so far

vars == <<curve, other, budget, task, staged, published, how, commands>>

NoPyramid == [runs |-> <<>>]
Length(c) == Len(c.values)
Depth(c, i) == c.axis.coordinates[i]

-----------------------------------------------------------------------------
(* Samples, runs and summaries.                                            *)

valid_sample(c, i) == i \notin c.nulls /\ c.values[i] # NaN

\* The bitmap, when there is one, must cover the curve.
BitmapCovers(c) == c.bits = 0 \/ c.bits >= Length(c)

\* The maximal runs of valid samples from a sample on, in order.
RunsFrom(c, from) ==
  LET begins == {i \in from..Length(c) :
                   valid_sample(c, i) /\ (i = from \/ ~valid_sample(c, i - 1))}
      EndOf(b) == Min({i \in b..Length(c) : ~valid_sample(c, i)} \cup {Length(c) + 1})
  IN  SetToSortSeq({[begin |-> b, end |-> EndOf(b)] : b \in begins},
                   LAMBDA r, s : r.begin < s.begin)

\* Of equal values the first sample counts.
Least(c, samples) ==
  Min({i \in samples : \A j \in samples : c.values[i] <= c.values[j]})
Greatest(c, samples) ==
  Min({i \in samples : \A j \in samples : c.values[i] >= c.values[j]})
\* A plausible slip.
ExtremesWithoutGreatest(c, samples) ==
  {Min(samples), Least(c, samples), Max(samples)}

Extremes(c, samples) ==
  {Min(samples), Least(c, samples), Greatest(c, samples), Max(samples)}

summarize(c, begin, end) ==
  [begin |-> begin, end |-> end, samples |-> Extremes(c, begin..(end - 1))]
summarize_children(c, children) ==
  [begin |-> children[1].begin, end |-> children[Len(children)].end,
   samples |-> Extremes(c, UNION {children[k].samples : k \in DOMAIN children})]

Ceiling(n, d) == (n + d - 1) \div d
Smaller(m, n) == IF m < n THEN m ELSE n

\* Buckets of a run at its first level; four summaries make one at the next.
Level(c, run, bucket, levels) ==
  [bucket |-> bucket,
   summaries |->
     IF levels = <<>>
     THEN [k \in 1..Ceiling(run.end - run.begin, bucket) |->
             summarize(c, run.begin + (k - 1) * bucket,
                       Smaller(run.end, run.begin + k * bucket))]
     ELSE LET below == levels[Len(levels)].summaries
          IN  [k \in 1..Ceiling(Len(below), 4) |->
                 summarize_children(c, SubSeq(below, 4 * k - 3, Smaller(4 * k, Len(below))))]]

\* A plausible slip.
LevelCostOfHeader(run, bucket) == LevelBytes

LevelCost(run, bucket) ==
  LevelBytes + Ceiling(run.end - run.begin, bucket) * SummaryBytes

\* Levels are added while a bucket fits the run and the room fits the level.
RECURSIVE build_run_levels(_, _, _, _, _)
build_run_levels(c, run, bucket, room, levels) ==
  LET cost == LevelCost(run, bucket)
  IN  IF bucket > run.end - run.begin THEN [levels |-> levels, room |-> room, cut |-> FALSE]
      ELSE IF cost > room THEN [levels |-> levels, room |-> room, cut |-> TRUE]
      ELSE build_run_levels(c, run, 4 * bucket, room - cost,
                            Append(levels, Level(c, run, bucket, levels)))

\* One run after another takes what it needs of the room that is left.
RECURSIVE BuildRuns(_, _, _, _)
BuildRuns(c, ranges, room, done) ==
  IF ranges = <<>> THEN [done EXCEPT !.room = room]
  ELSE LET built == build_run_levels(c, Head(ranges), Base, room, <<>>)
       IN  BuildRuns(c, Tail(ranges), built.room,
             [done EXCEPT !.runs = Append(@, [begin |-> Head(ranges).begin,
                                              end |-> Head(ranges).end,
                                              levels |-> built.levels]),
                          !.limited = @ \/ built.cut])

Pyramid(c, limit, built) ==
  [runs |-> built.runs, curve |-> c, limit |-> limit,
   bytes |-> limit - built.room, limited |-> built.limited]

Error(code) == [error |-> code]
Failed(result) == "error" \in DOMAIN result

build(c, limit) ==
  LET ranges == RunsFrom(c, 1)
  IN  IF Length(c) = 0 THEN Error("invalid_document")
      ELSE IF ~BitmapCovers(c) THEN Error("invalid_buffer")
      ELSE IF Len(ranges) > limit \div RunBytes THEN Error("resource_exhausted")
      ELSE Pyramid(c, limit,
             BuildRuns(c, ranges, limit - Len(ranges) * RunBytes,
                       [runs |-> <<>>, room |-> 0, limited |-> FALSE]))

-----------------------------------------------------------------------------
(* Extending the pyramid of a shorter curve.                               *)

\* Same samples in the same memory.  A tail adds a segment, so only the
\* curve that an append left alone has the identity of the earlier one.
same_buffer_identity(c, d) == c.values = d.values

\* A value that is not a number is not equal to itself.
PrefixKept(p, c) ==
  \A i \in 1..Length(p.curve) : p.curve.values[i] # NaN /\ c.values[i] = p.curve.values[i]

\* Levels and overhead of the runs that are taken over.
CostOf(run) ==
  RunBytes + FoldFunction(LAMBDA level, sum : sum + LevelBytes + Len(level.summaries) * SummaryBytes,
                          0, run.levels)
\* A plausible slip.
ReusedWithTheLast(p) == p.runs

Reused(p) == SubSeq(p.runs, 1, Len(p.runs) - 1)

\* The overhead of every run is charged before any level is derived.
Rederive(p, c, limit) ==
  LET reused == Reused(p)
      ranges == RunsFrom(c, p.runs[Len(p.runs)].begin)
      spent  == FoldFunction(LAMBDA run, sum : sum + CostOf(run), 0, reused)
      room   == limit - spent - Len(ranges) * RunBytes
  IN  IF Len(reused) + Len(ranges) > limit \div RunBytes
      THEN Error("resource_exhausted")
      ELSE Pyramid(c, limit,
             BuildRuns(c, ranges, room,
                       [runs |-> reused, room |-> 0, limited |-> room < 0]))

extend_tail(p, c, limit) ==
  IF p.runs = <<>> THEN Error("invalid_document")
  ELSE IF same_buffer_identity(c, p.curve) /\ limit = p.limit THEN p
  ELSE IF Length(c) <= Length(p.curve) \/ limit # p.limit THEN Error("invalid_document")
  ELSE IF ~BitmapCovers(c) THEN Error("invalid_buffer")
  ELSE IF ~PrefixKept(p, c) THEN Error("invalid_document")
  ELSE Rederive(p, c, limit)

-----------------------------------------------------------------------------
(* Queries.                                                                *)

Increasing(axis) == axis.direction = "increasing"
InRange(axis, i, top, bottom) ==
  axis.coordinates[i] >= top /\ axis.coordinates[i] <= bottom
\* The samples whose depth is in a range; they are consecutive.
source_range(c, top, bottom) == {i \in 1..Length(c) : InRange(c.axis, i, top, bottom)}

\* Buckets grow by four until one holds the samples of a pixel.
RECURSIVE TargetBucket(_, _, _)
TargetBucket(bucket, visible, pixels) ==
  IF bucket * pixels < visible THEN TargetBucket(4 * bucket, visible, pixels) ELSE bucket

\* The samples of every bucket of the run that meets the range.
FromSamples(c, run, from, to, bucket) ==
  LET first == run.begin + ((from - run.begin) \div bucket) * bucket
  IN  UNION {summarize(c, b, Smaller(run.end, b + bucket)).samples :
               b \in {b \in first..to : (b - first) % bucket = 0}}
FromLevel(level, from, to) ==
  UNION {s.samples : s \in {s \in ToSet(level.summaries) : s.end > from /\ s.begin <= to}}

\* A run's points between two samples.
SelectedOf(c, run, from, to, visible, pixels) ==
  LET target == TargetBucket(Base, visible, pixels)
      coarse == {k \in DOMAIN run.levels : run.levels[k].bucket * pixels >= visible}
  IN  IF visible <= pixels THEN from..to
      ELSE IF run.levels = <<>> \/ run.levels[Len(run.levels)].bucket < target
           THEN FromSamples(c, run, from, to, target)
      ELSE FromLevel(run.levels[Min(coarse)], from, to)

\* One segment for each run that reaches into the prefetched range.
query(p, q) ==
  LET span == q.bottom - q.top
      visible == source_range(p.curve, q.top, q.bottom)
      prefetched == source_range(p.curve, q.top - span * q.prefetch,
                                 q.bottom + span * q.prefetch)
      Within(run) == prefetched \cap (run.begin..(run.end - 1))
  IN  IF visible = {} THEN {}
      ELSE {SelectedOf(p.curve, run, Min(Within(run)), Max(Within(run)),
                       Cardinality(visible), q.pixels) :
              run \in {r \in ToSet(p.runs) : Within(r) # {}}}

-----------------------------------------------------------------------------
(* The session's task.                                                     *)

\* Without a budget, a quarter of the bytes of the document's samples.
PerCurveBudget(c, n) ==
  LET Quarter(length) == 2 * ((length * SampleBytes) \div 4)
      total == IF budget # 0 THEN budget ELSE Quarter(Length(c)) + Quarter(n)
  IN  Max({1, total \div 2})

Init ==
  /\ curve \in Curves /\ other \in Others /\ budget \in Budgets
  /\ task = 0 /\ staged = NoPyramid /\ published = NoPyramid
  /\ how = "none" /\ commands = 0

Counted == commands < MaxCommands /\ commands' = commands + 1

\* A document with the curve is set; nothing is reused.
SetDocument ==
  /\ Counted
  /\ task' = PerCurveBudget(curve, other) /\ staged' = NoPyramid /\ published' = NoPyramid
  /\ how' = "none"
  /\ UNCHANGED <<curve, other, budget>>

SetBudget(b) ==
  /\ b # budget /\ Counted
  /\ budget' = b
  /\ UNCHANGED <<curve, other, task, staged, published, how>>

\* An append sets the extended document; a ready pyramid is handed to its task.
AppendBatch(c, n) ==
  /\ Counted
  /\ curve' = c /\ other' = n
  /\ task' = PerCurveBudget(c, n)
  /\ staged' = published /\ published' = NoPyramid /\ how' = "none"
  /\ UNCHANGED budget

AppendTail(batch) ==
  /\ Length(curve) + Len(batch) <= Len(curve.axis.coordinates)
  /\ curve.bits = 0 \/ curve.bits >= Length(curve) + Len(batch)
  /\ AppendBatch([curve EXCEPT !.values = @ \o batch], other)
AppendOther == AppendBatch(curve, other + 1)

\* Extended if it can be, and built otherwise.
Derive ==
  LET extended == IF staged = NoPyramid THEN Error("invalid_document")
                  ELSE extend_tail(staged, curve, task)
      result == IF Failed(extended) THEN build(curve, task) ELSE extended
  IN  /\ task # 0
      /\ published' = IF Failed(result) THEN NoPyramid ELSE result
      /\ how' = IF Failed(result) THEN "failed"
                ELSE IF Failed(extended) THEN "built" ELSE "extended"
      /\ task' = 0 /\ staged' = NoPyramid
      /\ UNCHANGED <<curve, other, budget, commands>>

Next ==
  \/ SetDocument
  \/ \E b \in Budgets : SetBudget(b)
  \/ \E batch \in Batches : AppendTail(batch)
  \/ AppendOther
  \/ Derive

Spec == Init /\ [][Next]_vars

-----------------------------------------------------------------------------
(* Properties. *)

Ready == published # NoPyramid

(***************************************************************************)
(* The pyramid of the ready preparation is of the current curve, its runs  *)
(* lie in the curve and its statistics count what it holds; one that was   *)
(* built fits the budget of its task.                                      *)
(***************************************************************************)
PyramidIsSound ==
  Ready =>
    /\ published.curve = curve
    /\ \A k \in DOMAIN published.runs :
         published.runs[k].begin < published.runs[k].end
         /\ published.runs[k].end <= Length(curve) + 1
    /\ published.bytes =
         FoldFunction(LAMBDA run, sum : sum + CostOf(run), 0, published.runs)
    /\ how = "built" => published.bytes <= published.limit

\* The scalar reference algorithm: the runs of the curve without levels.
Reference(c) ==
  LET ranges == RunsFrom(c, 1)
  IN  [curve |-> c,
       runs |-> [k \in DOMAIN ranges |->
                   [begin |-> ranges[k].begin, end |-> ranges[k].end, levels |-> <<>>]]]

(***************************************************************************)
(* A pyramid, whether it was built or extended and however few levels its  *)
(* budget left it, selects in every viewport the samples the scalar        *)
(* reference algorithm selects from the curve itself.                      *)
(***************************************************************************)
SelectionsAgree ==
  Ready => \A q \in Queries : query(published, q) = query(Reference(curve), q)

BucketOf(visible, pixels) ==
  IF visible <= pixels THEN 1 ELSE TargetBucket(Base, visible, pixels)

(***************************************************************************)
(* What is selected shows the curve: for every visible sample the points   *)
(* of its run begin at or before it and end at or after it, and within a   *)
(* bucket of it some are as low and some as high.                          *)
(***************************************************************************)
EnvelopeKept ==
  Ready =>
    \A q \in Queries :
      LET visible == source_range(curve, q.top, q.bottom)
          bucket  == BucketOf(Cardinality(visible), q.pixels)
          points  == UNION query(published, q)
          Near(i) == {j \in points : j - i < bucket /\ i - j < bucket}
      IN  \A i \in {i \in visible : valid_sample(curve, i)} :
            /\ \E s \in query(published, q) :
                 (\E j \in s : j <= i) /\ (\E j \in s : j >= i)
                 /\ \A j \in Min(s)..Max(s) : valid_sample(curve, j)
            /\ \E j \in Near(i) : curve.values[j] <= curve.values[i]
            /\ \E j \in Near(i) : curve.values[j] >= curve.values[i]

(***************************************************************************)
(* An extended pyramid is the one a full build over the extended curve     *)
(* gives: the same levels and the same bytes.                              *)
(***************************************************************************)
ExtendedIsRebuilt ==
  how = "extended" => published = build(curve, published.limit)
=============================================================================
