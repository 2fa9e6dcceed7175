---------------------------- MODULE AppendStream ----------------------------
(***************************************************************************)
(* Streaming appends to one document of a WellLogSession                   *)
(* (src/session/session.cpp): AppendBatchCommand commits a batch of curve  *)
(* tails at once or, when a refresh rate is set, stages its blocks in the  *)
(* document's coalescer; a later append that is due, poll_async and        *)
(* flush_append_coalesce commit what is staged as one revision.  The       *)
(* document is replaced, patched, undone and redone in between.            *)
(*                                                                         *)
(* Curves and their axes are the same in every document; a block that      *)
(* names others, or whose buffers are malformed or of the wrong type or    *)
(* length, is one that is not sound.  Coalescers of different documents    *)
(* share nothing, so one document is enough.                               *)
(***************************************************************************)
EXTENDS Naturals, Sequences, FiniteSets

CONSTANTS
  Curves,
  AxisOf,         \* AxisOf[c]: the sampling axis of curve c
  Depths,
  Batches,        \* the batches a host may offer: nonempty sequences of blocks
  Rates,          \* the settings of append_refresh_rate_hz: 0, or one rate
  MaxRevision,    \* the largest revision; the next one wraps to 0
  MaxCommands,    \* bound on appends, loads and patches together
  None

Revisions == 1 .. MaxRevision

Axes == {AxisOf[c] : c \in Curves}

\* A tail of a curve, with its first and last coordinate.
CurveTailBlocks == [curve : Curves, first : Depths, last : Depths, sound : BOOLEAN]

ASSUME AppendAssumption ==
  /\ Depths \subseteq Nat
  /\ Batches \subseteq Seq(CurveTailBlocks) \ {<<>>}
  /\ Rates \subseteq Nat
  /\ MaxRevision \in Nat \ {0}
  /\ MaxCommands \in Nat

(***************************************************************************)
(* A block carries the number of the command that brought it and the       *)
(* revision that command asked for; both are auxiliary.                    *)
(***************************************************************************)
Blocks == [block : CurveTailBlocks, command : 1 .. MaxCommands, target : Revisions]

\* A document: where its axes ended when it was loaded, and its tails since.
Documents == [revision : Revisions, loaded : Depths, tails : Seq(Blocks)]

ASSUME NoneIsNoDocument == None \notin Documents

VARIABLES
  document,         \* documents, or None
  staged,           \* AppendCoalescer::staged_blocks
  has_last_flush,   \* AppendCoalescer::has_last_flush
  elapsed,          \* the refresh interval has elapsed since last_flush
  rate,             \* budgets.append_refresh_rate_hz
  undo, redo,       \* histories
  commands,         \* auxiliary: the commands so far
  refreshes,        \* auxiliary: revisions made by due flushes since the last Tick
  passed,           \* auxiliary: <<n, m>> where n was committed while m was staged
  told              \* auxiliary: what the last append or flush returned

coalescer == <<staged, has_last_flush, elapsed>>
vars == <<document, coalescer, rate, undo, redo, commands, refreshes, passed, told>>

Entries == [before : Documents, after : Documents]

\* "lost": since then, poll_async has dropped what was staged.
Returns == {"ok", "error", "lost"}

TypeOK ==
  /\ document \in Documents \cup {None}
  /\ staged \in Seq(Blocks)
  /\ has_last_flush \in BOOLEAN
  /\ elapsed \in BOOLEAN
  /\ rate \in Rates \cup {0}
  /\ undo \in Seq(Entries)
  /\ redo \in Seq(Entries)
  /\ commands \in 0 .. MaxCommands
  /\ refreshes \in Nat
  /\ passed \in SUBSET (Nat \X Nat)
  /\ told \in Returns

Init ==
  /\ document = None
  /\ staged = <<>>
  /\ has_last_flush = FALSE
  /\ elapsed = FALSE
  /\ rate = 0
  /\ undo = <<>>
  /\ redo = <<>>
  /\ commands = 0
  /\ refreshes = 0
  /\ passed = {}
  /\ told = "ok"

-----------------------------------------------------------------------------
(***************************************************************************)
(* The validation of a batch.  Every block extends its axis as the blocks  *)
(* before it in the batch have left it; then the document is validated as  *)
(* any other, except for the order of its axes, which is taken to follow.  *)
(* Every tail has a sample at least, so a curve is as long as its axis if  *)
(* no other curve has brought a tail to that axis.                         *)
(***************************************************************************)
Axis(b) == AxisOf[b.block.curve]

LastOf(indices) == CHOOSE i \in indices : \A j \in indices : j <= i

\* The last coordinate of axis a when the tails before the j-th are in place.
EndOfAxis(doc, tails, j, a) ==
  LET before == {i \in 1 .. j - 1 : Axis(tails[i]) = a} IN
  IF before = {} THEN doc.loaded ELSE tails[LastOf(before)].block.last

\* Mutant: a tail is compared with the axis of the document, not of the batch.
ContinuesDocumentAxis(doc, tails, j) ==
  /\ tails[j].block.first <= tails[j].block.last
  /\ EndOfAxis(doc, tails, Len(doc.tails) + 1, Axis(tails[j])) <= tails[j].block.first

tail_continues_axis(doc, tails, j) ==
  /\ tails[j].block.first <= tails[j].block.last
  /\ EndOfAxis(doc, tails, j, Axis(tails[j])) <= tails[j].block.first

LengthsMatch(tails) ==
  \A c \in Curves :
    Cardinality({i \in DOMAIN tails : tails[i].block.curve = c})
      = Cardinality({i \in DOMAIN tails : Axis(tails[i]) = AxisOf[c]})

Accepts(doc, batch) ==
  LET tails == doc.tails \o batch IN
  /\ \A j \in Len(doc.tails) + 1 .. Len(tails) :
       tails[j].block.sound /\ tail_continues_axis(doc, tails, j)
  /\ LengthsMatch(tails)

Commit(batch, revision) ==
  /\ document' = [document EXCEPT !.revision = revision, !.tails = @ \o batch]
  /\ undo' = Append(undo, [before |-> document, after |-> document'])
  /\ redo' = <<>>

NoCommit == UNCHANGED <<document, undo, redo>>

\* The blocks of a command as the coalescer gets them.
Numbered(batch, target) ==
  [i \in DOMAIN batch |->
     [block |-> batch[i], command |-> commands + 1, target |-> target]]

-----------------------------------------------------------------------------
(***************************************************************************)
(* flush_append_coalesce, with blocks staged: they leave the coalescer     *)
(* whether or not they can be committed.                                   *)
(***************************************************************************)
NextRevision == IF document.revision = MaxRevision THEN 0 ELSE document.revision + 1

Commits(batch) == NextRevision > document.revision /\ Accepts(document, batch)

\* Mutant: the blocks stay in the coalescer.
FlushKeepsBlocks(blocks) ==
  /\ staged' = blocks
  /\ IF Commits(blocks)
     THEN /\ Commit(blocks, NextRevision)
          /\ has_last_flush' = TRUE
          /\ elapsed' = FALSE
     ELSE NoCommit /\ UNCHANGED <<has_last_flush, elapsed>>

\* Mutant: the time of the flush is not recorded.
FlushForgetsTime(blocks) ==
  /\ staged' = <<>>
  /\ IF Commits(blocks)
     THEN Commit(blocks, NextRevision) /\ has_last_flush' = TRUE
     ELSE NoCommit /\ UNCHANGED has_last_flush
  /\ UNCHANGED elapsed

Flush(blocks) ==
  /\ staged' = <<>>
  /\ IF Commits(blocks)
     THEN /\ Commit(blocks, NextRevision)
          /\ has_last_flush' = TRUE
          /\ elapsed' = FALSE
     ELSE NoCommit /\ UNCHANGED <<has_last_flush, elapsed>>

Outcome(success) == told' = IF success THEN "ok" ELSE "error"

(***************************************************************************)
(* execute(AppendBatchCommand).  Without a refresh rate the batch commits  *)
(* at the revision the host asks for, or fails.  A revision that is not    *)
(* later than the document's is refused either way.                        *)
(***************************************************************************)
IsLater(target) == document # None /\ target > document.revision

Offer ==
  /\ commands < MaxCommands
  /\ commands' = commands + 1
  /\ UNCHANGED rate

AppendRefused(batch, target) ==
  /\ Offer
  /\ ~(/\ IsLater(target)
       /\ rate = 0 => Accepts(document, Numbered(batch, target)))
  /\ NoCommit
  /\ Outcome(FALSE)
  /\ UNCHANGED <<coalescer, refreshes, passed>>

AppendNow(batch, target) ==
  /\ Offer
  /\ rate = 0
  /\ IsLater(target)
  /\ Accepts(document, Numbered(batch, target))
  /\ Commit(Numbered(batch, target), target)
  /\ Outcome(TRUE)
  /\ passed' = passed \cup {<<commands + 1, staged[j].command>> : j \in DOMAIN staged}
  /\ UNCHANGED <<coalescer, refreshes>>

\* Mutant: the first append of a document waits like any other.
DueOnlyByTime == has_last_flush /\ elapsed

Due == has_last_flush => elapsed

AppendStaged(batch, target) ==
  /\ Offer
  /\ rate # 0
  /\ IsLater(target)
  /\ ~Due
  /\ staged' = staged \o Numbered(batch, target)
  /\ NoCommit
  /\ Outcome(TRUE)
  /\ UNCHANGED <<has_last_flush, elapsed, refreshes, passed>>

AppendFlushes(batch, target) ==
  LET blocks == staged \o Numbered(batch, target) IN
  /\ Offer
  /\ rate # 0
  /\ IsLater(target)
  /\ Due
  /\ Flush(blocks)
  /\ Outcome(Commits(blocks))
  /\ refreshes' = IF Commits(blocks) THEN refreshes + 1 ELSE refreshes
  /\ UNCHANGED passed

(***************************************************************************)
(* poll_async flushes an overdue coalescer and discards the error, if any. *)
(***************************************************************************)
PollFlushes ==
  /\ rate # 0
  /\ staged # <<>>
  /\ has_last_flush
  /\ elapsed
  /\ Flush(staged)
  /\ told' = IF Commits(staged) THEN told ELSE "lost"
  /\ refreshes' = IF Commits(staged) THEN refreshes + 1 ELSE refreshes
  /\ UNCHANGED <<rate, commands, passed>>

(***************************************************************************)
(* flush_append_coalesce called by the host, at any rate.                  *)
(***************************************************************************)
FlushNothing ==
  /\ staged = <<>>
  /\ Outcome(TRUE)
  /\ UNCHANGED <<document, coalescer, rate, undo, redo, commands, refreshes, passed>>

FlushNow ==
  /\ staged # <<>>
  /\ Flush(staged)
  /\ Outcome(Commits(staged))
  /\ UNCHANGED <<rate, commands, refreshes, passed>>

-----------------------------------------------------------------------------
(***************************************************************************)
(* What else happens to the document and the clock.  None of it looks at   *)
(* the coalescer.                                                          *)
(***************************************************************************)
SetDocument(revision, loaded) ==
  /\ commands < MaxCommands
  /\ commands' = commands + 1
  /\ document' = [revision |-> revision, loaded |-> loaded, tails |-> <<>>]
  /\ UNCHANGED <<coalescer, rate, undo, redo, refreshes, passed, told>>

ApplyPatch ==
  /\ document # None
  /\ NextRevision # 0
  /\ commands < MaxCommands
  /\ commands' = commands + 1
  /\ Commit(<<>>, NextRevision)
  /\ UNCHANGED <<coalescer, rate, refreshes, passed, told>>

Newest(stack) == stack[Len(stack)]
WithoutNewest(stack) == SubSeq(stack, 1, Len(stack) - 1)

Undo ==
  /\ undo # <<>>
  /\ document' = Newest(undo).before
  /\ undo' = WithoutNewest(undo)
  /\ redo' = Append(redo, Newest(undo))
  /\ UNCHANGED <<coalescer, rate, commands, refreshes, passed, told>>

Redo ==
  /\ redo # <<>>
  /\ document' = Newest(redo).after
  /\ redo' = WithoutNewest(redo)
  /\ undo' = Append(undo, Newest(redo))
  /\ UNCHANGED <<coalescer, rate, commands, refreshes, passed, told>>

set_performance_budgets(hz) ==
  /\ rate' = hz
  /\ UNCHANGED <<document, coalescer, undo, redo, commands, refreshes, passed, told>>

\* The steady clock passes last_flush plus the interval.
Tick ==
  /\ ~elapsed
  /\ elapsed' = TRUE
  /\ refreshes' = 0
  /\ UNCHANGED <<document, staged, has_last_flush, rate, undo, redo, commands, passed, told>>

Next ==
  \/ \E batch \in Batches, target \in Revisions :
       \/ AppendRefused(batch, target)
       \/ AppendNow(batch, target)
       \/ AppendStaged(batch, target)
       \/ AppendFlushes(batch, target)
  \/ PollFlushes \/ FlushNothing \/ FlushNow
  \/ \E revision \in Revisions, loaded \in Depths : SetDocument(revision, loaded)
  \/ ApplyPatch \/ Undo \/ Redo
  \/ \E hz \in Rates : set_performance_budgets(hz)
  \/ Tick

(***************************************************************************)
(* Time passes and the host polls.                                         *)
(***************************************************************************)
Fairness == WF_vars(Tick) /\ WF_vars(PollFlushes)

Spec == Init /\ [][Next]_vars /\ Fairness
-----------------------------------------------------------------------------
(***************************************************************************)
(* A batch applies as a whole or fails as a whole: of the blocks one       *)
(* command brought, a document holds all or none, each of them once, next  *)
(* to each other and in the order they came, whatever commands they were   *)
(* merged with, dropped with or undone with, and none of them is staged    *)
(* any more.                                                               *)
(***************************************************************************)
Kept == IF document = None THEN <<>> ELSE document.tails

BroughtBy(n, blocks) == {i \in DOMAIN blocks : blocks[i].command = n}

\* The blocks command n brought are those of one batch, and stand together.
OneBatch(n, blocks) ==
  \E batch \in Batches, k \in 0 .. Len(blocks) :
    /\ BroughtBy(n, blocks) = k + 1 .. k + Len(batch)
    /\ \A i \in 1 .. Len(batch) : blocks[k + i].block = batch[i]

BatchesKeptWhole ==
  \A n \in 1 .. commands :
    BroughtBy(n, Kept) # {} => OneBatch(n, Kept) /\ BroughtBy(n, staged) = {}

(***************************************************************************)
(* Blocks of different commands stand in the order of the commands, but    *)
(* for one case: a host that sets the rate back to 0 while blocks are      *)
(* staged commits its next append ahead of them.                           *)
(***************************************************************************)
InOrder(blocks, exceptions) ==
  \A i, j \in DOMAIN blocks :
    i < j => \/ blocks[i].command <= blocks[j].command
             \/ <<blocks[i].command, blocks[j].command>> \in exceptions

EveryBatchWhole ==
  BatchesKeptWhole /\ InOrder(Kept, passed) /\ InOrder(staged, {})

(***************************************************************************)
(* The coordinates of every axis are in order.  The validation of the      *)
(* document is told to take that on trust after an append; it rests on     *)
(* tail_continues_axis alone, over any number of batches and merges.       *)
(***************************************************************************)
Ordered(doc) ==
  /\ \A i \in DOMAIN doc.tails :
       /\ doc.loaded <= doc.tails[i].block.first
       /\ doc.tails[i].block.first <= doc.tails[i].block.last
  /\ \A i, j \in DOMAIN doc.tails :
       i < j /\ Axis(doc.tails[i]) = Axis(doc.tails[j]) =>
         doc.tails[i].block.last <= doc.tails[j].block.first

AxesOrdered == document # None => Ordered(document)

(***************************************************************************)
(* An append stream makes at most one visible revision in each refresh     *)
(* interval, however appends, polls, failures and undo interleave.         *)
(***************************************************************************)
RefreshRateKept == refreshes <= 1

(***************************************************************************)
(* Staged blocks are never left behind by poll_async, which passes over a  *)
(* coalescer that has not flushed before.                                  *)
(***************************************************************************)
StagedAfterFirstFlush == staged # <<>> => has_last_flush

(***************************************************************************)
(* "staged blocks flush on the next due interval, on                       *)
(* flush_append_coalesce(), or on poll_async()" (session.hpp,              *)
(* append_refresh_rate_hz): a host that only polls sees them flushed, as   *)
(* long as it does not set the rate to 0, which leaves them to an explicit *)
(* flush or to the next rate.                                              *)
(***************************************************************************)
StagedBlocksFlush == staged # <<>> ~> (staged = <<>> \/ rate = 0)

-----------------------------------------------------------------------------
(***************************************************************************)
(* "the host observes it via the next execute()/flush return"              *)
(* (session.cpp, poll_async, of a merged batch it dropped): the next       *)
(* append or flush after the loss does not report success.                 *)
(***************************************************************************)
DroppedAppendIsReported == [][told = "lost" => told' # "ok"]_vars

(***************************************************************************)
(* A batch succeeds when its curves exist, its coordinates continue their  *)
(* sampling axes and its buffers are owned (docs/data-model-and-api.md,    *)
(* 14), so also one that extends each of two curves on one axis.           *)
(***************************************************************************)
Documented(doc, batch) ==
  \A i \in DOMAIN batch :
    /\ batch[i].sound
    /\ batch[i].first <= batch[i].last
    /\ EndOfAxis(doc, doc.tails, Len(doc.tails) + 1, AxisOf[batch[i].curve])
         <= batch[i].first
    /\ \A j \in 1 .. i - 1 :
         batch[j].curve = batch[i].curve => batch[j].last <= batch[i].first

DocumentedBatchCommits ==
  document # None =>
    \A batch \in Batches :
      Documented(document, batch) => Accepts(document, Numbered(batch, MaxRevision))
=============================================================================
