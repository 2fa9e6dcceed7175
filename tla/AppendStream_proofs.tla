------------------------ MODULE AppendStream_proofs -------------------------
(***************************************************************************)
(* Proofs about AppendStream, for any curves, axes, batches, revisions and *)
(* number of commands: the coordinates of every axis stay in order, an     *)
(* append stream keeps its refresh rate, nothing is staged in a coalescer  *)
(* that poll_async passes over, and every batch is applied or dropped as a *)
(* whole, in order unless an append at rate 0 passes what is staged.       *)
(***************************************************************************)
EXTENDS AppendStream, TLAPS, WellFoundedInduction

(***************************************************************************)
(* The inductive invariant.  Undo and redo bring documents of the history  *)
(* back, so those are in order as well.  The refresh of this interval, if  *)
(* there was one, is what last_flush tells.                                *)
(***************************************************************************)
OrderedHistory(stack) ==
  \A k \in DOMAIN stack : Ordered(stack[k].before) /\ Ordered(stack[k].after)

OrderInv == AxesOrdered /\ OrderedHistory(undo) /\ OrderedHistory(redo)

RefreshInv ==
  /\ RefreshRateKept
  /\ refreshes = 1 => has_last_flush /\ ~elapsed

StagingInv ==
  /\ StagedAfterFirstFlush
  /\ staged # <<>> => document # None

AInv == TypeOK /\ OrderInv /\ RefreshInv /\ StagingInv

(***************************************************************************)
(* The batches, in every document that undo or redo can bring back and in  *)
(* the coalescer.                                                          *)
(***************************************************************************)
HeldBy(stack) ==
  {stack[k].before : k \in DOMAIN stack} \cup {stack[k].after : k \in DOMAIN stack}

Held == ({document} \ {None}) \cup HeldBy(undo) \cup HeldBy(redo)

WholeBatches(blocks) ==
  \A i \in DOMAIN blocks : OneBatch(blocks[i].command, blocks)

UpTo(n, blocks) == \A i \in DOMAIN blocks : blocks[i].command <= n

Apart(blocks, others) ==
  \A i \in DOMAIN blocks, j \in DOMAIN others : blocks[i].command # others[j].command

BatchInv ==
  /\ \A doc \in Held :
       /\ WholeBatches(doc.tails)
       /\ UpTo(commands, doc.tails)
       /\ Apart(doc.tails, staged)
  /\ WholeBatches(staged)
  /\ UpTo(commands, staged)

(***************************************************************************)
(* A commit takes all that is staged, so what is staged came after what    *)
(* any document holds, but for the batches committed at rate 0 meanwhile.  *)
(***************************************************************************)
Before(blocks, others, exceptions) ==
  \A i \in DOMAIN blocks, j \in DOMAIN others :
    \/ blocks[i].command < others[j].command
    \/ <<blocks[i].command, others[j].command>> \in exceptions

SequenceInv ==
  /\ InOrder(staged, {})
  /\ \A doc \in Held :
       InOrder(doc.tails, passed) /\ Before(doc.tails, staged, passed)

-----------------------------------------------------------------------------
\* A nonempty set of natural numbers has a least element.
LEMMA LeastElement ==
  ASSUME NEW S, S \subseteq Nat, S # {}
  PROVE  \E m \in S : \A k \in S : m <= k
<1> DEFINE R == {ss \in Nat \X Nat : ss[1] < ss[2]}
<1>1. IsWellFoundedOn(R, Nat)
  BY NatLessThanWellFounded DEF OpToRel
<1>2. PICK x \in S : \A y \in S : <<y, x>> \notin R
  <2> HIDE DEF R
  <2> QED BY <1>1, WFMin
<1>3. ASSUME NEW y \in S, y < x PROVE FALSE
  <2> DEFINE ss == <<y, x>>
  <2>1. ss \in Nat \X Nat /\ ss[1] = y /\ ss[2] = x
    OBVIOUS
  <2>2. ss \in R
    <3> HIDE DEF ss
    <3> QED BY <2>1, <1>3
  <2> QED BY <2>2, <1>2
<1> QED BY <1>3

\* What LastOf means: a nonempty set of indices has a last one.
LEMMA LastElement ==
  ASSUME NEW n \in Nat, NEW S, S \subseteq 1 .. n, S # {}
  PROVE  LastOf(S) \in S /\ \A j \in S : j <= LastOf(S)
<1> DEFINE T == {n - i : i \in S}
<1>1. T \subseteq Nat /\ T # {}
  <2>1. \A i \in S : n - i \in Nat
    OBVIOUS
  <2> QED BY <2>1
<1>2. PICK m \in T : \A k \in T : m <= k
  <2> HIDE DEF T
  <2> QED BY <1>1, LeastElement
<1>3. PICK i \in S : m = n - i
  OBVIOUS
<1>4. \A j \in S : j <= i
  BY <1>2, <1>3
<1> QED BY <1>4 DEF LastOf

(***************************************************************************)
(* A batch that is accepted leaves the axes of a document in order.  Each  *)
(* tail was compared with one coordinate only, the last of its axis; that  *)
(* it comes after all the others follows along the axis.                   *)
(***************************************************************************)
LEMMA AcceptedKeepsOrder ==
  ASSUME NEW doc \in Documents, NEW batch \in Seq(Blocks), NEW revision,
         Ordered(doc), Accepts(doc, batch)
  PROVE  Ordered([doc EXCEPT !.revision = revision, !.tails = @ \o batch])
<1> DEFINE tails == doc.tails \o batch
           n == Len(doc.tails)
           Good(j) ==
             /\ doc.loaded <= tails[j].block.first
             /\ tails[j].block.first <= tails[j].block.last
             /\ \A i \in 1 .. j - 1 :
                  Axis(tails[i]) = Axis(tails[j]) =>
                    tails[i].block.last <= tails[j].block.first
<1>1. /\ doc.tails \in Seq(Blocks) /\ n \in Nat
      /\ tails \in Seq(Blocks) /\ Len(tails) \in Nat /\ n <= Len(tails)
      /\ \A j \in 1 .. n : tails[j] = doc.tails[j]
      /\ doc.loaded \in Nat
      /\ \A j \in 1 .. Len(tails) :
           tails[j].block.first \in Nat /\ tails[j].block.last \in Nat
  <2>1. doc.tails \in Seq(Blocks) /\ n \in Nat
    BY DEF Documents
  <2>2. /\ tails \in Seq(Blocks) /\ Len(tails) \in Nat /\ n <= Len(tails)
        /\ \A j \in 1 .. n : tails[j] = doc.tails[j]
    BY <2>1
  <2>3. doc.loaded \in Nat
    BY AppendAssumption DEF Documents
  <2>4. ASSUME NEW j \in 1 .. Len(tails)
        PROVE  tails[j].block.first \in Nat /\ tails[j].block.last \in Nat
    <3>1. tails[j] \in Blocks
      <4> HIDE DEF tails
      <4> QED BY <2>2
    <3> HIDE DEF tails
    <3> QED BY <3>1, AppendAssumption DEF Blocks, CurveTailBlocks
  <2> QED BY <2>1, <2>2, <2>3, <2>4
<1>2. \A j \in n + 1 .. Len(tails) : tail_continues_axis(doc, tails, j)
  BY DEF Accepts
<1>3. ASSUME NEW j \in 1 .. n PROVE Good(j)
  <2> HIDE DEF tails
  <2>1. doc.tails \in Seq(Blocks) /\ DOMAIN doc.tails = 1 .. n
    BY <1>1
  <2>2. \A i \in 1 .. j : i \in DOMAIN doc.tails /\ tails[i] = doc.tails[i]
    BY <1>1, <2>1
  <2>3. /\ doc.loaded <= tails[j].block.first
        /\ tails[j].block.first <= tails[j].block.last
    BY <2>2, <1>1 DEF Ordered
  <2>4. ASSUME NEW i \in 1 .. j - 1, Axis(tails[i]) = Axis(tails[j])
        PROVE  tails[i].block.last <= tails[j].block.first
    <3>1. i \in 1 .. j /\ j \in 1 .. j /\ i < j
      BY <1>1
    <3>2. /\ tails[i] = doc.tails[i] /\ i \in DOMAIN doc.tails
          /\ tails[j] = doc.tails[j] /\ j \in DOMAIN doc.tails
      BY <3>1, <2>2
    <3> QED BY <3>1, <3>2, <2>4 DEF Ordered
  <2> QED BY <2>3, <2>4
<1>4. ASSUME NEW j \in n + 1 .. Len(tails), \A k \in 1 .. j - 1 : Good(k)
      PROVE  Good(j)
  <2> DEFINE before == {i \in 1 .. j - 1 : Axis(tails[i]) = Axis(tails[j])}
  <2>1. /\ tails[j].block.first <= tails[j].block.last
        /\ EndOfAxis(doc, tails, j, Axis(tails[j])) <= tails[j].block.first
    BY <1>2 DEF tail_continues_axis
  <2>2. j \in 1 .. Len(tails)
    BY <1>1
  <2>3. CASE before = {}
    <3>1. EndOfAxis(doc, tails, j, Axis(tails[j])) = doc.loaded
      BY <2>3 DEF EndOfAxis
    <3> HIDE DEF tails
    <3> QED BY <3>1, <2>1, <2>3
  <2>4. CASE before # {}
    <3> DEFINE m == LastOf(before)
    <3>1. j - 1 \in Nat /\ before \subseteq 1 .. j - 1
      BY <1>1
    <3>2. m \in before /\ \A i \in before : i <= m
      <4> HIDE DEF before
      <4> QED BY <3>1, <2>4, LastElement
    <3>3. EndOfAxis(doc, tails, j, Axis(tails[j])) = tails[m].block.last
      BY <2>4 DEF EndOfAxis
    <3>4. m \in 1 .. j - 1 /\ Axis(tails[m]) = Axis(tails[j])
      BY <3>2
    <3>5. Good(m)
      BY <3>4, <1>4
    <3>6. m \in 1 .. Len(tails) /\ tails[m].block.last <= tails[j].block.first
      <4> HIDE DEF tails, m, before
      <4>1. j \in 1 .. Len(tails) /\ Len(tails) \in Nat
        BY <2>2, <1>1
      <4>2. m \in 1 .. Len(tails)
        BY <4>1, <3>4
      <4> QED BY <4>2, <3>3, <2>1
    <3>7. doc.loaded <= tails[j].block.first
      <4> HIDE DEF tails, m
      <4> QED BY <3>5, <3>6, <1>1, <2>2
    <3>8. ASSUME NEW i \in 1 .. j - 1, Axis(tails[i]) = Axis(tails[j])
          PROVE  tails[i].block.last <= tails[j].block.first
      <4>1. i <= m
        BY <3>2, <3>8
      <4>2. CASE i = m
        BY <4>2, <3>6
      <4>3. CASE i < m
        <5>0. i \in 1 .. m - 1
          <6> HIDE DEF tails, m, before
          <6> QED BY <3>4, <3>8, <4>3, <2>2, <1>1
        <5>1. tails[i].block.last <= tails[m].block.first
          <6> HIDE DEF tails, m, before
          <6> QED BY <3>5, <3>4, <3>8, <5>0
        <5>2. tails[m].block.first <= tails[m].block.last
          BY <3>5
        <5>3. i \in 1 .. Len(tails)
          BY <3>8, <2>2, <1>1
        <5> HIDE DEF tails, m
        <5>4. /\ tails[i].block.last \in Nat
              /\ tails[m].block.first \in Nat /\ tails[m].block.last \in Nat
              /\ tails[j].block.first \in Nat
          BY <5>3, <3>6, <2>2, <1>1
        <5>5. tails[m].block.last <= tails[j].block.first
          BY <3>6
        <5>6. \A a, b, c, d \in Nat : a <= b /\ b <= c /\ c <= d => a <= d
          OBVIOUS
        <5> QED BY <5>1, <5>2, <5>4, <5>5, <5>6
      <4>4. i = m \/ i < m
        <5> HIDE DEF tails, m, before
        <5> QED BY <4>1, <3>4, <3>8, <2>2, <1>1
      <4> QED BY <4>2, <4>3, <4>4
    <3> QED BY <2>1, <3>7, <3>8
  <2> QED BY <2>3, <2>4
<1>5. \A j \in 1 .. Len(tails) : Good(j)
  <2> DEFINE Bad == {j \in 1 .. Len(tails) : ~Good(j)}
  <2>1. SUFFICES ASSUME Bad # {} PROVE FALSE
    OBVIOUS
  <2>2. Bad \subseteq Nat
    BY <1>1
  <2>3. PICK j \in Bad : \A k \in Bad : j <= k
    <3> HIDE DEF Bad
    <3> QED BY <2>1, <2>2, LeastElement
  <2>4. j \in 1 .. Len(tails) /\ ~Good(j)
    OBVIOUS
  <2>5. \A k \in 1 .. j - 1 : Good(k)
    <3> SUFFICES ASSUME NEW k \in 1 .. j - 1, ~Good(k) PROVE FALSE
      OBVIOUS
    <3>1. k \in 1 .. Len(tails)
      BY <2>4, <1>1
    <3>2. k \in Bad
      BY <3>1
    <3> HIDE DEF Good
    <3> QED BY <3>2, <2>3, <2>4, <1>1
  <2>6. j \in 1 .. n \/ j \in n + 1 .. Len(tails)
    BY <2>4, <1>1
  <2> HIDE DEF Good
  <2> QED BY <2>4, <2>5, <2>6, <1>3, <1>4
<1> DEFINE new == [doc EXCEPT !.revision = revision, !.tails = @ \o batch]
<1>6. new.tails = tails /\ new.loaded = doc.loaded
  BY DEF Documents
<1>7. DOMAIN tails = 1 .. Len(tails)
  <2> HIDE DEF tails
  <2> QED BY <1>1
<1> HIDE DEF tails, new
<1>8. Ordered(new)
  <2>1. \A i, j \in 1 .. Len(tails) : i < j => i \in 1 .. j - 1
    BY <1>1
  <2> QED BY <1>5, <1>6, <1>7, <2>1 DEF Ordered
<1> QED BY <1>8 DEF new

-----------------------------------------------------------------------------
\* A block of a command that may be offered is one of Blocks.
LEMMA NumberedType ==
  ASSUME NEW batch \in Batches, NEW target \in Revisions,
         commands \in 0 .. MaxCommands, commands < MaxCommands
  PROVE  Numbered(batch, target) \in Seq(Blocks)
<1>1. batch \in Seq(CurveTailBlocks)
  BY AppendAssumption
<1>2. commands + 1 \in 1 .. MaxCommands
  BY AppendAssumption
<1>3. \A i \in 1 .. Len(batch) :
        [block |-> batch[i], command |-> commands + 1, target |-> target] \in Blocks
  BY <1>1, <1>2 DEF Blocks
<1>4. DOMAIN batch = 1 .. Len(batch) /\ Len(batch) \in Nat
  BY <1>1
<1>5. Numbered(batch, target) \in [1 .. Len(batch) -> Blocks]
  BY <1>3, <1>4 DEF Numbered
<1> HIDE DEF Blocks
<1> QED BY <1>4, <1>5

(***************************************************************************)
(* A commit of an accepted batch, or of none by a patch, keeps the types   *)
(* and the order of the document and of the history.                       *)
(***************************************************************************)
DocumentTypeOK ==
  /\ document \in Documents \cup {None}
  /\ undo \in Seq(Entries)
  /\ redo \in Seq(Entries)

LEMMA CommitKeeps ==
  ASSUME NEW batch \in Seq(Blocks), NEW revision \in Revisions,
         DocumentTypeOK, OrderInv, document # None,
         Accepts(document, batch) \/ batch = <<>>,
         Commit(batch, revision)
  PROVE  DocumentTypeOK' /\ OrderInv' /\ document' # None
<1>1. document \in Documents /\ Ordered(document)
  BY DEF DocumentTypeOK, OrderInv, AxesOrdered
<1> DEFINE new == [document EXCEPT !.revision = revision, !.tails = @ \o batch]
<1>2. document' = new
  BY DEF Commit
<1>3. /\ new.revision = revision /\ new.loaded = document.loaded
      /\ new.tails = document.tails \o batch /\ new \in Documents
  <2>1. document.tails \in Seq(Blocks)
    BY <1>1 DEF Documents
  <2>2. document.tails \o batch \in Seq(Blocks)
    BY <2>1
  <2> QED BY <1>1, <2>2 DEF Documents
<1>4. Ordered(new)
  <2>1. CASE Accepts(document, batch)
    BY <2>1, <1>1, AcceptedKeepsOrder
  <2>2. CASE batch = <<>>
    <3>1. new.tails = document.tails
      BY <2>2, <1>1, <1>3 DEF Documents
    <3> HIDE DEF new
    <3> QED BY <3>1, <1>3, <1>1 DEF Ordered
  <2> QED BY <2>1, <2>2
<1> DEFINE entry == [before |-> document, after |-> document']
<1> HIDE DEF new
<1>5. entry \in Entries /\ entry.before = document /\ entry.after = new
  BY <1>1, <1>2, <1>3 DEF Entries
<1>6. undo' = Append(undo, entry) /\ redo' = <<>>
  BY DEF Commit
<1> HIDE DEF entry
<1>7. undo' \in Seq(Entries) /\ redo' \in Seq(Entries)
  BY <1>5, <1>6 DEF DocumentTypeOK
<1>8. OrderedHistory(undo')
  <2> SUFFICES ASSUME NEW k \in DOMAIN undo'
               PROVE  Ordered(undo'[k].before) /\ Ordered(undo'[k].after)
    BY DEF OrderedHistory
  <2>1. CASE k = Len(undo) + 1
    <3>1. undo'[k] = entry
      BY <2>1, <1>6 DEF DocumentTypeOK
    <3> QED BY <3>1, <1>5, <1>1, <1>4
  <2>2. CASE k # Len(undo) + 1
    <3>1. k \in DOMAIN undo /\ undo'[k] = undo[k]
      BY <2>2, <1>6 DEF DocumentTypeOK
    <3> QED BY <3>1 DEF OrderInv, OrderedHistory
  <2> QED BY <2>1, <2>2
<1>9. OrderedHistory(redo')
  BY <1>6 DEF OrderedHistory
<1>10. document' # None /\ AxesOrdered'
  <2>1. Ordered(document')
    BY <1>2, <1>4
  <2>2. document' # None
    BY <1>2, <1>3, NoneIsNoDocument
  <2> QED BY <2>1, <2>2 DEF AxesOrdered, Ordered, Axis
<1>11. OrderInv'
  BY <1>8, <1>9, <1>10 DEF OrderInv, OrderedHistory, Ordered, Axis
<1> QED BY <1>2, <1>3, <1>7, <1>10, <1>11 DEF DocumentTypeOK

\* A step that leaves document and history alone keeps what is said of them.
LEMMA NoCommitKeeps ==
  ASSUME DocumentTypeOK, OrderInv, NoCommit
  PROVE  DocumentTypeOK' /\ OrderInv'
BY DEF DocumentTypeOK, OrderInv, NoCommit, AxesOrdered, OrderedHistory, Ordered, Axis

\* The type of what the flushes and appends change, besides the document.
CoalescerTypeOK ==
  /\ staged \in Seq(Blocks)
  /\ has_last_flush \in BOOLEAN
  /\ elapsed \in BOOLEAN

(***************************************************************************)
(* A flush empties the coalescer; it commits in order, or changes nothing. *)
(***************************************************************************)
LEMMA FlushKeeps ==
  ASSUME NEW blocks \in Seq(Blocks), DocumentTypeOK, OrderInv, CoalescerTypeOK,
         document # None, Flush(blocks)
  PROVE  /\ DocumentTypeOK' /\ OrderInv' /\ CoalescerTypeOK'
         /\ document' # None /\ staged' = <<>>
         /\ Commits(blocks) => has_last_flush' /\ ~elapsed'
         /\ ~Commits(blocks) =>
              has_last_flush' = has_last_flush /\ elapsed' = elapsed
<1>1. staged' = <<>>
  BY DEF Flush
<1>2. CASE Commits(blocks)
  <2>1. document.revision \in Revisions
    BY DEF DocumentTypeOK, Documents
  <2>2. NextRevision \in Revisions
    BY <2>1, <1>2, AppendAssumption DEF Commits, NextRevision, Revisions
  <2>3. /\ Accepts(document, blocks) /\ Commit(blocks, NextRevision)
        /\ has_last_flush' = TRUE /\ elapsed' = FALSE
    BY <1>2 DEF Flush, Commits
  <2>4. DocumentTypeOK' /\ OrderInv' /\ document' # None
    BY <2>2, <2>3, CommitKeeps
  <2>5. CoalescerTypeOK'
    <3>1. <<>> \in Seq(Blocks)
      OBVIOUS
    <3>2. staged' \in Seq(Blocks)
      BY <1>1, <3>1
    <3>3. has_last_flush' \in BOOLEAN /\ elapsed' \in BOOLEAN
      BY <2>3
    <3> QED BY <3>2, <3>3 DEF CoalescerTypeOK
  <2>6. has_last_flush' /\ ~elapsed'
    BY <2>3
  <2> QED BY <1>1, <1>2, <2>4, <2>5, <2>6
<1>3. CASE ~Commits(blocks)
  <2>1. NoCommit /\ UNCHANGED <<has_last_flush, elapsed>>
    BY <1>3 DEF Flush
  <2>2. DocumentTypeOK' /\ OrderInv'
    BY <2>1, NoCommitKeeps
  <2> QED BY <1>1, <1>3, <2>1, <2>2 DEF CoalescerTypeOK, NoCommit
<1> QED BY <1>2, <1>3

-----------------------------------------------------------------------------
(***************************************************************************)
(* Undo and redo: the newest entry of one stack moves to the other.        *)
(***************************************************************************)
LEMMA StackMoves ==
  ASSUME NEW from \in Seq(Entries), NEW to \in Seq(Entries), from # <<>>,
         OrderedHistory(from), OrderedHistory(to)
  PROVE  /\ Newest(from) \in Entries
         /\ WithoutNewest(from) \in Seq(Entries)
         /\ Append(to, Newest(from)) \in Seq(Entries)
         /\ OrderedHistory(WithoutNewest(from))
         /\ OrderedHistory(Append(to, Newest(from)))
         /\ Ordered(Newest(from).before) /\ Ordered(Newest(from).after)
         /\ Newest(from).before \in Documents /\ Newest(from).after \in Documents
         /\ Newest(from).before # None /\ Newest(from).after # None
<1>1. Len(from) \in DOMAIN from /\ Newest(from) \in Entries
  BY DEF Newest
<1>2. /\ WithoutNewest(from) \in Seq(Entries)
      /\ \A k \in DOMAIN WithoutNewest(from) :
           k \in DOMAIN from /\ WithoutNewest(from)[k] = from[k]
  BY DEF WithoutNewest
<1>3. Ordered(Newest(from).before) /\ Ordered(Newest(from).after)
  BY <1>1 DEF OrderedHistory, Newest
<1>4. /\ Newest(from).before \in Documents /\ Newest(from).after \in Documents
      /\ Newest(from).before # None /\ Newest(from).after # None
  BY <1>1, NoneIsNoDocument DEF Entries
<1>5. OrderedHistory(WithoutNewest(from))
  BY <1>2 DEF OrderedHistory
<1>6. Append(to, Newest(from)) \in Seq(Entries)
  BY <1>1
<1>7. OrderedHistory(Append(to, Newest(from)))
  <2> SUFFICES ASSUME NEW k \in DOMAIN Append(to, Newest(from))
               PROVE  /\ Ordered(Append(to, Newest(from))[k].before)
                      /\ Ordered(Append(to, Newest(from))[k].after)
    BY DEF OrderedHistory
  <2>1. CASE k = Len(to) + 1
    <3>1. Append(to, Newest(from))[k] = Newest(from)
      BY <2>1
    <3> QED BY <3>1, <1>3
  <2>2. CASE k # Len(to) + 1
    <3>1. k \in DOMAIN to /\ Append(to, Newest(from))[k] = to[k]
      BY <2>2
    <3> QED BY <3>1 DEF OrderedHistory
  <2> QED BY <2>1, <2>2
<1> QED BY <1>1, <1>2, <1>3, <1>4, <1>5, <1>6, <1>7

-----------------------------------------------------------------------------
LEMMA InitAInv == Init => AInv
<1> SUFFICES ASSUME Init PROVE AInv
  OBVIOUS
<1>1. TypeOK
  <2>1. <<>> \in Seq(Blocks) /\ <<>> \in Seq(Entries)
    OBVIOUS
  <2>2. 0 \in 0 .. MaxCommands
    BY AppendAssumption
  <2> QED BY <2>1, <2>2 DEF Init, TypeOK, Returns
<1>2. OrderInv
  BY DEF Init, OrderInv, AxesOrdered, OrderedHistory
<1>3. RefreshInv /\ StagingInv
  BY DEF Init, RefreshInv, StagingInv, RefreshRateKept, StagedAfterFirstFlush
<1> QED BY <1>1, <1>2, <1>3 DEF AInv

\* The parts of the type invariant the other lemmas speak of.
OtherTypeOK ==
  /\ rate \in Rates \cup {0}
  /\ commands \in 0 .. MaxCommands
  /\ refreshes \in Nat
  /\ passed \in SUBSET (Nat \X Nat)
  /\ told \in Returns

LEMMA TypeParts == TypeOK <=> DocumentTypeOK /\ CoalescerTypeOK /\ OtherTypeOK
BY DEF TypeOK, DocumentTypeOK, CoalescerTypeOK, OtherTypeOK

LEMMA CommandIsNat ==
  ASSUME NEW blocks \in Seq(Blocks), NEW i \in DOMAIN blocks
  PROVE  blocks[i].command \in Nat
<1>1. blocks[i] \in Blocks
  OBVIOUS
<1> QED BY <1>1 DEF Blocks

LEMMA NextAInv ==
  ASSUME AInv, [Next]_vars
  PROVE  AInv'
<1>0. /\ DocumentTypeOK /\ CoalescerTypeOK /\ OtherTypeOK
      /\ OrderInv /\ RefreshInv /\ StagingInv
  BY TypeParts DEF AInv
<1> SUFFICES /\ DocumentTypeOK' /\ CoalescerTypeOK' /\ OtherTypeOK'
             /\ OrderInv' /\ RefreshInv' /\ StagingInv'
  BY TypeParts DEF AInv, TypeOK, DocumentTypeOK, CoalescerTypeOK, OtherTypeOK
<1>1. ASSUME NEW batch \in Batches, NEW target \in Revisions,
             AppendRefused(batch, target)
      PROVE  /\ DocumentTypeOK' /\ CoalescerTypeOK' /\ OtherTypeOK'
             /\ OrderInv' /\ RefreshInv' /\ StagingInv'
  <2>1. DocumentTypeOK' /\ OrderInv'
    BY <1>0, <1>1, NoCommitKeeps DEF AppendRefused
  <2>2. OtherTypeOK' /\ CoalescerTypeOK'
    BY <1>0, <1>1, AppendAssumption
       DEF AppendRefused, Offer, Outcome, OtherTypeOK, CoalescerTypeOK, coalescer,
           Returns
  <2>3. RefreshInv' /\ StagingInv'
    BY <1>0, <1>1
       DEF AppendRefused, NoCommit, coalescer, RefreshInv, StagingInv,
           RefreshRateKept, StagedAfterFirstFlush
  <2> QED BY <2>1, <2>2, <2>3
<1>2. ASSUME NEW batch \in Batches, NEW target \in Revisions,
             AppendNow(batch, target)
      PROVE  /\ DocumentTypeOK' /\ CoalescerTypeOK' /\ OtherTypeOK'
             /\ OrderInv' /\ RefreshInv' /\ StagingInv'
  <2>1. Numbered(batch, target) \in Seq(Blocks)
    BY <1>0, <1>2, NumberedType DEF AppendNow, Offer, OtherTypeOK
  <2>2. DocumentTypeOK' /\ OrderInv' /\ document' # None
    BY <1>0, <1>2, <2>1, CommitKeeps DEF AppendNow, IsLater
  <2> DEFINE pairs == {<<commands + 1, staged[j].command>> : j \in DOMAIN staged}
  <2>5. passed' \in SUBSET (Nat \X Nat)
    <3>1. staged \in Seq(Blocks) /\ commands + 1 \in Nat /\ passed \in SUBSET (Nat \X Nat)
      BY <1>0, AppendAssumption DEF CoalescerTypeOK, OtherTypeOK
    <3>2. pairs \in SUBSET (Nat \X Nat)
      BY <3>1, CommandIsNat
    <3>3. passed' = passed \cup pairs
      BY <1>2 DEF AppendNow
    <3> HIDE DEF pairs
    <3> QED BY <3>1, <3>2, <3>3
  <2>3. OtherTypeOK' /\ CoalescerTypeOK'
    BY <1>0, <1>2, <2>5, AppendAssumption
       DEF AppendNow, Offer, Outcome, OtherTypeOK, CoalescerTypeOK, coalescer,
           Returns
  <2>4. RefreshInv' /\ StagingInv'
    BY <1>0, <1>2, <2>2
       DEF AppendNow, coalescer, RefreshInv, StagingInv, RefreshRateKept,
           StagedAfterFirstFlush
  <2> QED BY <2>2, <2>3, <2>4
<1>3. ASSUME NEW batch \in Batches, NEW target \in Revisions,
             AppendStaged(batch, target)
      PROVE  /\ DocumentTypeOK' /\ CoalescerTypeOK' /\ OtherTypeOK'
             /\ OrderInv' /\ RefreshInv' /\ StagingInv'
  <2>1. Numbered(batch, target) \in Seq(Blocks)
    BY <1>0, <1>3, NumberedType DEF AppendStaged, Offer, OtherTypeOK
  <2>2. DocumentTypeOK' /\ OrderInv'
    BY <1>0, <1>3, NoCommitKeeps DEF AppendStaged
  <2>3. OtherTypeOK' /\ CoalescerTypeOK'
    BY <1>0, <1>3, <2>1, AppendAssumption
       DEF AppendStaged, Offer, Outcome, OtherTypeOK, CoalescerTypeOK, Returns
  <2>4. RefreshInv' /\ StagingInv'
    BY <1>0, <1>3
       DEF AppendStaged, IsLater, Due, NoCommit, RefreshInv, StagingInv,
           RefreshRateKept, StagedAfterFirstFlush
  <2> QED BY <2>2, <2>3, <2>4
<1>4. ASSUME NEW batch \in Batches, NEW target \in Revisions,
             AppendFlushes(batch, target)
      PROVE  /\ DocumentTypeOK' /\ CoalescerTypeOK' /\ OtherTypeOK'
             /\ OrderInv' /\ RefreshInv' /\ StagingInv'
  <2> DEFINE blocks == staged \o Numbered(batch, target)
  <2>1. blocks \in Seq(Blocks)
    <3>1. Numbered(batch, target) \in Seq(Blocks)
      BY <1>0, <1>4, NumberedType DEF AppendFlushes, Offer, OtherTypeOK
    <3> QED BY <3>1, <1>0 DEF CoalescerTypeOK
  <2>2. /\ document # None /\ Flush(blocks) /\ Due
        /\ refreshes' = IF Commits(blocks) THEN refreshes + 1 ELSE refreshes
    BY <1>4 DEF AppendFlushes, IsLater
  <2> HIDE DEF blocks
  <2>3. /\ DocumentTypeOK' /\ OrderInv' /\ CoalescerTypeOK'
        /\ document' # None /\ staged' = <<>>
        /\ Commits(blocks) => has_last_flush' /\ ~elapsed'
        /\ ~Commits(blocks) =>
             has_last_flush' = has_last_flush /\ elapsed' = elapsed
    BY <1>0, <2>1, <2>2, FlushKeeps
  <2>4. OtherTypeOK'
    BY <1>0, <1>4, <2>2, AppendAssumption
       DEF AppendFlushes, Offer, Outcome, OtherTypeOK, Returns
  <2>5. RefreshInv'
    <3>1. refreshes = 1 => ~Due
      BY <1>0 DEF RefreshInv, Due
    <3> QED BY <1>0, <2>2, <2>3, <3>1 DEF RefreshInv, RefreshRateKept, OtherTypeOK
  <2>6. StagingInv'
    BY <2>3 DEF StagingInv, StagedAfterFirstFlush
  <2> QED BY <2>3, <2>4, <2>5, <2>6
<1>5. ASSUME PollFlushes
      PROVE  /\ DocumentTypeOK' /\ CoalescerTypeOK' /\ OtherTypeOK'
             /\ OrderInv' /\ RefreshInv' /\ StagingInv'
  <2>1. /\ document # None /\ Flush(staged) /\ elapsed
        /\ refreshes' = IF Commits(staged) THEN refreshes + 1 ELSE refreshes
        /\ staged \in Seq(Blocks)
    BY <1>0, <1>5 DEF PollFlushes, StagingInv, CoalescerTypeOK
  <2>2. /\ DocumentTypeOK' /\ OrderInv' /\ CoalescerTypeOK'
        /\ document' # None /\ staged' = <<>>
        /\ Commits(staged) => has_last_flush' /\ ~elapsed'
        /\ ~Commits(staged) =>
             has_last_flush' = has_last_flush /\ elapsed' = elapsed
    BY <1>0, <2>1, FlushKeeps
  <2>3. OtherTypeOK'
    BY <1>0, <1>5, <2>1 DEF PollFlushes, OtherTypeOK, Returns
  <2>4. RefreshInv'
    BY <1>0, <2>1, <2>2 DEF RefreshInv, RefreshRateKept, OtherTypeOK
  <2>5. StagingInv'
    BY <2>2 DEF StagingInv, StagedAfterFirstFlush
  <2> QED BY <2>2, <2>3, <2>4, <2>5
<1>6. ASSUME FlushNow
      PROVE  /\ DocumentTypeOK' /\ CoalescerTypeOK' /\ OtherTypeOK'
             /\ OrderInv' /\ RefreshInv' /\ StagingInv'
  <2>1. document # None /\ Flush(staged) /\ staged \in Seq(Blocks)
    BY <1>0, <1>6 DEF FlushNow, StagingInv, CoalescerTypeOK
  <2>2. /\ DocumentTypeOK' /\ OrderInv' /\ CoalescerTypeOK'
        /\ document' # None /\ staged' = <<>>
        /\ Commits(staged) => has_last_flush' /\ ~elapsed'
        /\ ~Commits(staged) =>
             has_last_flush' = has_last_flush /\ elapsed' = elapsed
    BY <1>0, <2>1, FlushKeeps
  <2>3. OtherTypeOK'
    BY <1>0, <1>6 DEF FlushNow, Outcome, OtherTypeOK, Returns
  <2>4. RefreshInv'
    BY <1>0, <1>6, <2>2 DEF FlushNow, RefreshInv, RefreshRateKept
  <2>5. StagingInv'
    BY <2>2 DEF StagingInv, StagedAfterFirstFlush
  <2> QED BY <2>2, <2>3, <2>4, <2>5
<1>7. ASSUME FlushNothing
      PROVE  /\ DocumentTypeOK' /\ CoalescerTypeOK' /\ OtherTypeOK'
             /\ OrderInv' /\ RefreshInv' /\ StagingInv'
  <2>1. DocumentTypeOK' /\ OrderInv'
    BY <1>0, <1>7, NoCommitKeeps DEF FlushNothing, NoCommit
  <2> QED BY <1>0, <1>7, <2>1
       DEF FlushNothing, Outcome, OtherTypeOK, CoalescerTypeOK, coalescer, Returns,
           RefreshInv, StagingInv, RefreshRateKept, StagedAfterFirstFlush
<1>8. ASSUME NEW revision \in Revisions, NEW loaded \in Depths,
             SetDocument(revision, loaded)
      PROVE  /\ DocumentTypeOK' /\ CoalescerTypeOK' /\ OtherTypeOK'
             /\ OrderInv' /\ RefreshInv' /\ StagingInv'
  <2> DEFINE doc == [revision |-> revision, loaded |-> loaded, tails |-> <<>>]
  <2>1. doc \in Documents /\ doc.tails = <<>>
    BY DEF Documents
  <2>2. document' = doc /\ UNCHANGED <<undo, redo>>
    BY <1>8 DEF SetDocument
  <2> HIDE DEF doc
  <2>3. Ordered(document')
    BY <2>1, <2>2 DEF Ordered
  <2>4. DocumentTypeOK' /\ document' # None
    BY <1>0, <2>1, <2>2, NoneIsNoDocument DEF DocumentTypeOK
  <2>5. OrderInv'
    BY <1>0, <2>2, <2>3 DEF OrderInv, AxesOrdered, OrderedHistory, Ordered, Axis
  <2>6. OtherTypeOK' /\ CoalescerTypeOK'
    BY <1>0, <1>8, AppendAssumption
       DEF SetDocument, OtherTypeOK, CoalescerTypeOK, coalescer
  <2>7. RefreshInv' /\ StagingInv'
    BY <1>0, <1>8, <2>4
       DEF SetDocument, coalescer, RefreshInv, StagingInv, RefreshRateKept,
           StagedAfterFirstFlush
  <2> QED BY <2>4, <2>5, <2>6, <2>7
<1>9. ASSUME ApplyPatch
      PROVE  /\ DocumentTypeOK' /\ CoalescerTypeOK' /\ OtherTypeOK'
             /\ OrderInv' /\ RefreshInv' /\ StagingInv'
  <2>1. document \in Documents /\ document.revision \in Revisions
    BY <1>0, <1>9 DEF ApplyPatch, DocumentTypeOK, Documents
  <2>2. NextRevision \in Revisions
    BY <2>1, <1>9, AppendAssumption DEF ApplyPatch, NextRevision, Revisions
  <2>3. <<>> \in Seq(Blocks)
    OBVIOUS
  <2>4. DocumentTypeOK' /\ OrderInv' /\ document' # None
    BY <1>0, <1>9, <2>2, <2>3, CommitKeeps DEF ApplyPatch
  <2>5. OtherTypeOK' /\ CoalescerTypeOK'
    BY <1>0, <1>9, AppendAssumption
       DEF ApplyPatch, OtherTypeOK, CoalescerTypeOK, coalescer
  <2>6. RefreshInv' /\ StagingInv'
    BY <1>0, <1>9, <2>4
       DEF ApplyPatch, coalescer, RefreshInv, StagingInv, RefreshRateKept,
           StagedAfterFirstFlush
  <2> QED BY <2>4, <2>5, <2>6
<1>10. ASSUME Undo
       PROVE  /\ DocumentTypeOK' /\ CoalescerTypeOK' /\ OtherTypeOK'
              /\ OrderInv' /\ RefreshInv' /\ StagingInv'
  <2>1. /\ undo \in Seq(Entries) /\ redo \in Seq(Entries) /\ undo # <<>>
        /\ OrderedHistory(undo) /\ OrderedHistory(redo)
    BY <1>0, <1>10 DEF Undo, DocumentTypeOK, OrderInv
  <2>2. /\ document' = Newest(undo).before
        /\ undo' = WithoutNewest(undo) /\ redo' = Append(redo, Newest(undo))
    BY <1>10 DEF Undo
  <2>3. /\ document' \in Documents /\ document' # None /\ Ordered(document')
        /\ undo' \in Seq(Entries) /\ redo' \in Seq(Entries)
        /\ OrderedHistory(undo') /\ OrderedHistory(redo')
    BY <2>1, <2>2, StackMoves
  <2>4. DocumentTypeOK' /\ document' # None
    BY <2>3 DEF DocumentTypeOK
  <2>5. OrderInv'
    BY <2>3 DEF OrderInv, AxesOrdered, OrderedHistory, Ordered, Axis
  <2> QED BY <1>0, <1>10, <2>4, <2>5
       DEF Undo, OtherTypeOK, CoalescerTypeOK, coalescer, RefreshInv, StagingInv,
           RefreshRateKept, StagedAfterFirstFlush
<1>11. ASSUME Redo
       PROVE  /\ DocumentTypeOK' /\ CoalescerTypeOK' /\ OtherTypeOK'
              /\ OrderInv' /\ RefreshInv' /\ StagingInv'
  <2>1. /\ redo \in Seq(Entries) /\ undo \in Seq(Entries) /\ redo # <<>>
        /\ OrderedHistory(redo) /\ OrderedHistory(undo)
    BY <1>0, <1>11 DEF Redo, DocumentTypeOK, OrderInv
  <2>2. /\ document' = Newest(redo).after
        /\ redo' = WithoutNewest(redo) /\ undo' = Append(undo, Newest(redo))
    BY <1>11 DEF Redo
  <2>3. /\ document' \in Documents /\ document' # None /\ Ordered(document')
        /\ redo' \in Seq(Entries) /\ undo' \in Seq(Entries)
        /\ OrderedHistory(redo') /\ OrderedHistory(undo')
    BY <2>1, <2>2, StackMoves
  <2>4. DocumentTypeOK' /\ document' # None
    BY <2>3 DEF DocumentTypeOK
  <2>5. OrderInv'
    BY <2>3 DEF OrderInv, AxesOrdered, OrderedHistory, Ordered, Axis
  <2> QED BY <1>0, <1>11, <2>4, <2>5
       DEF Redo, OtherTypeOK, CoalescerTypeOK, coalescer, RefreshInv, StagingInv,
           RefreshRateKept, StagedAfterFirstFlush
<1>12. ASSUME NEW hz \in Rates, set_performance_budgets(hz)
       PROVE  /\ DocumentTypeOK' /\ CoalescerTypeOK' /\ OtherTypeOK'
              /\ OrderInv' /\ RefreshInv' /\ StagingInv'
  <2>1. DocumentTypeOK' /\ OrderInv'
    BY <1>0, <1>12, NoCommitKeeps DEF set_performance_budgets, NoCommit
  <2> QED BY <1>0, <1>12, <2>1
       DEF set_performance_budgets, OtherTypeOK, CoalescerTypeOK, coalescer,
           RefreshInv, StagingInv, RefreshRateKept, StagedAfterFirstFlush
<1>13. ASSUME Tick
       PROVE  /\ DocumentTypeOK' /\ CoalescerTypeOK' /\ OtherTypeOK'
              /\ OrderInv' /\ RefreshInv' /\ StagingInv'
  <2>1. DocumentTypeOK' /\ OrderInv'
    BY <1>0, <1>13, NoCommitKeeps DEF Tick, NoCommit
  <2> QED BY <1>0, <1>13, <2>1
       DEF Tick, OtherTypeOK, CoalescerTypeOK, RefreshInv, StagingInv,
           RefreshRateKept, StagedAfterFirstFlush
<1>14. ASSUME UNCHANGED vars
       PROVE  /\ DocumentTypeOK' /\ CoalescerTypeOK' /\ OtherTypeOK'
              /\ OrderInv' /\ RefreshInv' /\ StagingInv'
  <2>1. DocumentTypeOK' /\ OrderInv'
    BY <1>0, <1>14, NoCommitKeeps DEF vars, NoCommit
  <2> QED BY <1>0, <1>14, <2>1
       DEF vars, OtherTypeOK, CoalescerTypeOK, coalescer, RefreshInv, StagingInv,
           RefreshRateKept, StagedAfterFirstFlush
<1> QED
  BY <1>1, <1>2, <1>3, <1>4, <1>5, <1>6, <1>7, <1>8, <1>9, <1>10, <1>11, <1>12,
     <1>13, <1>14
  DEF Next

(***************************************************************************)
(* The inductive invariant holds, whatever the host and the clock do.      *)
(***************************************************************************)
THEOREM AppendInvariant == Spec => []AInv
<1>1. AInv /\ [Next]_vars => AInv'
  BY NextAInv
<1> QED BY InitAInv, <1>1, PTL DEF Spec

(***************************************************************************)
(* The coordinates of every axis of the current document are in order,     *)
(* though validate_document does not look at them after an append.         *)
(***************************************************************************)
THEOREM AxesStayOrdered == Spec => []AxesOrdered
<1>1. AInv => AxesOrdered
  BY DEF AInv, OrderInv
<1> QED BY AppendInvariant, <1>1, PTL

(***************************************************************************)
(* A stream makes at most one revision in each refresh interval.           *)
(***************************************************************************)
THEOREM RefreshRateHolds == Spec => []RefreshRateKept
<1>1. AInv => RefreshRateKept
  BY DEF AInv, RefreshInv
<1> QED BY AppendInvariant, <1>1, PTL

(***************************************************************************)
(* poll_async looks at every coalescer that has something staged.          *)
(***************************************************************************)
THEOREM StagedIsPolled == Spec => []StagedAfterFirstFlush
<1>1. AInv => StagedAfterFirstFlush
  BY DEF AInv, StagingInv
<1> QED BY AppendInvariant, <1>1, PTL

-----------------------------------------------------------------------------
(***************************************************************************)
(* Batches side by side.                                                   *)
(***************************************************************************)
LEMMA Concatenated ==
  ASSUME NEW blocks \in Seq(Blocks), NEW more \in Seq(Blocks)
  PROVE  /\ blocks \o more \in Seq(Blocks)
         /\ Len(blocks) \in Nat /\ Len(more) \in Nat
         /\ Len(blocks \o more) = Len(blocks) + Len(more)
         /\ DOMAIN blocks = 1 .. Len(blocks) /\ DOMAIN more = 1 .. Len(more)
         /\ DOMAIN (blocks \o more) = 1 .. Len(blocks) + Len(more)
         /\ \A i \in 1 .. Len(blocks) : (blocks \o more)[i] = blocks[i]
         /\ \A i \in 1 .. Len(more) : (blocks \o more)[Len(blocks) + i] = more[i]
OBVIOUS

\* A position of a concatenation is one of the first or of the second part.
LEMMA PartOf ==
  ASSUME NEW m \in Nat, NEW n \in Nat, NEW i \in 1 .. m + n
  PROVE  i \in 1 .. m \/ \E j \in 1 .. n : i = m + j
<1>1. CASE i <= m
  BY <1>1
<1>2. CASE ~(i <= m)
  <2>1. i - m \in 1 .. n /\ i = m + (i - m)
    BY <1>2
  <2> QED BY <2>1
<1> QED BY <1>1, <1>2

\* Whole batches of different commands are whole side by side.
LEMMA WholeTogether ==
  ASSUME NEW blocks \in Seq(Blocks), NEW more \in Seq(Blocks),
         WholeBatches(blocks), WholeBatches(more), Apart(blocks, more)
  PROVE  WholeBatches(blocks \o more)
<1> DEFINE all == blocks \o more
           m == Len(blocks)
           n == Len(more)
<1>1. /\ m \in Nat /\ n \in Nat /\ Len(all) = m + n
      /\ DOMAIN blocks = 1 .. m /\ DOMAIN more = 1 .. n /\ DOMAIN all = 1 .. m + n
      /\ \A i \in 1 .. m : all[i] = blocks[i]
      /\ \A i \in 1 .. n : all[m + i] = more[i]
  BY Concatenated
<1>2. \A i \in 1 .. m, j \in 1 .. n : blocks[i].command # more[j].command
  BY <1>1 DEF Apart
<1> HIDE DEF all, m, n
<1>3. ASSUME NEW i \in 1 .. m PROVE OneBatch(all[i].command, all)
  <2> DEFINE c == blocks[i].command
  <2>1. PICK batch \in Batches, k \in 0 .. m :
          /\ BroughtBy(c, blocks) = k + 1 .. k + Len(batch)
          /\ \A q \in 1 .. Len(batch) : blocks[k + q].block = batch[q]
    <3>1. OneBatch(c, blocks)
      BY <1>1 DEF WholeBatches
    <3> QED BY <3>1 DEF OneBatch, m
  <2>2. BroughtBy(c, all) = BroughtBy(c, blocks)
    <3>1. ASSUME NEW q \in 1 .. m + n, all[q].command = c
          PROVE  q \in 1 .. m /\ blocks[q].command = c
      <4>1. ASSUME NEW j \in 1 .. n, q = m + j PROVE FALSE
        BY <4>1, <3>1, <1>1, <1>2
      <4>2. q \in 1 .. m
        BY <4>1, <1>1, PartOf
      <4> QED BY <4>2, <3>1, <1>1
    <3>2. ASSUME NEW q \in 1 .. m, blocks[q].command = c
          PROVE  q \in 1 .. m + n /\ all[q].command = c
      BY <3>2, <1>1
    <3> QED BY <3>1, <3>2, <1>1 DEF BroughtBy
  <2>3. Len(batch) \in Nat
    BY AppendAssumption
  <2>4. ASSUME NEW q \in 1 .. Len(batch) PROVE all[k + q].block = batch[q]
    <3>1. k + q \in k + 1 .. k + Len(batch)
      BY <2>3
    <3>2. k + q \in 1 .. m
      BY <3>1, <2>1, <1>1 DEF BroughtBy
    <3> QED BY <3>2, <2>1, <1>1
  <2>5. all[i].command = c /\ k \in 0 .. Len(all)
    BY <1>1
  <2> QED BY <2>1, <2>2, <2>4, <2>5 DEF OneBatch
<1>4. ASSUME NEW j \in 1 .. n PROVE OneBatch(all[m + j].command, all)
  <2> DEFINE c == more[j].command
  <2>1. PICK batch \in Batches, k \in 0 .. n :
          /\ BroughtBy(c, more) = k + 1 .. k + Len(batch)
          /\ \A q \in 1 .. Len(batch) : more[k + q].block = batch[q]
    <3>1. OneBatch(c, more)
      BY <1>1 DEF WholeBatches
    <3> QED BY <3>1 DEF OneBatch, n
  <2>2. Len(batch) \in Nat
    BY AppendAssumption
  <2>3. \A q \in 1 .. n : more[q].command = c <=> q \in k + 1 .. k + Len(batch)
    BY <2>1, <1>1 DEF BroughtBy
  <2>4. k + 1 .. k + Len(batch) \subseteq 1 .. n
    BY <2>1, <1>1 DEF BroughtBy
  <2>5. BroughtBy(c, all) = (m + k) + 1 .. (m + k) + Len(batch)
    <3>1. ASSUME NEW q \in 1 .. m + n, all[q].command = c
          PROVE  q \in (m + k) + 1 .. (m + k) + Len(batch)
      <4>1. ~(q \in 1 .. m)
        BY <3>1, <1>1, <1>2
      <4>2. PICK p \in 1 .. n : q = m + p
        BY <4>1, <1>1, PartOf
      <4>3. p \in k + 1 .. k + Len(batch)
        BY <4>2, <3>1, <2>3, <1>1
      <4> QED BY <4>2, <4>3, <1>1, <2>2
    <3>2. ASSUME NEW q \in (m + k) + 1 .. (m + k) + Len(batch)
          PROVE  q \in 1 .. m + n /\ all[q].command = c
      <4>1. q - m \in k + 1 .. k + Len(batch) /\ q = m + (q - m)
        BY <1>1, <2>2
      <4>2. q - m \in 1 .. n
        BY <4>1, <2>4
      <4>3. more[q - m].command = c
        BY <4>1, <4>2, <2>3
      <4>4. all[m + (q - m)] = more[q - m]
        BY <4>2, <1>1
      <4> QED BY <4>1, <4>2, <4>3, <4>4, <1>1
    <3> QED BY <3>1, <3>2, <1>1 DEF BroughtBy
  <2>6. ASSUME NEW q \in 1 .. Len(batch) PROVE all[(m + k) + q].block = batch[q]
    <3>1. k + q \in k + 1 .. k + Len(batch)
      BY <2>2
    <3>2. k + q \in 1 .. n
      BY <3>1, <2>4
    <3>3. (m + k) + q = m + (k + q)
      BY <1>1, <2>2
    <3> QED BY <3>2, <3>3, <2>1, <1>1
  <2>7. all[m + j].command = c /\ m + k \in 0 .. Len(all)
    BY <1>1
  <2> QED BY <2>5, <2>6, <2>7 DEF OneBatch
<1>5. ASSUME NEW i \in DOMAIN all PROVE OneBatch(all[i].command, all)
  <2>0. i \in 1 .. m + n
    BY <1>1
  <2>1. i \in 1 .. m \/ \E j \in 1 .. n : i = m + j
    BY <2>0, <1>1, PartOf
  <2> QED BY <2>1, <1>3, <1>4
<1>6. WholeBatches(all)
  BY <1>5 DEF WholeBatches
<1> QED BY <1>6 DEF all

\* What is said of each block of two sequences is said of each of both.
LEMMA FromEither ==
  ASSUME NEW blocks \in Seq(Blocks), NEW more \in Seq(Blocks),
         NEW i \in DOMAIN (blocks \o more)
  PROVE  \/ \E j \in DOMAIN blocks : (blocks \o more)[i] = blocks[j]
         \/ \E j \in DOMAIN more : (blocks \o more)[i] = more[j]
<1> DEFINE all == blocks \o more
           m == Len(blocks)
           n == Len(more)
<1>1. /\ m \in Nat /\ n \in Nat
      /\ DOMAIN blocks = 1 .. m /\ DOMAIN more = 1 .. n /\ DOMAIN all = 1 .. m + n
      /\ \A q \in 1 .. m : all[q] = blocks[q]
      /\ \A q \in 1 .. n : all[m + q] = more[q]
  BY Concatenated
<1> HIDE DEF all, m, n
<1>2. i \in 1 .. m + n
  BY <1>1 DEF all
<1>3. i \in 1 .. m \/ \E j \in 1 .. n : i = m + j
  BY <1>1, <1>2, PartOf
<1>4. (\E j \in DOMAIN blocks : all[i] = blocks[j]) \/ (\E j \in DOMAIN more : all[i] = more[j])
  BY <1>1, <1>3
<1> QED BY <1>4 DEF all

LEMMA TogetherUpTo ==
  ASSUME NEW blocks \in Seq(Blocks), NEW more \in Seq(Blocks), NEW n \in Nat,
         UpTo(n, blocks), UpTo(n, more)
  PROVE  UpTo(n, blocks \o more)
BY FromEither DEF UpTo

LEMMA TogetherApart ==
  ASSUME NEW blocks \in Seq(Blocks), NEW more \in Seq(Blocks), NEW others \in Seq(Blocks)
  PROVE  /\ Apart(blocks, others) /\ Apart(more, others) => Apart(blocks \o more, others)
         /\ Apart(others, blocks) /\ Apart(others, more) => Apart(others, blocks \o more)
BY FromEither DEF Apart

\* The blocks of one command are its batch, numbered later than any other.
LEMMA NumberedWhole ==
  ASSUME NEW batch \in Batches, NEW target \in Revisions, commands \in Nat
  PROVE  LET numbered == Numbered(batch, target) IN
         /\ WholeBatches(numbered)
         /\ UpTo(commands + 1, numbered)
         /\ \A i \in DOMAIN numbered : numbered[i].command = commands + 1
<1> DEFINE numbered == Numbered(batch, target)
<1>1. batch \in Seq(CurveTailBlocks) /\ Len(batch) \in Nat /\ DOMAIN batch = 1 .. Len(batch)
  BY AppendAssumption
<1>2. /\ DOMAIN numbered = 1 .. Len(batch)
      /\ \A i \in 1 .. Len(batch) :
           numbered[i].command = commands + 1 /\ numbered[i].block = batch[i]
  BY <1>1 DEF Numbered
<1>3. Len(numbered) = Len(batch)
  <2>1. numbered \in Seq({numbered[i] : i \in 1 .. Len(batch)})
    <3>1. numbered = [i \in 1 .. Len(batch) |-> numbered[i]]
      BY <1>1 DEF Numbered
    <3> HIDE DEF numbered
    <3> QED BY <3>1, <1>1
  <2> HIDE DEF numbered
  <2> QED BY <2>1, <1>1, <1>2
<1> HIDE DEF numbered
<1>4. BroughtBy(commands + 1, numbered) = 0 + 1 .. 0 + Len(batch)
  BY <1>1, <1>2 DEF BroughtBy
<1>5. \A i \in 1 .. Len(batch) : numbered[0 + i].block = batch[i]
  BY <1>1, <1>2
<1>6. OneBatch(commands + 1, numbered)
  <2>1. 0 \in 0 .. Len(numbered)
    BY <1>1, <1>3
  <2> QED BY <2>1, <1>4, <1>5 DEF OneBatch
<1>7. WholeBatches(numbered)
  BY <1>2, <1>6 DEF WholeBatches
<1>8. UpTo(commands + 1, numbered)
  BY <1>2 DEF UpTo
<1> QED BY <1>2, <1>7, <1>8 DEF numbered

-----------------------------------------------------------------------------
(***************************************************************************)
(* The documents that are held.                                            *)
(***************************************************************************)
LEMMA HeldByPushed ==
  ASSUME NEW stack \in Seq(Entries), NEW entry \in Entries
  PROVE  HeldBy(Append(stack, entry)) \subseteq HeldBy(stack) \cup {entry.before, entry.after}
<1> DEFINE pushed == Append(stack, entry)
<1>1. ASSUME NEW k \in DOMAIN pushed
      PROVE  pushed[k] = entry \/ \E q \in DOMAIN stack : pushed[k] = stack[q]
  <2>1. CASE k = Len(stack) + 1
    BY <2>1
  <2>2. CASE k # Len(stack) + 1
    <3>1. k \in DOMAIN stack /\ pushed[k] = stack[k]
      BY <2>2
    <3> QED BY <3>1
  <2> QED BY <2>1, <2>2
<1> HIDE DEF pushed
<1>2. HeldBy(pushed) \subseteq HeldBy(stack) \cup {entry.before, entry.after}
  BY <1>1 DEF HeldBy
<1> QED BY <1>2 DEF pushed

LEMMA HeldByPopped ==
  ASSUME NEW stack \in Seq(Entries), stack # <<>>
  PROVE  /\ HeldBy(WithoutNewest(stack)) \subseteq HeldBy(stack)
         /\ Newest(stack).before \in HeldBy(stack)
         /\ Newest(stack).after \in HeldBy(stack)
         /\ Newest(stack) \in Entries
<1>1. Len(stack) \in DOMAIN stack
  OBVIOUS
<1>2. Newest(stack) \in Entries
  BY <1>1 DEF Newest
<1>3. Newest(stack).before \in HeldBy(stack) /\ Newest(stack).after \in HeldBy(stack)
  BY <1>1 DEF Newest, HeldBy
<1>4. \A k \in DOMAIN WithoutNewest(stack) :
        k \in DOMAIN stack /\ WithoutNewest(stack)[k] = stack[k]
  BY <1>1 DEF WithoutNewest
<1>5. HeldBy(WithoutNewest(stack)) \subseteq HeldBy(stack)
  BY <1>4 DEF HeldBy
<1> QED BY <1>2, <1>3, <1>5

LEMMA HeldIsTyped ==
  ASSUME DocumentTypeOK, NEW doc \in Held
  PROVE  doc \in Documents
<1>1. ASSUME NEW stack \in Seq(Entries), doc \in HeldBy(stack) PROVE doc \in Documents
  <2>1. PICK k \in DOMAIN stack : doc = stack[k].before \/ doc = stack[k].after
    BY <1>1 DEF HeldBy
  <2>2. stack[k] \in Entries
    OBVIOUS
  <2> QED BY <2>1, <2>2 DEF Entries
<1> QED BY <1>1 DEF DocumentTypeOK, Held

\* A commit holds one document more, which has the batch.
LEMMA CommitHolds ==
  ASSUME DocumentTypeOK, document # None, NEW batch \in Seq(Blocks),
         NEW revision \in Revisions, Commit(batch, revision)
  PROVE  /\ document \in Held
         /\ document'.tails = document.tails \o batch
         /\ \A doc \in Held' : doc \in Held \/ doc = document'
<1>1. document \in Documents
  BY DEF DocumentTypeOK
<1>2. document' = [document EXCEPT !.revision = revision, !.tails = @ \o batch]
  BY DEF Commit
<1>3. document'.tails = document.tails \o batch /\ document' \in Documents
  <2>1. document.tails \in Seq(Blocks)
    BY <1>1 DEF Documents
  <2>2. document.tails \o batch \in Seq(Blocks)
    BY <2>1
  <2> QED BY <1>1, <1>2, <2>2 DEF Documents
<1> DEFINE entry == [before |-> document, after |-> document']
<1>4. entry \in Entries /\ entry.before = document /\ entry.after = document'
  BY <1>1, <1>3 DEF Entries
<1>5. undo' = Append(undo, entry) /\ redo' = <<>>
  BY DEF Commit
<1> HIDE DEF entry
<1>6. HeldBy(undo') \subseteq HeldBy(undo) \cup {document, document'}
  BY <1>4, <1>5, HeldByPushed DEF DocumentTypeOK
<1>7. HeldBy(redo') = {}
  BY <1>5 DEF HeldBy
<1>8. Held' = ({document'} \ {None}) \cup HeldBy(undo') \cup HeldBy(redo')
  BY DEF Held, HeldBy
<1> QED BY <1>3, <1>6, <1>7, <1>8 DEF Held

LEMMA UndoHolds == ASSUME DocumentTypeOK, Undo PROVE Held' \subseteq Held
<1>1. /\ undo \in Seq(Entries) /\ redo \in Seq(Entries) /\ undo # <<>>
      /\ document' = Newest(undo).before
      /\ undo' = WithoutNewest(undo) /\ redo' = Append(redo, Newest(undo))
  BY DEF DocumentTypeOK, Undo
<1>2. /\ HeldBy(undo') \subseteq HeldBy(undo) /\ document' \in HeldBy(undo)
      /\ HeldBy(redo') \subseteq HeldBy(redo) \cup HeldBy(undo)
  BY <1>1, HeldByPopped, HeldByPushed
<1>3. Held' = ({document'} \ {None}) \cup HeldBy(undo') \cup HeldBy(redo')
  BY DEF Held, HeldBy
<1> QED BY <1>2, <1>3 DEF Held

LEMMA RedoHolds == ASSUME DocumentTypeOK, Redo PROVE Held' \subseteq Held
<1>1. /\ undo \in Seq(Entries) /\ redo \in Seq(Entries) /\ redo # <<>>
      /\ document' = Newest(redo).after
      /\ redo' = WithoutNewest(redo) /\ undo' = Append(undo, Newest(redo))
  BY DEF DocumentTypeOK, Redo
<1>2. /\ HeldBy(redo') \subseteq HeldBy(redo) /\ document' \in HeldBy(redo)
      /\ HeldBy(undo') \subseteq HeldBy(undo) \cup HeldBy(redo)
  BY <1>1, HeldByPopped, HeldByPushed
<1>3. Held' = ({document'} \ {None}) \cup HeldBy(undo') \cup HeldBy(redo')
  BY DEF Held, HeldBy
<1> QED BY <1>2, <1>3 DEF Held

\* What else becomes of the documents: nothing, or one without tails comes.
LEMMA OthersHold ==
  ASSUME UNCHANGED <<undo, redo>>,
         document' = document \/ (document' # None /\ document'.tails = <<>>)
  PROVE  \A doc \in Held' : doc \in Held \/ doc.tails = <<>>
BY DEF Held, HeldBy

-----------------------------------------------------------------------------
(***************************************************************************)
(* What the steps do to the batches.                                       *)
(***************************************************************************)
LEMMA BatchInvNext ==
  ASSUME \A doc \in Held' :
           WholeBatches(doc.tails) /\ UpTo(commands', doc.tails) /\ Apart(doc.tails, staged'),
         WholeBatches(staged'), UpTo(commands', staged')
  PROVE  BatchInv'
BY DEF BatchInv, WholeBatches, OneBatch, BroughtBy, UpTo, Apart

LEMMA NoBlocks ==
  ASSUME NEW blocks, NEW n, NEW exceptions
  PROVE  /\ WholeBatches(<<>>) /\ UpTo(n, <<>>) /\ InOrder(<<>>, exceptions)
         /\ Apart(blocks, <<>>) /\ Apart(<<>>, blocks)
         /\ Before(blocks, <<>>, exceptions) /\ Before(<<>>, blocks, exceptions)
BY DEF WholeBatches, UpTo, InOrder, Apart, Before

LEMMA LaterCommand ==
  ASSUME NEW blocks \in Seq(Blocks), NEW m \in Nat, NEW n \in Nat, m <= n, UpTo(m, blocks)
  PROVE  UpTo(n, blocks)
BY CommandIsNat DEF UpTo

\* The blocks of a new command are not those of an earlier one.
LEMMA NewApart ==
  ASSUME NEW blocks \in Seq(Blocks), NEW others, NEW n \in Nat, UpTo(n, blocks),
         \A i \in DOMAIN others : others[i].command = n + 1
  PROVE  Apart(blocks, others) /\ Before(blocks, others, {})
BY CommandIsNat DEF UpTo, Apart, Before

(***************************************************************************)
(* A step that commits nothing: it may drop what is staged.                *)
(***************************************************************************)
LEMMA RestKeepsBatches ==
  ASSUME DocumentTypeOK, CoalescerTypeOK, BatchInv, commands \in Nat, commands' \in Nat,
         commands <= commands', staged' = staged \/ staged' = <<>>,
         \A doc \in Held' : doc \in Held \/ doc.tails = <<>>
  PROVE  BatchInv'
<1>1. WholeBatches(staged') /\ UpTo(commands', staged')
  BY NoBlocks, LaterCommand DEF BatchInv, CoalescerTypeOK
<1>2. ASSUME NEW doc \in Held'
      PROVE  WholeBatches(doc.tails) /\ UpTo(commands', doc.tails) /\ Apart(doc.tails, staged')
  <2>1. CASE doc.tails = <<>>
    BY <2>1, NoBlocks
  <2>2. CASE doc \in Held
    <3>1. doc.tails \in Seq(Blocks)
      BY <2>2, HeldIsTyped DEF Documents
    <3> QED BY <2>2, <3>1, NoBlocks, LaterCommand DEF BatchInv
  <2> QED BY <1>2, <2>1, <2>2
<1> QED BY <1>1, <1>2, BatchInvNext

(***************************************************************************)
(* The blocks a new command brings, and what is staged with them.          *)
(***************************************************************************)
Brings(numbered) ==
  /\ numbered \in Seq(Blocks)
  /\ WholeBatches(numbered)
  /\ UpTo(commands + 1, numbered)
  /\ \A i \in DOMAIN numbered : numbered[i].command = commands + 1

LEMMA OfferBrings ==
  ASSUME OtherTypeOK, NEW batch \in Batches, NEW target \in Revisions, Offer
  PROVE  /\ Brings(Numbered(batch, target))
         /\ commands \in Nat /\ commands' = commands + 1
<1>1. commands \in 0 .. MaxCommands /\ commands < MaxCommands /\ commands' = commands + 1
  BY DEF OtherTypeOK, Offer
<1>2. Numbered(batch, target) \in Seq(Blocks)
  BY <1>1, NumberedType
<1>3. commands \in Nat
  BY <1>1
<1> QED BY <1>1, <1>2, <1>3, NumberedWhole DEF Brings

LEMMA MergedBatch ==
  ASSUME DocumentTypeOK, CoalescerTypeOK, BatchInv, commands \in Nat,
         NEW numbered, Brings(numbered)
  PROVE  LET merged == staged \o numbered IN
         /\ merged \in Seq(Blocks)
         /\ WholeBatches(merged)
         /\ UpTo(commands + 1, merged)
         /\ \A doc \in Held : Apart(doc.tails, numbered) /\ Apart(doc.tails, merged)
<1> DEFINE merged == staged \o numbered
<1>1. /\ staged \in Seq(Blocks) /\ UpTo(commands, staged) /\ WholeBatches(staged)
      /\ numbered \in Seq(Blocks) /\ WholeBatches(numbered) /\ UpTo(commands + 1, numbered)
      /\ \A i \in DOMAIN numbered : numbered[i].command = commands + 1
  BY DEF CoalescerTypeOK, BatchInv, Brings
<1>2. merged \in Seq(Blocks) /\ WholeBatches(merged)
  <2>1. Apart(staged, numbered)
    BY <1>1, NewApart
  <2> QED BY <1>1, <2>1, WholeTogether, Concatenated
<1>3. UpTo(commands + 1, merged)
  BY <1>1, LaterCommand, TogetherUpTo
<1>4. ASSUME NEW doc \in Held PROVE Apart(doc.tails, numbered) /\ Apart(doc.tails, merged)
  <2>1. doc.tails \in Seq(Blocks)
    BY HeldIsTyped DEF Documents
  <2>2. UpTo(commands, doc.tails) /\ Apart(doc.tails, staged)
    BY DEF BatchInv
  <2>3. Apart(doc.tails, numbered)
    BY <1>1, <2>1, <2>2, NewApart
  <2> QED BY <1>1, <2>1, <2>2, <2>3, TogetherApart
<1> QED BY <1>2, <1>3, <1>4

\* A step that stages the blocks of a new command.
LEMMA StagingKeepsBatches ==
  ASSUME DocumentTypeOK, CoalescerTypeOK, BatchInv, commands \in Nat,
         commands' = commands + 1, NEW numbered, Brings(numbered),
         staged' = staged \o numbered, Held' = Held
  PROVE  BatchInv'
<1>1. WholeBatches(staged') /\ UpTo(commands', staged')
  BY MergedBatch
<1>2. ASSUME NEW doc \in Held'
      PROVE  WholeBatches(doc.tails) /\ UpTo(commands', doc.tails) /\ Apart(doc.tails, staged')
  <2>1. doc \in Held /\ doc.tails \in Seq(Blocks)
    BY <1>2, HeldIsTyped DEF Documents
  <2>2. WholeBatches(doc.tails) /\ UpTo(commands, doc.tails)
    BY <2>1 DEF BatchInv
  <2>3. Apart(doc.tails, staged')
    BY <2>1, MergedBatch
  <2>4. UpTo(commands', doc.tails)
    BY <2>1, <2>2, LaterCommand
  <2> QED BY <2>2, <2>3, <2>4
<1> QED BY <1>1, <1>2, BatchInvNext

(***************************************************************************)
(* A commit of blocks that no document holds yet; what stays staged is not *)
(* among them.                                                             *)
(***************************************************************************)
LEMMA CommitKeepsBatches ==
  ASSUME DocumentTypeOK, CoalescerTypeOK, BatchInv, document # None,
         commands \in Nat, commands' \in Nat, commands <= commands',
         NEW batch \in Seq(Blocks), NEW revision \in Revisions, Commit(batch, revision),
         WholeBatches(batch), UpTo(commands', batch),
         \A doc \in Held : Apart(doc.tails, batch),
         staged' = <<>> \/ (staged' = staged /\ Apart(batch, staged))
  PROVE  BatchInv'
<1>1. /\ document \in Held /\ document'.tails = document.tails \o batch
      /\ \A doc \in Held' : doc \in Held \/ doc = document'
  BY CommitHolds
<1>2. staged \in Seq(Blocks) /\ UpTo(commands, staged) /\ WholeBatches(staged)
  BY DEF CoalescerTypeOK, BatchInv
<1>3. WholeBatches(staged') /\ UpTo(commands', staged')
  BY <1>2, NoBlocks, LaterCommand
<1>4. ASSUME NEW doc \in Held
      PROVE  /\ doc.tails \in Seq(Blocks) /\ WholeBatches(doc.tails)
             /\ UpTo(commands', doc.tails) /\ Apart(doc.tails, staged')
  <2>1. doc.tails \in Seq(Blocks)
    BY HeldIsTyped DEF Documents
  <2>2. WholeBatches(doc.tails) /\ UpTo(commands, doc.tails) /\ Apart(doc.tails, staged)
    BY DEF BatchInv
  <2> QED BY <2>1, <2>2, NoBlocks, LaterCommand
<1>5. /\ WholeBatches(document'.tails) /\ UpTo(commands', document'.tails)
      /\ Apart(document'.tails, staged')
  <2>1. WholeBatches(document'.tails)
    BY <1>1, <1>4, WholeTogether
  <2>2. UpTo(commands', document'.tails)
    BY <1>1, <1>4, TogetherUpTo
  <2>3. Apart(document'.tails, staged')
    <3>1. Apart(batch, staged')
      BY NoBlocks
    <3>0. <<>> \in Seq(Blocks)
      OBVIOUS
    <3>2. staged' \in Seq(Blocks)
      BY <3>0, <1>2
    <3> QED BY <3>1, <3>2, <1>1, <1>4, TogetherApart
  <2> QED BY <2>1, <2>2, <2>3
<1> QED BY <1>1, <1>3, <1>4, <1>5, BatchInvNext

\* A flush commits what it was given or drops it.
LEMMA FlushKeepsBatches ==
  ASSUME DocumentTypeOK, CoalescerTypeOK, BatchInv, document # None,
         commands \in Nat, commands' \in Nat, commands <= commands',
         NEW blocks \in Seq(Blocks), Flush(blocks),
         WholeBatches(blocks), UpTo(commands', blocks),
         \A doc \in Held : Apart(doc.tails, blocks)
  PROVE  BatchInv'
<1>1. staged' = <<>>
  BY DEF Flush
<1>2. CASE Commits(blocks)
  <2>1. document.revision \in Revisions
    BY DEF DocumentTypeOK, Documents
  <2>2. NextRevision \in Revisions
    BY <2>1, <1>2, AppendAssumption DEF Commits, NextRevision, Revisions
  <2>3. Commit(blocks, NextRevision)
    BY <1>2 DEF Flush
  <2> QED BY <1>1, <2>2, <2>3, CommitKeepsBatches
<1>3. CASE ~Commits(blocks)
  <2>1. UNCHANGED <<document, undo, redo>>
    BY <1>3 DEF Flush, NoCommit
  <2> QED BY <1>1, <2>1, OthersHold, RestKeepsBatches
<1> QED BY <1>2, <1>3

LEMMA NextBatchInv ==
  ASSUME AInv, BatchInv, [Next]_vars
  PROVE  BatchInv'
<1>0. /\ DocumentTypeOK /\ CoalescerTypeOK /\ OtherTypeOK /\ StagingInv
      /\ commands \in Nat
  BY TypeParts DEF AInv, OtherTypeOK
<1>1. ASSUME NEW batch \in Batches, NEW target \in Revisions,
             AppendRefused(batch, target)
      PROVE  BatchInv'
  <2>1. /\ UNCHANGED <<document, undo, redo>> /\ staged' = staged
        /\ commands' = commands + 1
    BY <1>1 DEF AppendRefused, NoCommit, Offer, coalescer
  <2> QED BY <1>0, <2>1, OthersHold, RestKeepsBatches
<1>2. ASSUME NEW batch \in Batches, NEW target \in Revisions,
             AppendNow(batch, target)
      PROVE  BatchInv'
  <2> DEFINE numbered == Numbered(batch, target)
  <2>1. /\ Offer /\ document # None /\ Commit(numbered, target) /\ staged' = staged
    BY <1>2 DEF AppendNow, IsLater, coalescer
  <2>2. Brings(numbered) /\ commands' = commands + 1
    BY <1>0, <2>1, OfferBrings
  <2> HIDE DEF numbered
  <2>3. \A doc \in Held : Apart(doc.tails, numbered)
    BY <1>0, <2>2, MergedBatch
  <2>4. Apart(numbered, staged)
    <3>1. Apart(staged, numbered)
      BY <1>0, <2>2, NewApart DEF CoalescerTypeOK, BatchInv, Brings
    <3> QED BY <3>1 DEF Apart
  <2> QED BY <1>0, <2>1, <2>2, <2>3, <2>4, CommitKeepsBatches DEF Brings
<1>3. ASSUME NEW batch \in Batches, NEW target \in Revisions,
             AppendStaged(batch, target)
      PROVE  BatchInv'
  <2>1. /\ Offer /\ UNCHANGED <<document, undo, redo>>
        /\ staged' = staged \o Numbered(batch, target)
    BY <1>3 DEF AppendStaged, NoCommit
  <2>2. Held' = Held
    BY <2>1 DEF Held, HeldBy
  <2> QED BY <1>0, <2>1, <2>2, OfferBrings, StagingKeepsBatches
<1>4. ASSUME NEW batch \in Batches, NEW target \in Revisions,
             AppendFlushes(batch, target)
      PROVE  BatchInv'
  <2> DEFINE numbered == Numbered(batch, target)
             merged == staged \o numbered
  <2>1. Offer /\ document # None /\ Flush(merged)
    BY <1>4 DEF AppendFlushes, IsLater
  <2>2. Brings(numbered) /\ commands' = commands + 1
    BY <1>0, <2>1, OfferBrings
  <2> HIDE DEF numbered
  <2>3. /\ merged \in Seq(Blocks) /\ WholeBatches(merged) /\ UpTo(commands + 1, merged)
        /\ \A doc \in Held : Apart(doc.tails, merged)
    BY <1>0, <2>2, MergedBatch
  <2> HIDE DEF merged
  <2> QED BY <1>0, <2>1, <2>2, <2>3, FlushKeepsBatches
<1>5. ASSUME PollFlushes \/ FlushNow PROVE BatchInv'
  <2>1. document # None /\ Flush(staged) /\ commands' = commands
    BY <1>0, <1>5 DEF PollFlushes, FlushNow, StagingInv
  <2>2. /\ staged \in Seq(Blocks) /\ WholeBatches(staged) /\ UpTo(commands, staged)
        /\ \A doc \in Held : Apart(doc.tails, staged)
    BY <1>0 DEF CoalescerTypeOK, BatchInv
  <2> QED BY <1>0, <2>1, <2>2, FlushKeepsBatches
<1>6. ASSUME NEW revision \in Revisions, NEW loaded \in Depths,
             SetDocument(revision, loaded)
      PROVE  BatchInv'
  <2> DEFINE doc == [revision |-> revision, loaded |-> loaded, tails |-> <<>>]
  <2>1. /\ doc \in Documents /\ doc.tails = <<>>
    BY DEF Documents
  <2>2. /\ document' = doc /\ UNCHANGED <<undo, redo>> /\ staged' = staged
        /\ commands' = commands + 1
    BY <1>6 DEF SetDocument, coalescer
  <2> HIDE DEF doc
  <2>3. document' # None /\ document'.tails = <<>>
    BY <2>1, <2>2, NoneIsNoDocument
  <2> QED BY <1>0, <2>2, <2>3, OthersHold, RestKeepsBatches
<1>7. ASSUME ApplyPatch PROVE BatchInv'
  <2> DEFINE none == <<>>
  <2>1. /\ document # None /\ Commit(none, NextRevision) /\ NextRevision # 0
        /\ staged' = staged /\ commands' = commands + 1
    BY <1>7 DEF ApplyPatch, coalescer
  <2>2. document.revision \in Revisions
    BY <1>0, <2>1 DEF DocumentTypeOK, Documents
  <2>3. NextRevision \in Revisions
    BY <2>1, <2>2, AppendAssumption DEF NextRevision, Revisions
  <2>4. none \in Seq(Blocks)
    OBVIOUS
  <2>5. /\ WholeBatches(none) /\ UpTo(commands', none) /\ Apart(none, staged)
        /\ \A doc \in Held : Apart(doc.tails, none)
    BY NoBlocks
  <2> HIDE DEF none
  <2> QED BY <1>0, <2>1, <2>3, <2>4, <2>5, CommitKeepsBatches
<1>8. ASSUME Undo \/ Redo PROVE BatchInv'
  <2>1. Held' \subseteq Held
    BY <1>0, <1>8, UndoHolds, RedoHolds
  <2>2. staged' = staged /\ commands' = commands
    BY <1>8 DEF Undo, Redo, coalescer
  <2> QED BY <1>0, <2>1, <2>2, RestKeepsBatches
<1>9. ASSUME \/ FlushNothing \/ Tick \/ UNCHANGED vars
             \/ \E hz \in Rates : set_performance_budgets(hz)
      PROVE  BatchInv'
  <2>1. UNCHANGED <<document, undo, redo, staged, commands>>
    BY <1>9 DEF FlushNothing, Tick, vars, set_performance_budgets, coalescer
  <2> QED BY <1>0, <2>1, OthersHold, RestKeepsBatches
<1> QED
  BY <1>1, <1>2, <1>3, <1>4, <1>5, <1>6, <1>7, <1>8, <1>9 DEF Next

LEMMA InitBatchInv == Init => BatchInv
<1> SUFFICES ASSUME Init PROVE BatchInv
  OBVIOUS
<1>1. Held = {} /\ staged = <<>>
  BY DEF Init, Held, HeldBy
<1> QED BY <1>1, NoBlocks DEF BatchInv

(***************************************************************************)
(* Every batch is whole, at every rate, in the document and in those that  *)
(* undo and redo bring back, whatever it was merged or dropped with.       *)
(***************************************************************************)
THEOREM BatchesStayWhole == Spec => [](BatchInv /\ BatchesKeptWhole)
<1>1. AInv /\ BatchInv /\ [Next]_vars => BatchInv'
  BY NextBatchInv
<1>2. BatchInv => BatchesKeptWhole
  <2> SUFFICES ASSUME BatchInv, NEW n \in 1 .. commands, BroughtBy(n, Kept) # {}
               PROVE  OneBatch(n, Kept) /\ BroughtBy(n, staged) = {}
    BY DEF BatchesKeptWhole
  <2>1. PICK i \in DOMAIN Kept : Kept[i].command = n
    BY DEF BroughtBy
  <2>2. document \in Held /\ Kept = document.tails
    BY <2>1 DEF Kept, Held
  <2>3. WholeBatches(Kept) /\ Apart(Kept, staged)
    BY <2>2 DEF BatchInv
  <2> QED BY <2>1, <2>3 DEF WholeBatches, Apart, BroughtBy
<1> QED BY InitBatchInv, AppendInvariant, <1>1, <1>2, PTL DEF Spec

-----------------------------------------------------------------------------
(***************************************************************************)
(* The order of the commands.                                              *)
(***************************************************************************)
LEMMA MoreExceptions ==
  ASSUME NEW exceptions, NEW more, exceptions \subseteq more, NEW blocks, NEW others
  PROVE  /\ InOrder(blocks, exceptions) => InOrder(blocks, more)
         /\ Before(blocks, others, exceptions) => Before(blocks, others, more)
BY DEF InOrder, Before

LEMMA TogetherInOrder ==
  ASSUME NEW blocks \in Seq(Blocks), NEW more \in Seq(Blocks), NEW exceptions,
         InOrder(blocks, exceptions), InOrder(more, exceptions),
         Before(blocks, more, exceptions)
  PROVE  InOrder(blocks \o more, exceptions)
<1> DEFINE all == blocks \o more
           m == Len(blocks)
           n == Len(more)
           Follow(b, c) == b.command <= c.command \/ <<b.command, c.command>> \in exceptions
<1>1. /\ m \in Nat /\ n \in Nat
      /\ DOMAIN blocks = 1 .. m /\ DOMAIN more = 1 .. n /\ DOMAIN all = 1 .. m + n
      /\ \A q \in 1 .. m : all[q] = blocks[q]
      /\ \A q \in 1 .. n : all[m + q] = more[q]
  BY Concatenated
<1>2. /\ \A i \in 1 .. m : blocks[i].command \in Nat
      /\ \A i \in 1 .. n : more[i].command \in Nat
  BY <1>1, CommandIsNat
<1> HIDE DEF all, m, n
<1>3. ASSUME NEW i \in 1 .. m + n, NEW j \in 1 .. m + n, i < j
      PROVE  Follow(all[i], all[j])
  <2>1. CASE i \in 1 .. m /\ j \in 1 .. m
    BY <2>1, <1>1, <1>3 DEF InOrder
  <2>2. ASSUME NEW q \in 1 .. n, j = m + q PROVE Follow(all[i], all[j])
    <3>1. all[j] = more[q]
      BY <2>2, <1>1
    <3>2. CASE i \in 1 .. m
      <4>1. /\ all[i] = blocks[i]
            /\ \/ blocks[i].command < more[q].command
               \/ <<blocks[i].command, more[q].command>> \in exceptions
        BY <3>2, <1>1 DEF Before
      <4> QED BY <4>1, <3>1, <3>2, <1>2
    <3>3. ASSUME NEW p \in 1 .. n, i = m + p PROVE Follow(all[i], all[j])
      <4>1. all[i] = more[p] /\ p < q
        BY <3>3, <2>2, <1>1, <1>3
      <4> QED BY <4>1, <3>1, <1>1 DEF InOrder
    <3> QED BY <3>2, <3>3, <1>1, PartOf
  <2>3. CASE j \notin 1 .. m
    <3>1. \E q \in 1 .. n : j = m + q
      BY <2>3, <1>1, PartOf
    <3> QED BY <3>1, <2>2
  <2>4. i \in 1 .. m \/ j \notin 1 .. m
    BY <1>1, <1>3
  <2> QED BY <2>1, <2>3, <2>4
<1>4. InOrder(all, exceptions)
  BY <1>1, <1>3 DEF InOrder
<1> QED BY <1>4 DEF all

LEMMA TogetherBefore ==
  ASSUME NEW blocks \in Seq(Blocks), NEW more \in Seq(Blocks), NEW others \in Seq(Blocks),
         NEW exceptions
  PROVE  /\ Before(others, blocks, exceptions) /\ Before(others, more, exceptions)
              => Before(others, blocks \o more, exceptions)
         /\ Before(blocks, others, exceptions) /\ Before(more, others, exceptions)
              => Before(blocks \o more, others, exceptions)
BY FromEither DEF Before

\* The blocks of one command are in order, and after those before it.
LEMMA MergedInOrder ==
  ASSUME DocumentTypeOK, CoalescerTypeOK, BatchInv, SequenceInv, commands \in Nat,
         NEW numbered, Brings(numbered)
  PROVE  LET merged == staged \o numbered IN
         /\ InOrder(numbered, {}) /\ InOrder(merged, {})
         /\ \A doc \in Held :
              Before(doc.tails, numbered, {}) /\ Before(doc.tails, merged, passed)
<1> DEFINE merged == staged \o numbered
<1>1. /\ staged \in Seq(Blocks) /\ UpTo(commands, staged) /\ InOrder(staged, {})
      /\ numbered \in Seq(Blocks)
      /\ \A i \in DOMAIN numbered : numbered[i].command = commands + 1
  BY DEF CoalescerTypeOK, BatchInv, SequenceInv, Brings
<1>2. InOrder(numbered, {})
  BY <1>1 DEF InOrder
<1>3. InOrder(merged, {})
  <2>1. Before(staged, numbered, {})
    BY <1>1, NewApart
  <2> QED BY <1>1, <1>2, <2>1, TogetherInOrder
<1>4. ASSUME NEW doc \in Held
      PROVE  Before(doc.tails, numbered, {}) /\ Before(doc.tails, merged, passed)
  <2>1. doc.tails \in Seq(Blocks)
    BY HeldIsTyped DEF Documents
  <2>2. UpTo(commands, doc.tails) /\ Before(doc.tails, staged, passed)
    BY DEF BatchInv, SequenceInv
  <2>3. Before(doc.tails, numbered, {})
    BY <1>1, <2>1, <2>2, NewApart
  <2>4. Before(doc.tails, numbered, passed)
    BY <2>3, MoreExceptions
  <2> QED BY <1>1, <2>1, <2>2, <2>3, <2>4, TogetherBefore
<1> QED BY <1>2, <1>3, <1>4

LEMMA SequenceInvNext ==
  ASSUME InOrder(staged', {}),
         \A doc \in Held' :
           InOrder(doc.tails, passed') /\ Before(doc.tails, staged', passed')
  PROVE  SequenceInv'
BY DEF SequenceInv, InOrder, Before

LEMMA RestKeepsOrder ==
  ASSUME SequenceInv, staged' = staged \/ staged' = <<>>, passed' = passed,
         \A doc \in Held' : doc \in Held \/ doc.tails = <<>>
  PROVE  SequenceInv'
<1>1. InOrder(staged', {})
  BY NoBlocks DEF SequenceInv
<1>2. ASSUME NEW doc \in Held'
      PROVE  InOrder(doc.tails, passed') /\ Before(doc.tails, staged', passed')
  <2>1. CASE doc.tails = <<>>
    BY <2>1, NoBlocks
  <2>2. CASE doc \in Held
    BY <2>2, NoBlocks DEF SequenceInv
  <2> QED BY <1>2, <2>1, <2>2
<1> QED BY <1>1, <1>2, SequenceInvNext

LEMMA CommitKeepsOrder ==
  ASSUME DocumentTypeOK, CoalescerTypeOK, SequenceInv, document # None,
         NEW batch \in Seq(Blocks), NEW revision \in Revisions, Commit(batch, revision),
         InOrder(batch, {}), \A doc \in Held : Before(doc.tails, batch, passed),
         passed \subseteq passed', staged' = <<>> \/ staged' = staged,
         Before(batch, staged', passed')
  PROVE  SequenceInv'
<1>1. /\ document \in Held /\ document'.tails = document.tails \o batch
      /\ \A doc \in Held' : doc \in Held \/ doc = document'
  BY CommitHolds
<1>2. InOrder(staged', {}) /\ staged' \in Seq(Blocks)
  <2>1. CASE staged' = <<>>
    BY <2>1, NoBlocks
  <2>2. CASE staged' = staged
    BY <2>2 DEF SequenceInv, CoalescerTypeOK
  <2> QED BY <2>1, <2>2
<1>3. ASSUME NEW doc \in Held
      PROVE  /\ doc.tails \in Seq(Blocks)
             /\ InOrder(doc.tails, passed') /\ Before(doc.tails, staged', passed')
  <2>1. doc.tails \in Seq(Blocks)
    BY HeldIsTyped DEF Documents
  <2>2. InOrder(doc.tails, passed) /\ Before(doc.tails, staged', passed)
    BY NoBlocks DEF SequenceInv
  <2> QED BY <2>1, <2>2, MoreExceptions
<1>4. InOrder(document'.tails, passed')
  <2>1. InOrder(batch, passed')
    BY MoreExceptions
  <2>2. Before(document.tails, batch, passed')
    BY <1>1, MoreExceptions
  <2> QED BY <1>1, <1>3, <2>1, <2>2, TogetherInOrder
<1>5. Before(document'.tails, staged', passed')
  BY <1>1, <1>2, <1>3, TogetherBefore
<1> QED BY <1>1, <1>2, <1>3, <1>4, <1>5, SequenceInvNext

LEMMA FlushKeepsOrder ==
  ASSUME DocumentTypeOK, CoalescerTypeOK, SequenceInv, document # None,
         NEW blocks \in Seq(Blocks), Flush(blocks), InOrder(blocks, {}),
         \A doc \in Held : Before(doc.tails, blocks, passed), passed' = passed
  PROVE  SequenceInv'
<1>1. staged' = <<>>
  BY DEF Flush
<1>2. CASE Commits(blocks)
  <2>1. document.revision \in Revisions
    BY DEF DocumentTypeOK, Documents
  <2>2. NextRevision \in Revisions
    BY <2>1, <1>2, AppendAssumption DEF Commits, NextRevision, Revisions
  <2>3. Commit(blocks, NextRevision)
    BY <1>2 DEF Flush
  <2>4. Before(blocks, staged', passed')
    BY <1>1, NoBlocks
  <2> QED BY <1>1, <2>2, <2>3, <2>4, CommitKeepsOrder
<1>3. CASE ~Commits(blocks)
  <2>1. UNCHANGED <<document, undo, redo>>
    BY <1>3 DEF Flush, NoCommit
  <2> QED BY <1>1, <2>1, OthersHold, RestKeepsOrder
<1> QED BY <1>2, <1>3

LEMMA NextSequenceInv ==
  ASSUME AInv, BatchInv, SequenceInv, [Next]_vars
  PROVE  SequenceInv'
<1>0. /\ DocumentTypeOK /\ CoalescerTypeOK /\ OtherTypeOK /\ StagingInv
      /\ commands \in Nat
  BY TypeParts DEF AInv, OtherTypeOK
<1>1. ASSUME NEW batch \in Batches, NEW target \in Revisions,
             AppendRefused(batch, target)
      PROVE  SequenceInv'
  <2>1. UNCHANGED <<document, undo, redo, staged, passed>>
    BY <1>1 DEF AppendRefused, NoCommit, Offer, coalescer
  <2> QED BY <2>1, OthersHold, RestKeepsOrder
<1>2. ASSUME NEW batch \in Batches, NEW target \in Revisions,
             AppendNow(batch, target)
      PROVE  SequenceInv'
  <2> DEFINE numbered == Numbered(batch, target)
  <2>1. /\ Offer /\ document # None /\ Commit(numbered, target)
        /\ staged' = staged
        /\ passed' = passed \cup {<<commands + 1, staged[j].command>> : j \in DOMAIN staged}
    BY <1>2 DEF AppendNow, IsLater, coalescer, Offer
  <2>2. Brings(numbered)
    BY <1>0, <2>1, OfferBrings
  <2> HIDE DEF numbered
  <2>3. InOrder(numbered, {}) /\ \A doc \in Held : Before(doc.tails, numbered, passed)
    BY <1>0, <2>2, MergedInOrder, MoreExceptions
  <2>4. Before(numbered, staged', passed')
    BY <2>1, <2>2 DEF Brings, Before
  <2> QED BY <1>0, <2>1, <2>2, <2>3, <2>4, CommitKeepsOrder DEF Brings
<1>3. ASSUME NEW batch \in Batches, NEW target \in Revisions,
             AppendStaged(batch, target)
      PROVE  SequenceInv'
  <2> DEFINE numbered == Numbered(batch, target)
  <2>1. /\ Offer /\ UNCHANGED <<document, undo, redo, passed>>
        /\ staged' = staged \o numbered
    BY <1>3 DEF AppendStaged, NoCommit, Offer
  <2>2. Brings(numbered)
    BY <1>0, <2>1, OfferBrings
  <2> HIDE DEF numbered
  <2>3. InOrder(staged', {}) /\ \A doc \in Held : Before(doc.tails, staged', passed)
    BY <1>0, <2>1, <2>2, MergedInOrder
  <2>4. Held' = Held
    BY <2>1 DEF Held, HeldBy
  <2>5. \A doc \in Held' :
          InOrder(doc.tails, passed') /\ Before(doc.tails, staged', passed')
    BY <2>1, <2>3, <2>4 DEF SequenceInv
  <2> QED BY <2>1, <2>3, <2>5, SequenceInvNext
<1>4. ASSUME NEW batch \in Batches, NEW target \in Revisions,
             AppendFlushes(batch, target)
      PROVE  SequenceInv'
  <2> DEFINE numbered == Numbered(batch, target)
             merged == staged \o numbered
  <2>1. Offer /\ document # None /\ Flush(merged) /\ passed' = passed
    BY <1>4 DEF AppendFlushes, IsLater, Offer
  <2>2. Brings(numbered)
    BY <1>0, <2>1, OfferBrings
  <2> HIDE DEF numbered
  <2>3. /\ merged \in Seq(Blocks) /\ InOrder(merged, {})
        /\ \A doc \in Held : Before(doc.tails, merged, passed)
    BY <1>0, <2>2, MergedBatch, MergedInOrder
  <2> HIDE DEF merged
  <2> QED BY <1>0, <2>1, <2>3, FlushKeepsOrder
<1>5. ASSUME PollFlushes \/ FlushNow PROVE SequenceInv'
  <2>1. document # None /\ Flush(staged) /\ passed' = passed
    BY <1>0, <1>5 DEF PollFlushes, FlushNow, StagingInv
  <2>2. /\ staged \in Seq(Blocks) /\ InOrder(staged, {})
        /\ \A doc \in Held : Before(doc.tails, staged, passed)
    BY <1>0 DEF CoalescerTypeOK, SequenceInv
  <2> QED BY <1>0, <2>1, <2>2, FlushKeepsOrder
<1>6. ASSUME NEW revision \in Revisions, NEW loaded \in Depths,
             SetDocument(revision, loaded)
      PROVE  SequenceInv'
  <2> DEFINE doc == [revision |-> revision, loaded |-> loaded, tails |-> <<>>]
  <2>1. /\ doc \in Documents /\ doc.tails = <<>>
    BY DEF Documents
  <2>2. document' = doc /\ UNCHANGED <<undo, redo, staged, passed>>
    BY <1>6 DEF SetDocument, coalescer
  <2> HIDE DEF doc
  <2>3. document' # None /\ document'.tails = <<>>
    BY <2>1, <2>2, NoneIsNoDocument
  <2> QED BY <2>2, <2>3, OthersHold, RestKeepsOrder
<1>7. ASSUME ApplyPatch PROVE SequenceInv'
  <2> DEFINE none == <<>>
  <2>1. /\ document # None /\ Commit(none, NextRevision) /\ NextRevision # 0
        /\ staged' = staged /\ passed' = passed
    BY <1>7 DEF ApplyPatch, coalescer
  <2>2. document.revision \in Revisions
    BY <1>0, <2>1 DEF DocumentTypeOK, Documents
  <2>3. NextRevision \in Revisions
    BY <2>1, <2>2, AppendAssumption DEF NextRevision, Revisions
  <2>4. none \in Seq(Blocks)
    OBVIOUS
  <2>5. none = <<>> /\ InOrder(none, {}) /\ Before(none, staged', passed')
        /\ \A doc \in Held : Before(doc.tails, none, passed)
    BY NoBlocks
  <2> HIDE DEF none
  <2> QED BY <1>0, <2>1, <2>3, <2>4, <2>5, CommitKeepsOrder
<1>8. ASSUME Undo \/ Redo PROVE SequenceInv'
  <2>1. Held' \subseteq Held
    BY <1>0, <1>8, UndoHolds, RedoHolds
  <2>2. staged' = staged /\ passed' = passed
    BY <1>8 DEF Undo, Redo, coalescer
  <2> QED BY <2>1, <2>2, RestKeepsOrder
<1>9. ASSUME FlushNothing \/ Tick \/ UNCHANGED vars PROVE SequenceInv'
  <2>1. UNCHANGED <<document, undo, redo, staged, passed>>
    BY <1>9 DEF FlushNothing, Tick, vars, coalescer
  <2> QED BY <2>1, OthersHold, RestKeepsOrder
<1>10. ASSUME NEW hz \in Rates, set_performance_budgets(hz) PROVE SequenceInv'
  <2>1. UNCHANGED <<document, undo, redo, staged, passed>>
    BY <1>10 DEF set_performance_budgets, coalescer
  <2> QED BY <2>1, OthersHold, RestKeepsOrder
<1> QED
  BY <1>1, <1>2, <1>3, <1>4, <1>5, <1>6, <1>7, <1>8, <1>9, <1>10 DEF Next

(***************************************************************************)
(* And the batches are in the order of their commands: a merge, a late     *)
(* flush or an undo does not swap them, only an append at rate 0 passes    *)
(* what is staged.                                                         *)
(***************************************************************************)
THEOREM BatchesStayInOrder == Spec => []EveryBatchWhole
<1>1. Init => SequenceInv
  <2> SUFFICES ASSUME Init PROVE SequenceInv
    OBVIOUS
  <2>1. Held = {} /\ staged = <<>>
    BY DEF Init, Held, HeldBy
  <2> QED BY <2>1, NoBlocks DEF SequenceInv
<1>2. AInv /\ BatchInv /\ SequenceInv /\ [Next]_vars => SequenceInv'
  BY NextSequenceInv
<1>3. BatchInv /\ SequenceInv /\ BatchesKeptWhole => EveryBatchWhole
  <2> SUFFICES ASSUME SequenceInv PROVE InOrder(Kept, passed) /\ InOrder(staged, {})
    BY DEF EveryBatchWhole
  <2>1. InOrder(Kept, passed)
    BY NoBlocks DEF Kept, Held, SequenceInv
  <2> QED BY <2>1 DEF SequenceInv
<1> QED BY AppendInvariant, BatchesStayWhole, <1>1, <1>2, <1>3, PTL DEF Spec
=============================================================================
