----------------------- MODULE DocumentHistory_proofs -----------------------
(***************************************************************************)
(* For any documents, presentations, viewports and selections and a        *)
(* history of any bound: the entries of the history form a chain through   *)
(* the current document (HistoryIsAChain), every selection is tagged with  *)
(* the revision of its document (SelectionMatchesDocument), and the        *)
(* history implements UndoTimeline (TimelinePromise).                      *)
(***************************************************************************)
EXTENDS DocumentHistory, SessionSlot_proofs, SequenceTheorems

(***************************************************************************)
(* The inductive invariant.  The chain and the tags need each other's      *)
(* types, the typing of a finished frame needs the sound slot, and an      *)
(* empty session has nothing to undo and nothing selected.                 *)
(***************************************************************************)
HInv ==
  /\ TypeOK
  /\ SlotOK(slot)
  /\ slot.document = None => undo = <<>> /\ redo = <<>> /\ selection = None
  /\ HistoryIsAChain
  /\ SelectionMatchesDocument

USE SlotAssumption, HistoryAssumption

-----------------------------------------------------------------------------
(***************************************************************************)
(* Taking the newest element of a stack, and pushing one.                  *)
(***************************************************************************)
LEMMA PopOK ==
  ASSUME NEW S, NEW stack \in Seq(S), stack # <<>>
  PROVE  /\ Len(stack) \in Nat \ {0}
         /\ Newest(stack) \in S
         /\ WithoutNewest(stack) \in Seq(S)
         /\ Len(WithoutNewest(stack)) = Len(stack) - 1
         /\ \A k \in 1 .. Len(stack) - 1 : WithoutNewest(stack)[k] = stack[k]
  <1>1. Len(stack) \in Nat \ {0} /\ DOMAIN stack = 1 .. Len(stack)
    BY EmptySeq, LenProperties
  <1>2. Newest(stack) \in S
    BY <1>1, ElementOfSeq DEF Newest
  <1>3. /\ WithoutNewest(stack) \in Seq(S)
        /\ Len(WithoutNewest(stack)) = Len(stack) - 1
        /\ \A k \in 1 .. Len(stack) - 1 : WithoutNewest(stack)[k] = stack[k]
    BY <1>1 DEF WithoutNewest
  <1>4. QED
    BY <1>1, <1>2, <1>3

\* The pushed element is the newest, the others stay where they are.
LEMMA PushOK ==
  ASSUME NEW S, NEW stack \in Seq(S), NEW e \in S
  PROVE  /\ Append(stack, e) \in Seq(S)
         /\ Append(stack, e) # <<>>
         /\ Len(stack) \in Nat
         /\ Len(Append(stack, e)) = Len(stack) + 1
         /\ Newest(Append(stack, e)) = e
         /\ Append(stack, e)[Len(stack) + 1] = e
         /\ \A k \in 1 .. Len(stack) : Append(stack, e)[k] = stack[k]
  BY DEF Newest

\* Generation 0 is a generation.
LEMMA NoneAwaited == 0 \in Generations /\ 1 \in Generations
  BY DEF Generations

-----------------------------------------------------------------------------
(***************************************************************************)
(* What the invariant says of the current state and of the entries.        *)
(***************************************************************************)
LEMMA HInvFacts ==
  ASSUME HInv
  PROVE  /\ slot \in Slots(Generations) /\ SlotOK(slot)
         /\ selection \in Selections \cup {None}
         /\ undo \in Seq(Entries) /\ redo \in Seq(Entries)
         /\ slot.document # None => slot.document \in Documents
         /\ slot.document # None => semantic_state \in SemanticStates
         /\ semantic_state.document = slot.document
         /\ semantic_state.selection = selection
  BY DEF HInv, TypeOK, Slots, SemanticStates, semantic_state

EntryOK(e) ==
  /\ e \in Entries
  /\ e.before \in SemanticStates /\ e.after \in SemanticStates
  /\ Tagged(e.before) /\ Tagged(e.after)

\* Both ends of the newest entry are semantic states with tagged selections.
LEMMA EntryFacts ==
  ASSUME HInv
  PROVE  /\ undo # <<>> => EntryOK(Newest(undo))
         /\ redo # <<>> => EntryOK(Newest(redo))
  <1>1. ASSUME undo # <<>> PROVE EntryOK(Newest(undo))
    <2>1. Len(undo) \in DOMAIN undo /\ Newest(undo) \in Entries
      BY <1>1, HInvFacts, PopOK
    <2>2. QED
      BY <2>1 DEF HInv, SelectionMatchesDocument, Entries, EntryOK, Newest
  <1>2. ASSUME redo # <<>> PROVE EntryOK(Newest(redo))
    <2>1. Len(redo) \in DOMAIN redo /\ Newest(redo) \in Entries
      BY <1>2, HInvFacts, PopOK
    <2>2. QED
      BY <2>1 DEF HInv, SelectionMatchesDocument, Entries, EntryOK, Newest
  <1>3. QED
    BY <1>1, <1>2

(***************************************************************************)
(* A step that changes neither the document nor the history, and leaves a  *)
(* selection of the current revision.                                      *)
(***************************************************************************)
LEMMA SameDocumentKeepsHInv ==
  ASSUME HInv, slot.document # None,
         slot' \in Slots(Generations), SlotOK(slot'),
         slot'.document = slot.document,
         selection' \in Selections \cup {None},
         selection' # None => selection'.revision = slot.document.revision,
         NoHistory
  PROVE  HInv'
  <1>1. TypeOK'
    BY DEF HInv, TypeOK, NoHistory
  <1>2. HistoryIsAChain'
    BY DEF HInv, HistoryIsAChain, UndoChain, RedoChain, NoHistory
  <1>3. SelectionMatchesDocument'
    BY DEF HInv, SelectionMatchesDocument, Tagged, semantic_state, NoHistory
  <1>4. QED
    BY <1>1, <1>2, <1>3 DEF HInv

\* The selection after a remap is typed and tagged with the new revision.
LEMMA RemapOK ==
  ASSUME NEW sel \in Selections \cup {None}, NEW doc \in Documents
  PROVE  /\ Remap(sel, doc) \in Selections \cup {None}
         /\ Remap(sel, doc) # None => Remap(sel, doc).revision = doc.revision
  <1>1. doc.revision \in Revisions
    BY DEF Documents
  <1>2. CASE sel = None
    BY <1>2 DEF Remap
  <1>3. CASE sel # None
    <2>. DEFINE valid == sel.range \in Extent[doc.curves]
                new == [sel EXCEPT !.revision = doc.revision, !.valid = valid]
    <2>1. sel \in Selections /\ valid \in BOOLEAN
      BY <1>3
    <2>2. Remap(sel, doc) = new
      BY <1>3 DEF Remap
    <2>. HIDE DEF valid
    <2>3. new \in Selections /\ new.revision = doc.revision
      BY <1>1, <2>1 DEF Selections
    <2>4. QED
      BY <2>2, <2>3
  <1>4. QED
    BY <1>2, <1>3

(***************************************************************************)
(* A step that commits a document and records an entry for it.             *)
(***************************************************************************)
LEMMA RecordedKeepsHInv ==
  ASSUME HInv, slot.document # None, NEW doc \in Documents,
         slot' \in Slots(Generations), SlotOK(slot'), slot'.document = doc,
         selection' = Remap(selection, doc),
         record_new_history, UNCHANGED replaced
  PROVE  HInv'
  <1>. DEFINE e == [before |-> semantic_state, after |-> semantic_state']
  <1>0. /\ selection' \in Selections \cup {None}
        /\ selection' # None => selection'.revision = doc.revision
    BY HInvFacts, RemapOK
  <1>1. semantic_state \in SemanticStates /\ semantic_state' \in SemanticStates
    <2>1. semantic_state' \in SemanticStates
      BY <1>0 DEF semantic_state, SemanticStates, Slots
    <2>2. QED
      BY <2>1, HInvFacts
  <1>2. /\ e \in Entries
        /\ e.before = semantic_state
        /\ e.after = semantic_state'
        /\ undo' = Append(undo, e) /\ redo' = <<>>
    BY <1>1 DEF Entries, record_new_history
  <1>3. /\ e.before.document = slot.document /\ e.after.document = slot'.document
        /\ Tagged(e.before) /\ Tagged(e.after)
    BY <1>0, <1>2 DEF semantic_state, Tagged, HInv, SelectionMatchesDocument
  <1>4. Tagged(semantic_state')
    BY <1>0 DEF semantic_state, Tagged
  <1>. HIDE DEF e
  <1>5. /\ undo' \in Seq(Entries) /\ undo' # <<>>
        /\ Len(undo) \in Nat
        /\ Len(undo') = Len(undo) + 1
        /\ Newest(undo') = e
        /\ undo'[Len(undo) + 1] = e
        /\ \A k \in 1 .. Len(undo) : undo'[k] = undo[k]
    BY <1>2, HInvFacts, PushOK
  <1>6. TypeOK'
    BY <1>0, <1>2, <1>5 DEF HInv, TypeOK
  <1>7. HistoryIsAChain'
    <2>1. SUFFICES ASSUME ~replaced PROVE UndoChain' /\ RedoChain'
      BY DEF HistoryIsAChain
    <2>2. \A k \in 1 .. Len(undo') - 1 :
            undo'[k].after.document = undo'[k + 1].before.document
      <3>1. TAKE k \in 1 .. Len(undo') - 1
      <3>2. CASE k < Len(undo)
        BY <2>1, <3>2, <1>5 DEF HInv, HistoryIsAChain, UndoChain
      <3>3. CASE k = Len(undo)
        BY <2>1, <3>3, <1>3, <1>5 DEF HInv, HistoryIsAChain, UndoChain, Newest
      <3>4. QED
        BY <3>2, <3>3, <1>5
    <2>3. QED
      BY <2>2, <1>2, <1>3, <1>5 DEF UndoChain, RedoChain
  <1>8. SelectionMatchesDocument'
    <2>1. DOMAIN undo = 1 .. Len(undo) /\ DOMAIN undo' = 1 .. Len(undo) + 1
      BY <1>5, HInvFacts
    <2>2. \A k \in DOMAIN undo' : Tagged(undo'[k].before) /\ Tagged(undo'[k].after)
      <3>1. TAKE k \in DOMAIN undo'
      <3>2. k \in DOMAIN undo \/ k = Len(undo) + 1
        BY <2>1, <1>5
      <3>3. QED
        BY <3>2, <2>1, <1>3, <1>5 DEF HInv, SelectionMatchesDocument
    <2>3. QED
      BY <2>2, <1>2, <1>4 DEF SelectionMatchesDocument
  <1>9. slot'.document # None
    OBVIOUS
  <1>10. QED
    BY <1>6, <1>7, <1>8, <1>9 DEF HInv

-----------------------------------------------------------------------------
\* The slot a staged restore and its presentation leave.
LEMMA RestoreOK ==
  ASSUME HInv, NEW target \in SemanticStates,
         slot' \in {AfterHistory(slot, target, 1), AfterRestore(slot, target, 1)}
  PROVE  /\ slot' \in Slots(Generations) /\ SlotOK(slot')
         /\ slot'.document = target.document
         /\ slot'.document \in Documents
  <1>. DEFINE entry == [document |-> target.document,
                        presentation |-> target.presentation]
  <1>1. /\ target.document \in Documents
        /\ target.presentation \in Presentations \cup {None}
    BY DEF SemanticStates
  <1>2. /\ slot \in Slots(Generations) /\ SlotOK(slot)
        /\ 0 \in Generations /\ 1 \in Generations
    BY HInvFacts, NoneAwaited
  <1>3. AfterRestore(slot, target, 1) = AfterRestore(slot, entry, 1)
    BY DEF AfterRestore
  <1>4. AfterHistory(slot, target, 1) = AfterHistory(slot, entry, 1)
    BY <1>3 DEF AfterHistory
  <1>5. /\ AfterRestore(slot, entry, 1).document = target.document
        /\ AfterHistory(slot, entry, 1).document = target.document
    BY DEF AfterHistory, AfterRestore, AfterSetDocument, AfterSetPresentation
  <1>6. CASE slot' = AfterHistory(slot, target, 1)
    <2>1. /\ AfterHistory(slot, entry, 1) \in Slots(Generations)
          /\ SlotOK(AfterHistory(slot, entry, 1))
      BY <1>1, <1>2, AfterHistoryOK
    <2>2. QED
      BY <1>1, <1>4, <1>5, <1>6, <2>1
  <1>7. CASE slot' = AfterRestore(slot, target, 1)
    <2>1. /\ AfterRestore(slot, entry, 1) \in Slots(Generations)
          /\ SlotOK(AfterRestore(slot, entry, 1))
      BY <1>1, <1>2, AfterRestoreOK
    <2>2. QED
      BY <1>1, <1>3, <1>5, <1>7, <2>1
  <1>8. QED
    BY <1>6, <1>7

(***************************************************************************)
(* Undo takes the newest entry from the undo stack to the redo stack.      *)
(***************************************************************************)
LEMMA UndoKeepsHInv ==
  ASSUME HInv, Undo
  PROVE  HInv'
  <1>. DEFINE e == Newest(undo)
  <1>1. undo # <<>> /\ EntryOK(e) /\ e.before \in SemanticStates
    BY EntryFacts DEF Undo, EntryOK
  <1>2. /\ slot' \in Slots(Generations) /\ SlotOK(slot')
        /\ slot'.document = e.before.document
        /\ slot'.document \in Documents
    BY <1>1, RestoreOK DEF Undo, Restore
  <1>3. /\ undo' = WithoutNewest(undo) /\ redo' = Append(redo, e)
        /\ selection' = e.before.selection
        /\ replaced' = replaced
    BY DEF Undo, Restore
  <1>4. undo \in Seq(Entries) /\ redo \in Seq(Entries) /\ e \in Entries
    BY <1>1, HInvFacts DEF EntryOK
  <1>5. /\ Len(undo) \in Nat \ {0}
        /\ undo' \in Seq(Entries)
        /\ Len(undo') = Len(undo) - 1
        /\ \A k \in 1 .. Len(undo) - 1 : undo'[k] = undo[k]
        /\ e = undo[Len(undo)]
    BY <1>1, <1>3, <1>4, PopOK DEF Newest
  <1>6. /\ redo' \in Seq(Entries) /\ redo' # <<>>
        /\ Len(redo) \in Nat
        /\ Len(redo') = Len(redo) + 1
        /\ Newest(redo') = e
        /\ redo'[Len(redo) + 1] = e
        /\ \A k \in 1 .. Len(redo) : redo'[k] = redo[k]
    BY <1>3, <1>4, PushOK
  <1>. HIDE DEF e
  <1>7. TypeOK'
    BY <1>1, <1>2, <1>3, <1>5, <1>6 DEF HInv, TypeOK, SemanticStates
  <1>8. HistoryIsAChain'
    <2>1. SUFFICES ASSUME ~replaced PROVE UndoChain' /\ RedoChain'
      BY <1>3 DEF HistoryIsAChain
    <2>2. /\ \A k \in 1 .. Len(undo) - 1 :
               undo[k].after.document = undo[k + 1].before.document
          /\ e.after.document = slot.document
          /\ \A k \in 1 .. Len(redo) - 1 :
               redo[k].before.document = redo[k + 1].after.document
          /\ redo # <<>> => redo[Len(redo)].before.document = slot.document
      BY <1>1, <2>1 DEF HInv, HistoryIsAChain, UndoChain, RedoChain, Newest, e
    <2>3. UndoChain'
      <3>1. \A k \in 1 .. Len(undo') - 1 :
              undo'[k].after.document = undo'[k + 1].before.document
        BY <1>5, <2>2
      <3>2. ASSUME undo' # <<>> PROVE Newest(undo').after.document = slot'.document
        <4>1. Len(undo') \in 1 .. Len(undo) - 1
          BY <1>5, <3>2, PopOK
        <4>2. undo[Len(undo) - 1].after.document = e.before.document
          BY <1>5, <2>2, <4>1
        <4>3. QED
          BY <1>2, <1>5, <4>1, <4>2 DEF Newest
      <3>3. QED
        BY <3>1, <3>2 DEF UndoChain
    <2>4. RedoChain'
      <3>1. ASSUME NEW k \in 1 .. Len(redo') - 1
            PROVE  redo'[k].before.document = redo'[k + 1].after.document
        <4>1. CASE k < Len(redo)
          BY <1>6, <2>2, <4>1
        <4>2. CASE k = Len(redo)
          <5>1. redo # <<>>
            BY <1>6, <4>2
          <5>2. redo'[k] = redo[Len(redo)] /\ redo'[k + 1] = e
            BY <1>6, <4>2
          <5>3. QED
            BY <2>2, <5>1, <5>2
        <4>3. QED
          BY <1>6, <4>1, <4>2
      <3>2. QED
        BY <1>2, <1>6, <3>1 DEF RedoChain
    <2>5. QED
      BY <2>3, <2>4
  <1>9. SelectionMatchesDocument'
    <2>1. /\ DOMAIN undo' = 1 .. Len(undo) - 1 /\ DOMAIN undo = 1 .. Len(undo)
          /\ DOMAIN redo' = 1 .. Len(redo) + 1 /\ DOMAIN redo = 1 .. Len(redo)
      BY <1>4, <1>5, <1>6, LenProperties
    <2>2. Tagged(semantic_state')
      BY <1>1, <1>2, <1>3 DEF semantic_state, Tagged, EntryOK
    <2>3. \A k \in DOMAIN undo' : Tagged(undo'[k].before) /\ Tagged(undo'[k].after)
      BY <1>5, <2>1 DEF HInv, SelectionMatchesDocument
    <2>4. \A k \in DOMAIN redo' : Tagged(redo'[k].before) /\ Tagged(redo'[k].after)
      <3>1. TAKE k \in DOMAIN redo'
      <3>2. k \in DOMAIN redo \/ k = Len(redo) + 1
        BY <1>6, <2>1
      <3>3. QED
        BY <1>1, <1>6, <2>1, <3>2 DEF HInv, SelectionMatchesDocument, EntryOK
    <2>5. QED
      BY <2>2, <2>3, <2>4 DEF SelectionMatchesDocument
  <1>10. QED
    BY <1>2, <1>7, <1>8, <1>9 DEF HInv

(***************************************************************************)
(* Redo takes it back.                                                     *)
(***************************************************************************)
LEMMA RedoKeepsHInv ==
  ASSUME HInv, Redo
  PROVE  HInv'
  <1>. DEFINE e == Newest(redo)
  <1>1. redo # <<>> /\ EntryOK(e) /\ e.after \in SemanticStates
    BY EntryFacts DEF Redo, EntryOK
  <1>2. /\ slot' \in Slots(Generations) /\ SlotOK(slot')
        /\ slot'.document = e.after.document
        /\ slot'.document \in Documents
    BY <1>1, RestoreOK DEF Redo, Restore
  <1>3. /\ redo' = WithoutNewest(redo) /\ undo' = Append(undo, e)
        /\ selection' = e.after.selection
        /\ replaced' = replaced
    BY DEF Redo, Restore
  <1>4. redo \in Seq(Entries) /\ undo \in Seq(Entries) /\ e \in Entries
    BY <1>1, HInvFacts DEF EntryOK
  <1>5. /\ Len(redo) \in Nat \ {0}
        /\ redo' \in Seq(Entries)
        /\ Len(redo') = Len(redo) - 1
        /\ \A k \in 1 .. Len(redo) - 1 : redo'[k] = redo[k]
        /\ e = redo[Len(redo)]
    BY <1>1, <1>3, <1>4, PopOK DEF Newest
  <1>6. /\ undo' \in Seq(Entries) /\ undo' # <<>>
        /\ Len(undo) \in Nat
        /\ Len(undo') = Len(undo) + 1
        /\ Newest(undo') = e
        /\ undo'[Len(undo) + 1] = e
        /\ \A k \in 1 .. Len(undo) : undo'[k] = undo[k]
    BY <1>3, <1>4, PushOK
  <1>. HIDE DEF e
  <1>7. TypeOK'
    BY <1>1, <1>2, <1>3, <1>5, <1>6 DEF HInv, TypeOK, SemanticStates
  <1>8. HistoryIsAChain'
    <2>1. SUFFICES ASSUME ~replaced PROVE RedoChain' /\ UndoChain'
      BY <1>3 DEF HistoryIsAChain
    <2>2. /\ \A k \in 1 .. Len(redo) - 1 :
               redo[k].before.document = redo[k + 1].after.document
          /\ e.before.document = slot.document
          /\ \A k \in 1 .. Len(undo) - 1 :
               undo[k].after.document = undo[k + 1].before.document
          /\ undo # <<>> => undo[Len(undo)].after.document = slot.document
      BY <1>1, <2>1 DEF HInv, HistoryIsAChain, UndoChain, RedoChain, Newest, e
    <2>3. RedoChain'
      <3>1. \A k \in 1 .. Len(redo') - 1 :
              redo'[k].before.document = redo'[k + 1].after.document
        BY <1>5, <2>2
      <3>2. ASSUME redo' # <<>> PROVE Newest(redo').before.document = slot'.document
        <4>1. Len(redo') \in 1 .. Len(redo) - 1
          BY <1>5, <3>2, PopOK
        <4>2. redo[Len(redo) - 1].before.document = e.after.document
          BY <1>5, <2>2, <4>1
        <4>3. QED
          BY <1>2, <1>5, <4>1, <4>2 DEF Newest
      <3>3. QED
        BY <3>1, <3>2 DEF RedoChain
    <2>4. UndoChain'
      <3>1. ASSUME NEW k \in 1 .. Len(undo') - 1
            PROVE  undo'[k].after.document = undo'[k + 1].before.document
        <4>1. CASE k < Len(undo)
          BY <1>6, <2>2, <4>1
        <4>2. CASE k = Len(undo)
          <5>1. undo # <<>>
            BY <1>6, <4>2
          <5>2. undo'[k] = undo[Len(undo)] /\ undo'[k + 1] = e
            BY <1>6, <4>2
          <5>3. QED
            BY <2>2, <5>1, <5>2
        <4>3. QED
          BY <1>6, <4>1, <4>2
      <3>2. QED
        BY <1>2, <1>6, <3>1 DEF UndoChain
    <2>5. QED
      BY <2>3, <2>4
  <1>9. SelectionMatchesDocument'
    <2>1. /\ DOMAIN redo' = 1 .. Len(redo) - 1 /\ DOMAIN redo = 1 .. Len(redo)
          /\ DOMAIN undo' = 1 .. Len(undo) + 1 /\ DOMAIN undo = 1 .. Len(undo)
      BY <1>4, <1>5, <1>6, LenProperties
    <2>2. Tagged(semantic_state')
      BY <1>1, <1>2, <1>3 DEF semantic_state, Tagged, EntryOK
    <2>3. \A k \in DOMAIN redo' : Tagged(redo'[k].before) /\ Tagged(redo'[k].after)
      BY <1>5, <2>1 DEF HInv, SelectionMatchesDocument
    <2>4. \A k \in DOMAIN undo' : Tagged(undo'[k].before) /\ Tagged(undo'[k].after)
      <3>1. TAKE k \in DOMAIN undo'
      <3>2. k \in DOMAIN undo \/ k = Len(undo) + 1
        BY <1>6, <2>1
      <3>3. QED
        BY <1>1, <1>6, <2>1, <3>2 DEF HInv, SelectionMatchesDocument, EntryOK
    <2>5. QED
      BY <2>2, <2>3, <2>4 DEF SelectionMatchesDocument
  <1>10. QED
    BY <1>2, <1>7, <1>8, <1>9 DEF HInv

-----------------------------------------------------------------------------
\* A document of the host's replaces whatever there was.
LEMMA SetDocumentKeepsHInv ==
  ASSUME HInv, NEW doc \in Documents, SetDocument(doc)
  PROVE  HInv'
  <1>1. slot' \in Slots(Generations) /\ SlotOK(slot')
    BY HInvFacts, NoneAwaited, AfterSetDocumentOK DEF SetDocument
  <1>2. slot'.document = doc /\ slot'.document # None
    BY DEF SetDocument, AfterSetDocument
  <1>3. /\ selection' \in Selections \cup {None}
        /\ selection' # None => selection'.revision = doc.revision
    BY HInvFacts, RemapOK DEF SetDocument
  <1>4. TypeOK'
    BY <1>1, <1>3 DEF HInv, TypeOK, SetDocument
  <1>5. HistoryIsAChain'
    <2>1. SUFFICES ASSUME undo' = <<>>, redo' = <<>>
                   PROVE  UndoChain' /\ RedoChain'
      BY DEF HistoryIsAChain, SetDocument
    <2>2. Len(undo') = 0 /\ Len(redo') = 0
      BY <2>1
    <2>3. QED
      BY <2>1, <2>2 DEF UndoChain, RedoChain
  <1>6. SelectionMatchesDocument'
    BY <1>2, <1>3 DEF HInv, SelectionMatchesDocument, Tagged, semantic_state, SetDocument
  <1>7. QED
    BY <1>1, <1>2, <1>4, <1>5, <1>6 DEF HInv

\* A presentation leaves document and history alone.
LEMMA SetPresentationKeepsHInv ==
  ASSUME HInv, NEW p \in Presentations, SetPresentation(p)
  PROVE  HInv'
  <1>1. /\ slot \in Slots(Generations) /\ SlotOK(slot)
        /\ 0 \in Generations /\ 1 \in Generations
        /\ slot.document # None
        /\ slot' = AfterSetPresentation(slot, p, 1)
    BY HInvFacts, NoneAwaited DEF SetPresentation
  <1>2. slot' \in Slots(Generations) /\ SlotOK(slot')
    BY <1>1, AfterSetPresentationOK
  <1>3. slot'.document = slot.document
    BY <1>1 DEF AfterSetPresentation, Slots
  <1>4. QED
    BY <1>1, <1>2, <1>3, HInvFacts, SameDocumentKeepsHInv
       DEF SetPresentation, HInv, SelectionMatchesDocument, Tagged

\* So does a viewport.
LEMMA SetViewportMetricsKeepsHInv ==
  ASSUME HInv, NEW v \in Viewports, SetViewportMetrics(v)
  PROVE  HInv'
  <1>1. /\ slot \in Slots(Generations) /\ SlotOK(slot)
        /\ 0 \in Generations /\ 1 \in Generations
        /\ slot.document # None
        /\ slot' = AfterSetViewportMetrics(slot, v, 1)
    BY HInvFacts, NoneAwaited DEF SetViewportMetrics
  <1>2. slot' \in Slots(Generations) /\ SlotOK(slot')
    BY <1>1, AfterSetViewportMetricsOK
  <1>3. slot'.document = slot.document
    BY <1>1 DEF AfterSetViewportMetrics, Slots
  <1>4. QED
    BY <1>1, <1>2, <1>3, HInvFacts, SameDocumentKeepsHInv
       DEF SetViewportMetrics, HInv, SelectionMatchesDocument, Tagged

\* A selection is tagged when it is made.
LEMMA SelectionKeepsHInv ==
  ASSUME HInv,
         (\E range \in DepthRanges : SetSelection(range)) \/ ClearSelection
  PROVE  HInv'
  <1>1. slot.document # None /\ slot' = slot /\ NoHistory
    BY DEF SetSelection, ClearSelection, HInv
  <1>2. slot \in Slots(Generations) /\ SlotOK(slot)
    BY HInvFacts
  <1>3. /\ selection' \in Selections \cup {None}
        /\ selection' # None => selection'.revision = slot.document.revision
    <2>1. CASE ClearSelection
      BY <2>1 DEF ClearSelection
    <2>2. CASE \E range \in DepthRanges : SetSelection(range)
      <3>1. PICK range \in DepthRanges : SetSelection(range)
        BY <2>2
      <3>2. slot.document.revision \in Revisions
        BY <1>1, HInvFacts DEF Documents
      <3>3. QED
        BY <3>1, <3>2 DEF SetSelection, Selections
    <2>3. QED
      BY <2>1, <2>2
  <1>4. QED
    BY <1>1, <1>2, <1>3, SameDocumentKeepsHInv

\* The document a patch or an append makes is a document.
LEMMA NewDocumentOK ==
  ASSUME NEW doc \in Documents, NEW i \in Interpretations, NEW r \in CurveSets,
         NEW revision \in Revisions
  PROVE  /\ doc.revision + 1 \in Revisions => PatchedDocument(doc, i, r) \in Documents
         /\ PatchedDocument(doc, i, r).revision = doc.revision + 1
         /\ AppendedDocument(doc, r, revision) \in Documents
         /\ AppendedDocument(doc, r, revision).revision = revision
  BY DEF PatchedDocument, AppendedDocument, Documents

\* A patch commits a later document and records it.
LEMMA ApplyPatchKeepsHInv ==
  ASSUME HInv, NEW i \in Interpretations, NEW r \in CurveSets,
         NEW p \in Presentations, ApplyPatch(i, r, p)
  PROVE  HInv'
  <1>. DEFINE doc == PatchedDocument(slot.document, i, r)
              hint == StagedHint(slot, "unchanged_document")
              s1 == AfterSetDocument(slot, doc, hint, 1)
              s2 == IF slot.presentation = None THEN s1 ELSE AfterSetPresentation(s1, p, 1)
  <1>1. /\ slot \in Slots(Generations) /\ SlotOK(slot)
        /\ 0 \in Generations /\ 1 \in Generations
        /\ slot.document # None
        /\ slot.viewport \in Viewports \cup {None}
    BY HInvFacts, NoneAwaited DEF ApplyPatch, Slots
  <1>2. doc \in Documents
    BY <1>1, NewDocumentOK DEF ApplyPatch, Slots
  <1>3. slot' = AfterRestoreViewport(s2, slot.viewport)
    BY DEF ApplyPatch
  <1>4. s1.document = doc
    BY DEF AfterSetDocument
  <1>. HIDE DEF doc, hint
  <1>5. s1 \in Slots(Generations) /\ SlotOK(s1)
    BY <1>1, <1>2, AfterSetDocumentOK
  <1>. HIDE DEF s1
  <1>6. s2 \in Slots(Generations) /\ SlotOK(s2) /\ s2.document = doc
    <2>1. CASE slot.presentation = None
      BY <1>4, <1>5, <2>1
    <2>2. CASE slot.presentation # None
      <3>1. /\ AfterSetPresentation(s1, p, 1) \in Slots(Generations)
            /\ SlotOK(AfterSetPresentation(s1, p, 1))
        BY <1>1, <1>2, <1>4, <1>5, AfterSetPresentationOK
      <3>2. AfterSetPresentation(s1, p, 1).document = doc
        BY <1>4, <1>5 DEF AfterSetPresentation, Slots
      <3>3. QED
        BY <2>2, <3>1, <3>2
    <2>3. QED
      BY <2>1, <2>2
  <1>. HIDE DEF s2
  <1>7. slot' \in Slots(Generations) /\ SlotOK(slot') /\ slot'.document = doc
    <2>1. slot'.document = doc
      BY <1>3, <1>6 DEF AfterRestoreViewport, Slots
    <2>2. QED
      BY <1>1, <1>3, <1>6, <2>1, AfterRestoreViewportOK
  <1>8. /\ selection' = Remap(selection, doc)
        /\ record_new_history /\ UNCHANGED replaced
    BY DEF ApplyPatch, doc
  <1>9. QED
    BY <1>1, <1>2, <1>7, <1>8, RecordedKeepsHInv

\* An append does so too, at the revision its host asked for.
LEMMA AppendBatchKeepsHInv ==
  ASSUME HInv, NEW r \in CurveSets, NEW revision \in Revisions,
         NEW v \in Viewports, AppendBatch(r, revision, v)
  PROVE  HInv'
  <1>. DEFINE doc == AppendedDocument(slot.document, r, revision)
              hint == StagedHint(slot, "append_tail")
              s1 == AfterSetDocument(slot, doc, hint, 1)
  <1>1. /\ slot \in Slots(Generations) /\ SlotOK(slot)
        /\ 0 \in Generations /\ 1 \in Generations
        /\ slot.document # None
    BY HInvFacts, NoneAwaited DEF AppendBatch
  <1>2. doc \in Documents
    <2>1. slot.document \in Documents
      BY <1>1 DEF Slots
    <2>2. QED
      BY <2>1 DEF AppendedDocument, Documents
  <1>3. slot' = AfterAppendRestore(s1, slot, v)
    BY DEF AppendBatch
  <1>4. s1.document = doc /\ s1.frame_generation = 0
    BY DEF AfterSetDocument
  <1>. HIDE DEF doc, hint
  <1>5. s1 \in Slots(Generations) /\ SlotOK(s1)
    BY <1>1, <1>2, AfterSetDocumentOK
  <1>. HIDE DEF s1
  <1>6. slot' \in Slots(Generations) /\ SlotOK(slot') /\ slot'.document = doc
    <2>1. slot'.document = doc
      BY <1>3, <1>4, <1>5 DEF AfterAppendRestore, Slots
    <2>2. QED
      BY <1>1, <1>2, <1>3, <1>4, <1>5, <2>1, AfterAppendRestoreOK
  <1>7. /\ selection' = Remap(selection, doc)
        /\ record_new_history /\ UNCHANGED replaced
    BY DEF AppendBatch, doc
  <1>8. QED
    BY <1>1, <1>2, <1>6, <1>7, RecordedKeepsHInv

\* A patch that is rolled back leaves document, selection and history.
LEMMA ApplyPatchFailsKeepsHInv ==
  ASSUME HInv, NEW r \in CurveSets, ApplyPatchFails(r)
  PROVE  HInv'
  <1>1. /\ slot.document # None
        /\ slot' = AfterRestore(slot, semantic_state, 1)
        /\ selection' = selection /\ NoHistory
    BY DEF ApplyPatchFails
  <1>2. semantic_state \in SemanticStates /\ semantic_state.document = slot.document
    BY <1>1, HInvFacts
  <1>3. slot' \in Slots(Generations) /\ SlotOK(slot') /\ slot'.document = slot.document
    BY <1>1, <1>2, RestoreOK
  <1>4. QED
    BY <1>1, <1>3, HInvFacts, SameDocumentKeepsHInv
       DEF HInv, SelectionMatchesDocument, Tagged

(***************************************************************************)
(* A failed undo or redo: the end of the entry it falls back to is the     *)
(* current document, unless the host has replaced that.                    *)
(***************************************************************************)
LEMMA FailedHistoryKeepsHInv ==
  ASSUME HInv, UndoFails \/ RedoFails
  PROVE  HInv'
  <1>1. PICK target, other \in SemanticStates :
          /\ RollBack(target, other)
          /\ Tagged(other)
          /\ ~replaced => other.document = slot.document
          /\ slot.document # None
    <2>1. CASE UndoFails
      BY <2>1, EntryFacts
         DEF UndoFails, EntryOK, HInv, HistoryIsAChain, UndoChain
    <2>2. CASE RedoFails
      BY <2>2, EntryFacts
         DEF RedoFails, EntryOK, HInv, HistoryIsAChain, RedoChain
    <2>3. QED
      BY <2>1, <2>2
  <1>2. /\ slot' = AfterRestore(slot, other, 1)
        /\ selection' = other.selection /\ NoHistory
    BY <1>1 DEF RollBack
  <1>3. /\ slot' \in Slots(Generations) /\ SlotOK(slot')
        /\ slot'.document = other.document
        /\ slot'.document \in Documents
    BY <1>1, <1>2, RestoreOK
  <1>4. selection' \in Selections \cup {None}
    BY <1>1, <1>2 DEF SemanticStates
  <1>5. TypeOK'
    BY <1>2, <1>3, <1>4 DEF HInv, TypeOK, NoHistory
  <1>6. HistoryIsAChain'
    BY <1>1, <1>2, <1>3 DEF HInv, HistoryIsAChain, UndoChain, RedoChain, NoHistory
  <1>7. SelectionMatchesDocument'
    BY <1>1, <1>2, <1>3
       DEF HInv, SelectionMatchesDocument, Tagged, semantic_state, NoHistory
  <1>8. QED
    BY <1>3, <1>5, <1>6, <1>7 DEF HInv

\* A LOD that arrives, or fails, changes the preparation only.
LEMMA LodFinishesKeepsHInv ==
  ASSUME HInv, LodFinishes
  PROVE  HInv'
  <1>1. /\ slot \in Slots(Generations) /\ SlotOK(slot)
        /\ 1 \in Generations
        /\ slot.preparation.state = "pending"
        /\ NoHistory /\ selection' = selection
    BY HInvFacts, NoneAwaited DEF LodFinishes
  <1>2. slot.document # None /\ slot.document \in Documents
    BY <1>1, HInvFacts DEF SlotOK
  <1>3. slot' \in Slots(Generations) /\ SlotOK(slot') /\ slot'.document = slot.document
    <2>1. CASE slot' = [slot EXCEPT !.preparation.state = "unavailable"]
      BY <1>1, <1>2, <2>1 DEF Slots, Preparations, PreparationStates, SlotOK
    <2>2. CASE slot' = [slot EXCEPT
                 !.preparation.state = "ready",
                 !.preparation.pyramids = slot.document.curves,
                 !.frame_generation =
                   IF slot.presentation # None /\ slot.viewport # None THEN 1 ELSE @]
      <3>1. slot.document.curves \in CurveSets
        BY <1>2 DEF Documents
      <3>2. slot.frame_generation = 0
        BY <1>1 DEF SlotOK
      <3>3. QED
        BY <1>1, <1>2, <2>2, <3>1, <3>2
           DEF Slots, Preparations, PreparationStates, SlotOK
    <2>3. QED
      BY <2>1, <2>2 DEF LodFinishes
  <1>4. QED
    BY <1>1, <1>2, <1>3, HInvFacts, SameDocumentKeepsHInv
       DEF HInv, SelectionMatchesDocument, Tagged

\* A frame that arrives, or fails, changes the scene only.
LEMMA FrameFinishesKeepsHInv ==
  ASSUME HInv, FrameFinishes
  PROVE  HInv'
  <1>1. /\ slot \in Slots(Generations) /\ SlotOK(slot)
        /\ 0 \in Generations
        /\ slot.frame_generation # 0
        /\ NoHistory /\ selection' = selection
    BY HInvFacts, NoneAwaited DEF FrameFinishes
  <1>2. /\ slot.document # None /\ slot.document \in Documents
        /\ slot.preparation.state = "ready"
        /\ slot.preparation.pyramids = slot.document.curves
        /\ slot.presentation \in Presentations
        /\ slot.viewport \in Viewports
        /\ Asynchronous(slot.document)
    BY <1>1, HInvFacts DEF SlotOK, Slots
  <1>3. slot' \in Slots(Generations) /\ SlotOK(slot') /\ slot'.document = slot.document
    <2>1. CASE slot' = [slot EXCEPT !.frame_generation = 0]
      BY <1>1, <1>2, <2>1 DEF Slots, SlotOK
    <2>2. ASSUME NEW v \in {slot.viewport, FullRange},
                 slot' = [slot EXCEPT
                   !.frame_generation = 0,
                   !.scene = [document |-> slot.document,
                              presentation |-> slot.presentation,
                              pyramids |-> slot.preparation.pyramids,
                              viewport |-> v]]
          PROVE  slot' \in Slots(Generations) /\ SlotOK(slot')
                 /\ slot'.document = slot.document
      <3>. DEFINE scene == [document |-> slot.document,
                            presentation |-> slot.presentation,
                            pyramids |-> slot.preparation.pyramids,
                            viewport |-> v]
      <3>1. /\ scene \in Scenes
            /\ scene.document = slot.document
            /\ scene.pyramids = PyramidsFor(slot.document)
        BY <1>2 DEF Scenes, Documents, PyramidsFor
      <3>2. slot' = [slot EXCEPT !.frame_generation = 0, !.scene = scene]
        BY <2>2
      <3>. HIDE DEF scene
      <3>3. QED
        BY <1>1, <1>2, <3>1, <3>2 DEF Slots, SlotOK
    <2>3. QED
      BY <2>1, <2>2 DEF FrameFinishes
  <1>4. QED
    BY <1>1, <1>2, <1>3, HInvFacts, SameDocumentKeepsHInv
       DEF HInv, SelectionMatchesDocument, Tagged

-----------------------------------------------------------------------------
\* The invariant holds before anything is loaded.
LEMMA InitHInv == Init => HInv
  <1>1. Init => TypeOK /\ SlotOK(slot)
    <2>1. NoPreparation \in Preparations(Generations)
      BY NoneAwaited DEF NoPreparation, Preparations, PreparationStates
    <2>2. EmptySlot \in Slots(Generations)
      BY <2>1, NoneAwaited DEF EmptySlot, Slots
    <2>3. SlotOK(EmptySlot)
      BY DEF SlotOK, EmptySlot, NoPreparation
    <2>4. <<>> \in Seq(Entries)
      BY EmptySeq
    <2>5. QED
      BY <2>2, <2>3, <2>4 DEF Init, TypeOK
  <1>2. Init => HistoryIsAChain /\ SelectionMatchesDocument
    BY DEF Init, HistoryIsAChain, UndoChain, RedoChain, SelectionMatchesDocument,
           Tagged, semantic_state
  <1>3. QED
    BY <1>1, <1>2 DEF Init, HInv

\* A stuttering step keeps it.
LEMMA StutterKeepsHInv ==
  ASSUME HInv, UNCHANGED vars
  PROVE  HInv'
  BY DEF vars, HInv, TypeOK, HistoryIsAChain, UndoChain, RedoChain,
         SelectionMatchesDocument, semantic_state

\* Every step keeps it.
LEMMA NextKeepsHInv == HInv /\ [Next]_vars => HInv'
  <1>1. SUFFICES ASSUME HInv, [Next]_vars PROVE HInv'
    OBVIOUS
  <1>2. CASE \/ \E doc \in Documents : SetDocument(doc)
             \/ \E p \in Presentations : SetPresentation(p)
             \/ \E v \in Viewports : SetViewportMetrics(v)
    BY <1>1, <1>2, SetDocumentKeepsHInv, SetPresentationKeepsHInv,
       SetViewportMetricsKeepsHInv
  <1>3. CASE (\E range \in DepthRanges : SetSelection(range)) \/ ClearSelection
    BY <1>1, <1>3, SelectionKeepsHInv
  <1>4. CASE \/ \E i \in Interpretations, r \in CurveSets, p \in Presentations :
                  ApplyPatch(i, r, p)
             \/ \E r \in CurveSets : ApplyPatchFails(r)
             \/ \E r \in CurveSets, revision \in Revisions, v \in Viewports :
                  AppendBatch(r, revision, v)
    BY <1>1, <1>4, ApplyPatchKeepsHInv, ApplyPatchFailsKeepsHInv,
       AppendBatchKeepsHInv
  <1>5. CASE Undo \/ Redo \/ UndoFails \/ RedoFails
    BY <1>1, <1>5, UndoKeepsHInv, RedoKeepsHInv, FailedHistoryKeepsHInv
  <1>6. CASE LodFinishes \/ FrameFinishes
    BY <1>1, <1>6, LodFinishesKeepsHInv, FrameFinishesKeepsHInv
  <1>7. CASE UNCHANGED vars
    BY <1>1, <1>7, StutterKeepsHInv
  <1>8. QED
    BY <1>1, <1>2, <1>3, <1>4, <1>5, <1>6, <1>7 DEF Next

(***************************************************************************)
(* The inductive invariant of a document's history holds in every state.   *)
(***************************************************************************)
THEOREM HistoryInvariant == Spec => []HInv
  BY InitHInv, NextKeepsHInv, PTL DEF Spec

(***************************************************************************)
(* However patches, appends, undos, redos, failures and host commands      *)
(* alternate, the entries lead through the current document.               *)
(***************************************************************************)
THEOREM ChainHolds == Spec => []HistoryIsAChain
  <1>1. HInv => HistoryIsAChain
    BY DEF HInv
  <1>2. QED
    BY <1>1, HistoryInvariant, PTL

(***************************************************************************)
(* A selection, current or kept in the history, names rows of the revision *)
(* it stands beside.                                                       *)
(***************************************************************************)
THEOREM SelectionsMatch == Spec => []SelectionMatchesDocument
  <1>1. HInv => SelectionMatchesDocument
    BY DEF HInv
  <1>2. QED
    BY <1>1, HistoryInvariant, PTL

-----------------------------------------------------------------------------
(***************************************************************************)
(* The refinement: each step of the history is a step of the timeline or   *)
(* leaves the timeline alone.                                              *)
(***************************************************************************)
Past == [k \in 1 .. Len(undo) |-> undo[k].before.document]
Future == [k \in 1 .. Len(redo) |-> redo[k].after.document]

\* A timeline stays as it is when document and history do.
LEMMA SameTimeline ==
  ASSUME slot'.document = slot.document, NoHistory
  PROVE  [Timeline!Next]_(Timeline!vars)
  BY DEF NoHistory, Timeline!vars

\* A recorded change is an edit.
LEMMA RecordedIsEdit ==
  ASSUME HInv, slot.document # None, NEW doc \in Documents,
         slot'.document = doc, doc.revision > slot.document.revision,
         record_new_history, UNCHANGED replaced
  PROVE  Timeline!Edit(doc)
  <1>. DEFINE e == [before |-> semantic_state, after |-> semantic_state']
  <1>1. /\ undo \in Seq(Entries) /\ Len(undo) \in Nat
        /\ e.before.document = slot.document
        /\ undo' = Append(undo, e) /\ redo' = <<>>
    BY HInvFacts, LenProperties DEF record_new_history, semantic_state
  <1>. HIDE DEF e
  <1>2. /\ Len(undo') = Len(undo) + 1
        /\ undo'[Len(undo) + 1] = e
        /\ \A k \in 1 .. Len(undo) : undo'[k] = undo[k]
    BY <1>1
  <1>3. Past' = Append(Past, slot.document)
    BY <1>1, <1>2 DEF Past
  <1>4. Future' = <<>>
    BY <1>1 DEF Future
  <1>5. QED
    BY <1>3, <1>4 DEF Timeline!Edit, Past, Future

(***************************************************************************)
(* An undo is an undo of the timeline: the chain makes the document it     *)
(* leaves the next one redo leads to.                                      *)
(***************************************************************************)
LEMMA UndoIsUndo ==
  ASSUME HInv, ~replaced, Undo
  PROVE  Timeline!Undo
  <1>. DEFINE e == Newest(undo)
  <1>1. /\ undo # <<>> /\ undo \in Seq(Entries) /\ redo \in Seq(Entries)
        /\ e \in Entries
        /\ e.after.document = slot.document
        /\ e.before \in SemanticStates
    BY HInvFacts, EntryFacts DEF Undo, EntryOK, HInv, HistoryIsAChain, UndoChain, RedoChain
  <1>2. /\ undo' = WithoutNewest(undo) /\ redo' = Append(redo, e)
        /\ replaced' = replaced
        /\ slot'.document = e.before.document
    BY <1>1, RestoreOK DEF Undo, Restore
  <1>3. /\ Len(undo) \in Nat \ {0}
        /\ Len(undo') = Len(undo) - 1
        /\ \A k \in 1 .. Len(undo) - 1 : undo'[k] = undo[k]
        /\ e = undo[Len(undo)]
    BY <1>1, <1>2, PopOK DEF Newest
  <1>4. /\ Len(redo) \in Nat
        /\ Len(redo') = Len(redo) + 1
        /\ redo'[Len(redo) + 1] = e
        /\ \A k \in 1 .. Len(redo) : redo'[k] = redo[k]
    BY <1>1, <1>2, PushOK
  <1>. HIDE DEF e
  <1>5. /\ Len(Past) = Len(undo) /\ Past # <<>>
        /\ Past[Len(Past)] = slot'.document
        /\ Past' = SubSeq(Past, 1, Len(Past) - 1)
    <2>1. Len(Past) = Len(undo) /\ Past[Len(undo)] = undo[Len(undo)].before.document
      BY <1>3 DEF Past
    <2>2. Past # <<>>
      BY <1>3, <2>1
    <2>3. Past' = [k \in 1 .. Len(undo) - 1 |-> undo[k].before.document]
      BY <1>3 DEF Past
    <2>4. Past' = SubSeq(Past, 1, Len(undo) - 1)
      BY <1>3, <2>1, <2>3 DEF Past
    <2>5. QED
      BY <1>2, <1>3, <2>1, <2>2, <2>4
  <1>6. Future' = Append(Future, slot.document)
    <2>1. Future' = [k \in 1 .. Len(redo) + 1 |->
                  IF k = Len(redo) + 1 THEN e.after.document ELSE redo[k].after.document]
      BY <1>4 DEF Future
    <2>2. QED
      BY <1>1, <1>4, <2>1 DEF Future
  <1>7. QED
    BY <1>2, <1>5, <1>6 DEF Timeline!Undo, Past, Future

\* A redo is a redo of the timeline.
LEMMA RedoIsRedo ==
  ASSUME HInv, ~replaced, Redo
  PROVE  Timeline!Redo
  <1>. DEFINE e == Newest(redo)
  <1>1. /\ redo # <<>> /\ redo \in Seq(Entries) /\ undo \in Seq(Entries)
        /\ e \in Entries
        /\ e.before.document = slot.document
        /\ e.after \in SemanticStates
    BY HInvFacts, EntryFacts DEF Redo, EntryOK, HInv, HistoryIsAChain, UndoChain, RedoChain
  <1>2. /\ redo' = WithoutNewest(redo) /\ undo' = Append(undo, e)
        /\ replaced' = replaced
        /\ slot'.document = e.after.document
    BY <1>1, RestoreOK DEF Redo, Restore
  <1>3. /\ Len(redo) \in Nat \ {0}
        /\ Len(redo') = Len(redo) - 1
        /\ \A k \in 1 .. Len(redo) - 1 : redo'[k] = redo[k]
        /\ e = redo[Len(redo)]
    BY <1>1, <1>2, PopOK DEF Newest
  <1>4. /\ Len(undo) \in Nat
        /\ Len(undo') = Len(undo) + 1
        /\ undo'[Len(undo) + 1] = e
        /\ \A k \in 1 .. Len(undo) : undo'[k] = undo[k]
    BY <1>1, <1>2, PushOK
  <1>. HIDE DEF e
  <1>5. /\ Len(Future) = Len(redo) /\ Future # <<>>
        /\ Future[Len(Future)] = slot'.document
        /\ Future' = SubSeq(Future, 1, Len(Future) - 1)
    <2>1. Len(Future) = Len(redo) /\ Future[Len(redo)] = redo[Len(redo)].after.document
      BY <1>3 DEF Future
    <2>2. Future # <<>>
      BY <1>3, <2>1
    <2>3. Future' = [k \in 1 .. Len(redo) - 1 |-> redo[k].after.document]
      BY <1>3 DEF Future
    <2>4. Future' = SubSeq(Future, 1, Len(redo) - 1)
      BY <1>3, <2>1, <2>3 DEF Future
    <2>5. QED
      BY <1>2, <1>3, <2>1, <2>2, <2>4
  <1>6. Past' = Append(Past, slot.document)
    <2>1. Past' = [k \in 1 .. Len(undo) + 1 |->
                  IF k = Len(undo) + 1 THEN e.before.document ELSE undo[k].before.document]
      BY <1>4 DEF Past
    <2>2. QED
      BY <1>1, <1>4, <2>1 DEF Past
  <1>7. QED
    BY <1>2, <1>5, <1>6 DEF Timeline!Redo, Past, Future

\* Once a host has broken it, nothing is promised of a timeline.
LEMMA BrokenStaysBroken ==
  ASSUME replaced' = TRUE
  PROVE  Timeline!Next
  BY DEF Timeline!Next, Timeline!Broken

\* Loading a document over a history breaks it, over none it is a load.
LEMMA SetDocumentRefines ==
  ASSUME HInv, NEW doc \in Documents, SetDocument(doc)
  PROVE  Timeline!Next
  <1>1. CASE replaced' = TRUE
    BY <1>1, BrokenStaysBroken
  <1>2. CASE replaced' # TRUE
    <2>1. /\ undo = <<>> /\ redo = <<>> /\ undo' = <<>> /\ redo' = <<>>
          /\ replaced' = replaced
      BY <1>2 DEF SetDocument, HInv, TypeOK
    <2>2. slot'.document = doc
      BY DEF SetDocument, AfterSetDocument
    <2>3. Past = <<>> /\ Future = <<>>
      BY <2>1 DEF Past, Future
    <2>4. Past' = Past /\ Future' = Future
      BY <2>1 DEF Past, Future
    <2>5. Timeline!Load(doc)
      BY <2>1, <2>2, <2>3, <2>4 DEF Timeline!Load, Past, Future
    <2>6. QED
      BY <2>5 DEF Timeline!Next
  <1>3. QED
    BY <1>1, <1>2

\* Patches and appends are edits.
LEMMA ChangesRefine ==
  ASSUME HInv,
         \/ \E i \in Interpretations, r \in CurveSets, p \in Presentations :
              ApplyPatch(i, r, p)
         \/ \E r \in CurveSets, revision \in Revisions, v \in Viewports :
              AppendBatch(r, revision, v)
  PROVE  Timeline!Next
  <1>1. /\ slot.document # None /\ record_new_history /\ UNCHANGED replaced
        /\ slot.document \in Documents
    BY HInvFacts DEF ApplyPatch, AppendBatch
  <1>2. slot'.document \in Documents /\ slot'.document.revision > slot.document.revision
    <2>1. ASSUME NEW i \in Interpretations, NEW r \in CurveSets,
                 NEW p \in Presentations, ApplyPatch(i, r, p)
          PROVE  slot'.document = PatchedDocument(slot.document, i, r)
                 /\ slot.document.revision + 1 \in Revisions
      <3>1. slot'.document = PatchedDocument(slot.document, i, r)
        BY <2>1 DEF ApplyPatch, AfterRestoreViewport, AfterSetPresentation,
                    AfterSetDocument
      <3>2. PatchedDocument(slot.document, i, r).revision = slot.document.revision + 1
        BY <1>1 DEF PatchedDocument, Documents
      <3>3. QED
        BY <2>1, <3>1, <3>2 DEF ApplyPatch
    <2>2. ASSUME NEW r \in CurveSets, NEW revision \in Revisions,
                 NEW v \in Viewports, AppendBatch(r, revision, v)
          PROVE  slot'.document = AppendedDocument(slot.document, r, revision)
                 /\ revision > slot.document.revision
      BY <2>2 DEF AppendBatch, AfterAppendRestore, AfterSetDocument
    <2>3. slot.document.revision \in Nat
      BY <1>1 DEF Documents
    <2>4. CASE \E i \in Interpretations, r \in CurveSets, p \in Presentations :
                 ApplyPatch(i, r, p)
      <3>1. PICK i \in Interpretations, r \in CurveSets, p \in Presentations :
              ApplyPatch(i, r, p)
        BY <2>4
      <3>2. QED
        BY <1>1, <2>1, <2>3, <3>1, NewDocumentOK
    <2>5. CASE \E r \in CurveSets, revision \in Revisions, v \in Viewports :
                 AppendBatch(r, revision, v)
      <3>1. PICK r \in CurveSets, revision \in Revisions, v \in Viewports :
              AppendBatch(r, revision, v)
        BY <2>5
      <3>2. QED
        BY <1>1, <2>2, <2>3, <3>1 DEF AppendedDocument, Documents
    <2>6. QED
      BY <2>4, <2>5
  <1>3. PICK doc \in Documents : slot'.document = doc
    BY <1>2
  <1>4. Timeline!Edit(doc)
    BY <1>1, <1>2, <1>3, RecordedIsEdit
  <1>5. QED
    BY <1>4 DEF Timeline!Next

\* Undo and redo move along the timeline; failing, they leave it alone.
LEMMA HistoryRefines ==
  ASSUME HInv, Undo \/ Redo \/ UndoFails \/ RedoFails
  PROVE  [Timeline!Next]_(Timeline!vars)
  <1>1. replaced' = replaced /\ replaced \in BOOLEAN
    BY DEF Undo, Redo, Restore, UndoFails, RedoFails, RollBack, NoHistory, HInv, TypeOK
  <1>2. CASE replaced
    BY <1>1, <1>2, BrokenStaysBroken
  <1>3. CASE ~replaced /\ (Undo \/ Redo)
    BY <1>3, UndoIsUndo, RedoIsRedo DEF Timeline!Next
  <1>4. CASE ~replaced /\ (UndoFails \/ RedoFails)
    <2>1. PICK target, other \in SemanticStates :
            RollBack(target, other) /\ other.document = slot.document
      BY <1>4, EntryFacts
         DEF UndoFails, RedoFails, EntryOK, HInv, HistoryIsAChain, UndoChain, RedoChain
    <2>2. slot'.document = slot.document /\ NoHistory
      BY <2>1, RestoreOK DEF RollBack
    <2>3. QED
      BY <2>2, SameTimeline
  <1>5. QED
    BY <1>1, <1>2, <1>3, <1>4

(***************************************************************************)
(* Every step of the history, failures and host commands included, is a    *)
(* step of the timeline or leaves it alone.                                *)
(***************************************************************************)
LEMMA NextRefines == HInv /\ [Next]_vars => [Timeline!Next]_(Timeline!vars)
  <1>1. SUFFICES ASSUME HInv, [Next]_vars PROVE [Timeline!Next]_(Timeline!vars)
    OBVIOUS
  <1>2. slot \in Slots(Generations)
    BY <1>1, HInvFacts
  <1>3. CASE \E doc \in Documents : SetDocument(doc)
    BY <1>1, <1>3, SetDocumentRefines
  <1>4. CASE \/ \E p \in Presentations : SetPresentation(p)
             \/ \E v \in Viewports : SetViewportMetrics(v)
             \/ \E range \in DepthRanges : SetSelection(range)
             \/ ClearSelection
    BY <1>2, <1>4, SameTimeline
       DEF SetPresentation, AfterSetPresentation, SetViewportMetrics,
           AfterSetViewportMetrics, SetSelection, ClearSelection, Slots
  <1>5. CASE \E r \in CurveSets : ApplyPatchFails(r)
    <2>1. slot'.document = slot.document /\ NoHistory
      BY <1>1, <1>5, HInvFacts, RestoreOK DEF ApplyPatchFails
    <2>2. QED
      BY <2>1, SameTimeline
  <1>6. CASE \/ \E i \in Interpretations, r \in CurveSets, p \in Presentations :
                  ApplyPatch(i, r, p)
             \/ \E r \in CurveSets, revision \in Revisions, v \in Viewports :
                  AppendBatch(r, revision, v)
    BY <1>1, <1>6, ChangesRefine
  <1>7. CASE Undo \/ Redo \/ UndoFails \/ RedoFails
    BY <1>1, <1>7, HistoryRefines
  <1>8. CASE LodFinishes \/ FrameFinishes
    BY <1>2, <1>8, SameTimeline DEF LodFinishes, FrameFinishes, Slots
  <1>9. CASE UNCHANGED vars
    BY <1>9, SameTimeline DEF vars, NoHistory
  <1>10. QED
    BY <1>1, <1>3, <1>4, <1>5, <1>6, <1>7, <1>8, <1>9 DEF Next

\* Before anything is loaded the timeline is empty.
LEMMA InitRefines == Init => Timeline!Init
  <1>1. Init => Past = <<>> /\ Future = <<>>
    BY DEF Init, Past, Future
  <1>2. QED
    BY <1>1 DEF Init, EmptySlot, Timeline!Init, Past, Future

(***************************************************************************)
(* The undo history of a session implements UndoTimeline.                  *)
(***************************************************************************)
THEOREM HistoryImplementsTimeline == Spec => TimelinePromise
  BY InitRefines, NextRefines, HistoryInvariant, PTL
     DEF Spec, TimelinePromise, Timeline!Spec
=============================================================================
