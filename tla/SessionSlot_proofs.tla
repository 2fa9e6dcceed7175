------------------------- MODULE SessionSlot_proofs -------------------------
(***************************************************************************)
(* Lemmas about the operators of SessionSlot: each command leaves a slot   *)
(* of the right type and a sound one, whatever generations are.            *)
(***************************************************************************)
EXTENDS SessionSlot, TLAPS

USE SlotAssumption

-----------------------------------------------------------------------------
(***************************************************************************)
(* The command operators keep the slot types and the slot invariant.       *)
(***************************************************************************)
LEMMA AfterSetDocumentOK ==
  ASSUME NEW G, 0 \in G, NEW s \in Slots(G), SlotOK(s),
         NEW doc \in Documents, NEW hint, NEW g \in G
  PROVE  /\ AfterSetDocument(s, doc, hint, g) \in Slots(G)
         /\ SlotOK(AfterSetDocument(s, doc, hint, g))
  <1>. DEFINE after == AfterSetDocument(s, doc, hint, g)
              pending == [state |-> "pending", revision |-> doc.revision,
                          generation |-> g, pyramids |-> None]
              reused == [state |-> "ready", revision |-> doc.revision,
                         generation |-> 0, pyramids |-> s.preparation.pyramids]
  <1>1. after \in Slots(G)
    <2>1. doc.revision \in Revisions
      BY DEF Documents
    <2>2. s.preparation.pyramids \in CurveSets \cup {None}
      BY DEF Slots, Preparations
    <2>3. /\ pending \in Preparations(G)
          /\ reused \in Preparations(G)
          /\ NoPreparation \in Preparations(G)
      BY <2>1, <2>2 DEF Preparations, PreparationStates, NoPreparation
    <2>4. after.preparation \in {pending, reused, NoPreparation}
      BY DEF AfterSetDocument
    <2>5. after = [document |-> doc, scene |-> None, presentation |-> None,
                   viewport |-> None, preparation |-> after.preparation,
                   frame_generation |-> 0]
      BY DEF AfterSetDocument
    <2>. HIDE DEF after, pending, reused
    <2>6. QED
      BY <2>3, <2>4, <2>5 DEF Slots
  <1>2. SlotOK(AfterSetDocument(s, doc, hint, g))
    BY DEF SlotOK, AfterSetDocument, ReusesPreparation, NoPreparation,
           Asynchronous, Slots, Preparations
  <1>3. QED BY <1>1, <1>2

\* SetPresentationCommand keeps the slot typed and sound.
LEMMA AfterSetPresentationOK ==
  ASSUME NEW G, 0 \in G, NEW s \in Slots(G), SlotOK(s), s.document # None,
         NEW p \in Presentations, NEW g \in G
  PROVE  /\ AfterSetPresentation(s, p, g) \in Slots(G)
         /\ SlotOK(AfterSetPresentation(s, p, g))
  <1>1. AfterSetPresentation(s, p, g) \in Slots(G)
    <2>1. s.document \in Documents /\ 0 \in G
      BY DEF Slots
    <2>2. QED
      BY <2>1 DEF Slots, Scenes, AfterSetPresentation
  <1>2. SlotOK(AfterSetPresentation(s, p, g))
    BY DEF SlotOK, AfterSetPresentation, SchedulesPresentation, PreparedInline,
           PyramidsFor, Slots
  <1>3. QED BY <1>1, <1>2

\* SetViewportMetricsCommand keeps the slot typed and sound.
LEMMA AfterSetViewportMetricsOK ==
  ASSUME NEW G, 0 \in G, NEW s \in Slots(G), SlotOK(s),
         NEW v \in Viewports, NEW g \in G
  PROVE  /\ AfterSetViewportMetrics(s, v, g) \in Slots(G)
         /\ SlotOK(AfterSetViewportMetrics(s, v, g))
  BY DEF Slots, SlotOK, AfterSetViewportMetrics, SchedulesViewport

\* So does putting back the window after a patch.
LEMMA AfterRestoreViewportOK ==
  ASSUME NEW G, 0 \in G, NEW s \in Slots(G), SlotOK(s),
         NEW v \in Viewports \cup {None}
  PROVE  /\ AfterRestoreViewport(s, v) \in Slots(G)
         /\ SlotOK(AfterRestoreViewport(s, v))
  BY DEF Slots, SlotOK, AfterRestoreViewport

\* So does putting back presentation and window after an append.
LEMMA AfterAppendRestoreOK ==
  ASSUME NEW G, 0 \in G, NEW s \in Slots(G), SlotOK(s), s.document # None,
         s.frame_generation = 0,
         NEW before \in Slots(G), NEW v \in Viewports
  PROVE  /\ AfterAppendRestore(s, before, v) \in Slots(G)
         /\ SlotOK(AfterAppendRestore(s, before, v))
  BY DEF Slots, SlotOK, AfterAppendRestore

\* A staged history restore leaves its document, and nothing is awaited.
LEMMA AfterRestoreOK ==
  ASSUME NEW G, 0 \in G, NEW s \in Slots(G), SlotOK(s),
         NEW doc \in Documents, NEW p \in Presentations \cup {None},
         NEW g \in G
  PROVE  LET entry == [document |-> doc, presentation |-> p]
             after == AfterRestore(s, entry, g)
         IN /\ after \in Slots(G)
            /\ SlotOK(after)
            /\ after.document = doc
            /\ after.presentation = p
            /\ after.frame_generation = 0
            /\ after.preparation =
                 IF Asynchronous(doc)
                 THEN [state |-> "pending", revision |-> doc.revision,
                       generation |-> g, pyramids |-> None]
                 ELSE NoPreparation
  <1>. DEFINE entry == [document |-> doc, presentation |-> p]
              s1 == AfterSetDocument(s, doc, "none", g)
  <1>1. s1 \in Slots(G) /\ SlotOK(s1)
    BY AfterSetDocumentOK
  <1>2. /\ s1.document = doc
        /\ s1.frame_generation = 0
        /\ s1.preparation =
             IF Asynchronous(doc)
             THEN [state |-> "pending", revision |-> doc.revision,
                   generation |-> g, pyramids |-> None]
             ELSE NoPreparation
    BY DEF AfterSetDocument, ReusesPreparation
  <1>3. AfterRestore(s, entry, g) = [s1 EXCEPT !.presentation = p]
    BY DEF AfterRestore
  <1>. HIDE DEF s1
  <1>. DEFINE s2 == [s1 EXCEPT !.presentation = p]
  <1>4. /\ s2.document = doc
        /\ s2.presentation = p
        /\ s2.scene = s1.scene
        /\ s2.preparation = s1.preparation
        /\ s2.frame_generation = 0
        /\ s2 \in Slots(G)
    BY <1>1, <1>2 DEF Slots
  <1>. HIDE DEF s2
  <1>5. doc # None
    BY <1>1, <1>2 DEF SlotOK
  <1>6. SlotOK(s2)
    BY <1>1, <1>2, <1>4 DEF SlotOK
  <1>7. AfterRestore(s, entry, g) = s2
    BY <1>3 DEF s2
  <1>8. QED BY <1>2, <1>4, <1>6, <1>7

\* So does undo or redo, which shows the presentation once more.
LEMMA AfterHistoryOK ==
  ASSUME NEW G, 0 \in G, NEW s \in Slots(G), SlotOK(s),
         NEW doc \in Documents, NEW p \in Presentations \cup {None},
         NEW g \in G
  PROVE  LET entry == [document |-> doc, presentation |-> p]
             after == AfterHistory(s, entry, g)
         IN /\ after \in Slots(G)
            /\ SlotOK(after)
            /\ after.document = doc
            /\ after.frame_generation = 0
            /\ after.preparation =
                 IF Asynchronous(doc)
                 THEN [state |-> "pending", revision |-> doc.revision,
                       generation |-> g, pyramids |-> None]
                 ELSE NoPreparation
  <1>. DEFINE entry == [document |-> doc, presentation |-> p]
              s1 == AfterRestore(s, entry, g)
  <1>1. /\ s1 \in Slots(G)
        /\ SlotOK(s1)
        /\ s1.document = doc
        /\ s1.frame_generation = 0
        /\ s1.preparation =
             IF Asynchronous(doc)
             THEN [state |-> "pending", revision |-> doc.revision,
                   generation |-> g, pyramids |-> None]
             ELSE NoPreparation
    BY AfterRestoreOK
  <1>2. AfterHistory(s, entry, g) =
          IF p = None THEN s1 ELSE AfterSetPresentation(s1, p, 0)
    BY DEF AfterHistory
  <1>. HIDE DEF s1
  <1>3. CASE p = None
    BY <1>1, <1>2, <1>3
  <1>4. CASE p # None
    <2>. DEFINE s2 == AfterSetPresentation(s1, p, 0)
    <2>1. 0 \in G /\ p \in Presentations
      BY <1>4
    <2>2. s2 \in Slots(G) /\ SlotOK(s2)
      BY <1>1, <2>1, AfterSetPresentationOK
    <2>3. /\ s2.document = doc
          /\ s2.preparation = s1.preparation
          /\ s2.frame_generation = 0
      BY <1>1 DEF AfterSetPresentation, Slots
    <2>. HIDE DEF s2
    <2>4. AfterHistory(s, entry, g) = s2
      BY <1>2, <1>4 DEF s2
    <2>5. QED BY <1>1, <2>2, <2>3, <2>4
  <1>5. QED BY <1>3, <1>4
=============================================================================
