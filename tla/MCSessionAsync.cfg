SPECIFICATION Spec
CONSTANTS
  w1 = w1
  w2 = w2
  small = small
  big = big
  big2 = big2
  i1 = i1
  p1 = p1
  p2 = p2
  v1 = v1
  full = full
  d1 = d1
  d2 = d2
  None = None
  NoJob = NoJob
  NoWorker = NoWorker
  FullRange = full
  MaxGeneration = 3
  Workers <- MCWorkers
  Jobs <- SessionJobs
  TextJobs = {}
  DocumentIds <- OneDocument
  CurveSets <- SmallAndLarge
  LargeCurveSets <- TwoLarge
  Interpretations <- OneInterpretation
  WithoutMasks <- NothingMasked
  Presentations <- OnePresentation
  Viewports <- TwoViewports
  Revisions <- TwoRevisions
SYMMETRY WorkersAndCurves
INVARIANTS
  SceneOfCurrentDocument
  WaitsForLiveTask
  SupersededTasksAreStopped
  SettledDocumentIsShown
  EveryTaskAccounted
PROPERTIES
  DeliveryPromise
