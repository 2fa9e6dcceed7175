SPECIFICATION Spec
CONSTANTS
  small = small
  tall = tall
  big = big
  i1 = i1
  i2 = i2
  p1 = p1
  p2 = p2
  full = full
  high = high
  None = None
  FullRange = full
  MaxHistory = 2
  Revisions <- ThreeRevisions
  CurveSets <- SmallAndBig
  LargeCurveSets <- OnlyBig
  Interpretations <- OneInterpretation
  WithoutMasks <- NothingMasked
  Presentations <- OnePresentation
  Viewports <- OneViewport
  DepthRanges <- OneRange
  Extent <- Reach
INVARIANTS
  HInv
  HistoryIsAChain
  SelectionMatchesDocument
PROPERTIES
  TimelinePromise
