SPECIFICATION InteractiveSpec
CONSTANTS
  a = a
  b = b
  c = c
  small = small
  big = big
  i1 = i1
  identity = identity
  t1 = t1
  full = full
  v1 = v1
  cross = cross
  axis = axis
  g = g
  r = r
  d = d
  m = m
  k = k
  t2 = t2
  s1 = s1
  s2 = s2
  l1 = l1
  l2 = l2
  fill = fill
  text = text
  n1 = n1
  n2 = n2
  up = up
  down = down
  m1 = m1
  nan = nan
  Missing = Missing
  None = None
  Absent = Absent
  Wells <- TwoWells
  Revisions <- MCRevisions
  CurveSets = {small, big}
  LargeCurveSets = {big}
  Interpretations = {i1}
  WithoutMasks <- NothingMasked
  Presentations = {identity, t1}
  Viewports = {full, v1}
  FullRange = full
  DocumentsOf <- MCDocumentsOf
  Identity = identity
  Alignment <- MCAlignment
  Layouts <- MCLayouts
  Overlays <- MCOverlays
  HorizontalViews <- MCViews
  SceneWidth = 2
  DefaultWidth = 3
  Gap = 1
  Crosshairs = {cross}
  MaxCommands = 5
  Nothing = Nothing
  PreparedScenes <- MCScenes
  Edges <- MCEdges
  Fingerprint <- MCFingerprint
  SceneTiles <- MCSceneTiles
  TileBytes <- MCTileBytes
  MaximumCacheBytes = 4
  MaximumBytesPerFrame = 2
  MaximumImageTextureBytes = 2
  Failing = {"drop", "allocate", "chunk", "retire", "primitives", "pattern", "glyph"}
  Resolvers <- MCResolvers
  MaxEvents = 5
  Models <- MCModels
  Contents <- MCContents
  Ranges <- MCRanges
  MaxRow = 3
  CellLimit = 5
  MaxChanges = 3
INVARIANTS
  SurfaceShowsItsWells
  EditsAreSound
  ViewDrawsOneScene
  TileMemoryWithinBudget
  TableFollowsSelection
  LodIsFaithful
  SceneShowsItsWindow
PROPERTIES
  QueuedUploadEnds
CHECK_DEADLOCK FALSE
