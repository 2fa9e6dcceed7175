SPECIFICATION ExportsSpec
CONSTANTS
  opaque = opaque
  half = half
  none = none
  j1 = j1
  j2 = j2
  j3 = j3
  here = here
  there = there
  path = path
  a = a
  b = b
  lost = lost
  null = null
  plain = plain
  comma = comma
  metres = metres
  seconds = seconds
  None = None
  Jobs <- MCJobs
  Paths <- MCPaths
  Processes <- MCProcesses
  ProcessOf <- MCProcessOf
  Tiles = 2
  EmitNumerator = 3
  EmitDenominator = 4
  MaxStarts = 2
  MaxCalls = 1
  Scenes <- MCScenes
  PageSpecs <- MCPageSpecs
  MaxWindows = 4
  CrossSizes = {1, 2, 5, 9, 24}
INVARIANTS
  PagesShowEveryRow
  PdfPaintsEachItem
  PicturesKeepTheScene
  RasterReadsBack
  JobsKeepTheirFiles
  TablesReadBack
PROPERTIES
  TargetsReplacedAtomically
  EveryJobEnds
CHECK_DEADLOCK FALSE
