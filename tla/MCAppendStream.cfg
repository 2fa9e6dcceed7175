SPECIFICATION Spec
CONSTANTS
  c1 = c1
  c2 = c2
  a1 = a1
  a2 = a2
  None = None
  Curves <- TwoCurves
  AxisOf <- OwnAxes
  Depths <- TwoDepths
  Batches <- AllBatches
  Rates <- ZeroAndTenHertz
  MaxRevision = 4
  MaxCommands = 4
INVARIANTS
  EveryBatchWhole
  AxesOrdered
  RefreshRateKept
  StagedAfterFirstFlush
PROPERTIES
  StagedBlocksFlush
