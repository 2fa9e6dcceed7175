SPECIFICATION Spec
CONSTANTS
  Missing = Missing
  None = None
INVARIANT
  FillsBreakAtGaps
CHECK_DEADLOCK FALSE
