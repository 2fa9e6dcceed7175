SPECIFICATION Spec
CONSTANTS
  a = a
  b = b
  lost = lost
  null = null
  plain = plain
  comma = comma
  metres = metres
  seconds = seconds
  None = None
INVARIANT
  DirectoryIsMeasured
CHECK_DEADLOCK FALSE
