SPECIFICATION TeardownSpec
CONSTANTS
  w1 = w1
  w2 = w2
  lod1 = lod1
  frame1 = frame1
  frame2 = frame2
  NoJob = NoJob
  NoWorker = NoWorker
  Workers <- MCWorkers
  Jobs <- MCJobs
  TextJobs <- MCFrameJobs
  FrameJobs <- MCFrameJobs
INVARIANTS
  EveryJobInOnePlace
  NothingOutlivesSession
  TextShapingExclusive
PROPERTIES
  NoBuildStartsAfterDrain
  TeardownReturns
  JobsFinish
\* A destroyed session has no further step.
CHECK_DEADLOCK FALSE
