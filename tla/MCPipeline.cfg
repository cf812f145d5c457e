SPECIFICATION PipelineSpec
CONSTANTS
  t1 = t1
  t2 = t2
  Tasks <- TwoTasks
  Options <- FullFirst
  SkipReady = TRUE
  FailFast = FALSE
  MaxRuns = 2
  MaxBatches = 2
INVARIANTS
  PipelineTypeOK
  
  RecordSound
PROPERTIES
  PublishedKept
CHECK_DEADLOCK FALSE
