SPECIFICATION PipelineFairSpec
CONSTANTS
  None = None
  Torn = Torn
  v1 = v1
  v2 = v2
  a = a
  b = b
  Inputs = {v1, v2}
  Targets = {a, b}
  TargetsOf <- MCTargetsOf
  Edits = {e1, e2}
  Concurrency = 2
  MaxRuns = 3
  MaxEdits = 2
INVARIANTS CheckpointsSound OwnCheckpointsBind
PROPERTIES StagesAreQueues EveryRunEnds
CHECK_DEADLOCK FALSE
