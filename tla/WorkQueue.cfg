CONSTANTS
  Works = {k1, k2}
  num_workers = 2
  ReadChunk = 2
  PipeCapacity = 2
  CallSets = {{"reuse", "destroy"}, {"cancel"}}
SPECIFICATION FairSpec
INVARIANTS TypeOK OneOwner CompleteMeansQuiet CompletedOnce
PROPERTIES YieldedRunsAgain CancelEnds
CHECK_DEADLOCK FALSE
