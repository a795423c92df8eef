CONSTANTS
  Works = {k1}
  num_workers = 1
  ReadChunk = 2
  PipeCapacity = 2
  CallSets = {{"cancel", "reuse"}}
SPECIFICATION Spec
INVARIANT CancelledNotRun
CHECK_DEADLOCK FALSE
