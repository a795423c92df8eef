CONSTANTS
  Works = {k1}
  num_workers = 1
  ReadChunk = 2
  PipeCapacity = 2
  CallSets = {{"reuse"}}
SPECIFICATION FairSpec
PROPERTY AddedIsRun
CHECK_DEADLOCK FALSE
