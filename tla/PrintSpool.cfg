SPECIFICATION FairSpec
CONSTANTS
  Clients = {c1, c2}
  MaxJob = 2
  Blocks = 1
  MaxCrashes = 2
  None = None
  Short = Short
INVARIANTS TypeOK SpoolKept PrintedIntact PrintedOnce InOrder
PROPERTY AckedPrinted
CHECK_DEADLOCK FALSE
