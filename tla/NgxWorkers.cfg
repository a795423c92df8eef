CONSTANTS
  p1 = p1
  p2 = p2
  p3 = p3
  p4 = p4
  Procs = {p1, p2, p3, p4}
  Master = m
  None = None
  MaxDisabled = 1
  Setups <- MCSetups
SPECIFICATION FairSpec
INVARIANTS TypeOK LockWord SemBalance NoLostWakeup RwExclusion RwWord AcceptReleased AcceptTurns
PROPERTIES FreeLockTaken ZoneLockImplemented AcceptLockImplemented
CHECK_DEADLOCK FALSE
