SPECIFICATION FairSpec
CONSTANTS
  Threads = {t1, t2, t3}
  Resources = {r1, r2, r3, r4}
  max = 2
  CreateMayFail = TRUE
CHECK_DEADLOCK FALSE
INVARIANTS CountsMatch EachOnce PoolOutlivesChildren NoLostWakeup
PROPERTIES ResourceServed IntactCloses
