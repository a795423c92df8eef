SPECIFICATION FairSpec
CONSTANTS
  Threads = {t1, t2}
  Resources = {r1, r2}
  max = 2
  CreateMayFail = TRUE
CHECK_DEADLOCK FALSE
PROPERTY ShutdownCompletes
