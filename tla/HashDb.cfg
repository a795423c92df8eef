SPECIFICATION Spec
SYMMETRY Perms
CONSTANTS
  k1 = k1
  k2 = k2
  k3 = k3
  a = a
  b = b
  c1 = c1
  c2 = c2
  None = None
  Blank = Blank
  FREE = FREE
  IDXEND = IDXEND
  DATFILE = DATFILE
  Chains = {c1, c2}
  Hash <- HashOf
  KeyLen <- KeyLenOf
  DataLen <- DataLenOf
  Procs = {p1, p2}
  Scanners = {}
  Keys = {k1, k2, k3}
  Vals = {a, b}
  Ops = {"fetch", "delete", "insert", "replace", "store"}
  MaxRecords = 3
INVARIANTS TypeOK LockOrder ChainsMatch FreeListSound NoRecordLost
PROPERTY IsTable
