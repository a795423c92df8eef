CONSTANTS
  Elem = {a, b}
  Zero = zero
  size = 3
  Builds = {"two_stores"}
SPECIFICATION Spec
INVARIANT FreeSpaceInRange
