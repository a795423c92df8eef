CONSTANTS
  Elem = {a, b}
  Zero = zero
  size = 3
  Builds = {"one_store", "serialised"}
SPECIFICATION Spec
INVARIANTS TypeOK FreeSpaceInRange CopiesDisjoint
PROPERTY IsFifo
