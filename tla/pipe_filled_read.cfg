SPECIFICATION Spec
CONSTANTS
  Size = 2
  Byte = {a, b}
  Zero = a
  Procs = {p1, p2}
  Readers = {}
  Sizes = {1, 3}
  Buffers <- SmallAndLarge
  MaxSent = 4
INVARIANT FilledReadReturns
CHECK_DEADLOCK FALSE
