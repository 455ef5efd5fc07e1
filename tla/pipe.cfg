SPECIFICATION FairSpec
CONSTANTS
  Size = 2
  Byte = {a, b}
  Zero = a
  Procs = {p1, p2, p3}
  Readers = {p2}
  Sizes = {1, 3}
  Buffers <- SmallAndLarge
  MaxSent = 4
PROPERTIES StreamSpec ShortReadIsEof WriteIsComplete CallsEnd
CHECK_DEADLOCK FALSE
