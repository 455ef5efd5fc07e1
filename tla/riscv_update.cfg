SPECIFICATION RiscvSpec
CONSTANTS
  Names = {"mcause"}
  MaxOps = 2
  MaxCalls = 3
  MaxNesting = 3
  MaxPrograms = 3
  Half = 3
  MaxTicks = 12
  Schemes = {"Rv39PageTable"}
  TableFrames = 3
PROPERTY UpdatesExisting
CHECK_DEADLOCK FALSE
