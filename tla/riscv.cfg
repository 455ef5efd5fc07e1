SPECIFICATION RiscvSpec
CONSTANTS
  Names = {"mstatus", "medeleg", "mideleg", "mie", "mip", "mtvec", "misa", "mcause",
           "sstatus", "sie", "sip", "stvec", "satp", "scause", "ustatus", "uie", "uip",
           "utvec", "fcsr", "hstatus", "hedeleg", "hcounteren", "hideleg", "hvip", "hip",
           "hie", "hgatp", "vsatp", "vscause", "vsie", "vsip", "vstvec", "vsstatus"}
  MaxOps = 2
  MaxCalls = 3
  MaxNesting = 3
  MaxPrograms = 3
  Half = 3
  MaxTicks = 12
  Schemes = {"Rv32PageTable", "Rv39PageTable", "Rv48PageTable", "Rv32PageTableGuest",
             "Rv39PageTableGuest", "Rv48PageTableGuest", "Rv32PageTableX4",
             "Rv39PageTableX4", "Rv48PageTableX4"}
  TableFrames = 3
INVARIANTS RegistersAgree CriticalSections ReadIsCurrent
PROPERTY PagesMapped
CHECK_DEADLOCK FALSE
