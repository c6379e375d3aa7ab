CONSTANTS
  LastVisible = 1
  LastVblank = 3
  MaxLatch = 1
  Programs <- AllPrograms
  Leads = {2}
SPECIFICATION Spec
INVARIANTS
  TypeOK
  IrqLineMatches
  OneTickPerLine
PROPERTIES
  IrqOnTime
