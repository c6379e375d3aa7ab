CONSTANTS
  LastVisible = 1
  LastVblank = 3
  Temps <- MCTemps
  Ctrls <- MCCtrls
  Scrolls = {255}
  AddrBytes = {0, 63}
  ProgramDots = {0, 129, 257, 289}
  MaxAccesses = 3
SPECIFICATION Spec
INVARIANTS
  TypeOK
  ScrollPosition
  AddressKept
