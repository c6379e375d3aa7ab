CONSTANTS
  LastVisible = 0
  LastVblank = 2
  Temps <- PaletteTemps
  Ctrls <- MCCtrls
  Scrolls = {255}
  AddrBytes = {0, 63}
  ProgramDots = {0, 257}
  MaxAccesses = 2
SPECIFICATION Spec
PROPERTIES
  PaletteReadDirectly
