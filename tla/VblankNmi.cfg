CONSTANTS
  LastVisible = 0
  LastVblank = 3
  MaxInstr = 2
  InterruptCycles = 2
  DmaBytes = 1
  MaxDmas = 1
SPECIFICATION FairSpec
INVARIANTS
  TypeOK
  VblankFlag
  NmiEveryEdge
PROPERTIES
  NmiOnlyForEdge
  NmiKeptButForDma
  NmiServed
