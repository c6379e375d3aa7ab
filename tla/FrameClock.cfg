CONSTANTS
  LastVisible = 0
  LastVblank = 2
  MaxInstr = 2
  DmaBytes = 5
  MaxDmas = 1
SPECIFICATION FairSpec
INVARIANTS
  TypeOK
  TimeInv
  DriftFree
  CycleCountBounded
PROPERTIES
  FrameNotLost
  FramesGoOn
