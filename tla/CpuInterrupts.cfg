CONSTANTS
  PageSize = 1
  Pages = 2
  StackSize = 6
  NmiVector = 0
  IrqVector = 1
  MaxOpen = 2
SPECIFICATION Spec
INVARIANTS
  TypeOK
  MaskedInHandler
PROPERTIES
  FramesRestored
  NotPassedOver
