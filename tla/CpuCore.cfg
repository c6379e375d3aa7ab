CONSTANTS
  Half = 2
  IndexRegs = {"x"}
  MaxBytes = 2
SPECIFICATION CoreSpec
INVARIANTS
  CoreTypeOK
  WideArithmetic
  OppositeBranches
PROPERTIES
  OrderExact
