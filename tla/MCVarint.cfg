SPECIFICATION Spec
CONSTANTS
  ByteMod = 8
  Group = 4
  Width = 32
  MaxBytes = 3
  Capacity = {0, 1, 2, 3, 4, 5}
  Foreign <- Anything
  MaxCalls = 2
INVARIANTS
  TypeOK
  RoundTrip
  LoopsAgree
PROPERTY
  DstKept
CHECK_DEADLOCK FALSE
