SPECIFICATION Spec
CONSTANTS
  ByteMod = 16
  Group = 8
  Width = 256
  MaxBytes = 3
  FpBytes = 2
  Numbers = {7, 200}
  Payloads <- FullPayloads
  MaxPay = 2
  MaxFlags = 0
  MaxSpare = 0
  MaxWrong = 1
  WrongBytes = {0, 15}
INVARIANTS
  PayFits
CHECK_DEADLOCK FALSE
