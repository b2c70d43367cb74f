SPECIFICATION Spec
CONSTANTS
  ByteMod = 16
  Group = 8
  Width = 256
  MaxBytes = 3
  FpBytes = 2
  Numbers = {7, 200}
  Payloads <- AllPayloads
  MaxPay = 2
  MaxFlags = 1
  MaxSpare = 1
  MaxWrong = 1
  WrongBytes = {0, 15}
INVARIANTS
  TypeOK
  RoundTrip
  FitsExactly
  CutShows
  GarbledHeader
  PayOverruns
  EqTells
CHECK_DEADLOCK FALSE
