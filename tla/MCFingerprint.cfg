SPECIFICATION Spec
CONSTANTS
  ByteMod = 2
  Keys <- SomeKeys
  Null = Null
  Zero = 0
  Garbage = Garbage
  BlockBytes = 4
  KeyBytes = 2
  OutBytes = 4
  WordMod = 8
  Hdr = {1, 2}
  Num = {1, 2}
  Pay <- SomePays
  HdrSize = 2
  NumSize = 2
  Orders = {"little", "big"}
  Asserts = TRUE
  Nothing = Nothing
  Placeholder = Placeholder
INVARIANTS
  Verified
PROPERTIES
  AssertsHold
CHECK_DEADLOCK FALSE
