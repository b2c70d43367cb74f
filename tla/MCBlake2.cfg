SPECIFICATION Spec
CONSTANTS
  Zero = Zero
  Byte1 = Byte1
  Garbage = Garbage
  BlockBytes = 2
  KeyBytes = 1
  OutBytes = 2
  WordMod = 4
  BlockBytes2b = 4
  KeyBytes2b = 2
  OutBytes2b = 2
  WordMod2b = 8
  SpDegree = 2
  BpDegree = 3
  XsMax = 10
  XbMax = 10
  OffsetMod = 4
  SizeMod = 16
  Byte = {Zero, Byte1}
  MaxMsg2s = 5
  Keys2s <- AllKeys
  Lens2s = {0, 1, 2, 3}
  Apis = {"s", "sp", "bp", "xs", "xb"}
  Keys <- SomeKeys
  Lens <- SomeLens
  MaxMsg <- Longest
INVARIANTS
  TypeOK
  Streamed
  Distinct
  CallsAgree
  TreeStreamed
  TreeDistinct
  XofStreamed
  NoBlockTwice
PROPERTIES
  DigestOnce
  Returns
CHECK_DEADLOCK FALSE
