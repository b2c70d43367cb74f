\* One damaged copy of a frame, damaged in every way; two addresses, one key;
\* no wrap; the build keeps its assertions.
CONSTANTS
  None = None
  K1 = K1
  K2 = K2
  Long = Long
  a = a
  b = b
  Placeholder = Placeholder
  Noise = Noise
  Undecodable = Undecodable
  Missing = Missing
  NoMsg = NoMsg
  Node = {n1, n2}
  Key = {K1}
  LongKey = {}
  Cfg <- PairCfg
  Oui <- MCOui
  Did <- MCDid
  Byte = {a, b}
  MaxPayLen = 1
  SeqMod = 2
  Flags = {0}
  VarBase = 128
  TxCap = {10, 11}
  RxCap = {0, 1}
  Asserts = TRUE
  MaxCalls = 1
  MaxInits = 1
  MaxDamage = 1
SPECIFICATION Spec
INVARIANTS Authentic HandedOver Receivable
PROPERTIES BufferKept ImplementsChannel
CHECK_DEADLOCK FALSE
