\* A frame whose header no codeword is close to.
CONSTANTS
  None = None
  K1 = K1
  K2 = K2
  Long = Long
  a = a
  b = b
  Placeholder = Placeholder
  Noise = Noise
  Undecodable = Undecodable
  Missing = Missing
  NoMsg = NoMsg
  Node = {n1}
  Key = {K1}
  LongKey = {}
  Cfg <- OneCfg
  Oui <- MCOui
  Did <- MCDid
  Byte = {a}
  MaxPayLen = 1
  SeqMod = 3
  Flags = {0, 1}
  VarBase = 128
  TxCap = {11}
  RxCap = {1}
  Asserts = FALSE
  MaxCalls = 1
  MaxInits = 1
  MaxDamage = 1
SPECIFICATION Spec
INVARIANTS UndecodableRefused
CHECK_DEADLOCK FALSE
