\* One device makes more calls than there are sequence numbers, some failing for
\* want of room: larger numbers take more bytes, so that a buffer large enough for
\* one call is too small for the next.  Its context is made anew and its key
\* changes, by lfc_init or under it; one key is too long to be used.  It hears
\* all of its own frames, those of earlier contexts and keys included.
CONSTANTS
  None = None
  K1 = K1
  K2 = K2
  Long = Long
  a = a
  b = b
  Placeholder = Placeholder
  Noise = Noise
  Undecodable = Undecodable
  Missing = Missing
  NoMsg = NoMsg
  Node = {n1}
  Key = {None, K1, Long}
  LongKey = {Long}
  Cfg <- KeyCfg
  Oui <- MCOui
  Did <- MCDid
  Byte = {a}
  MaxPayLen = 1
  SeqMod = 3
  Flags = {0}
  VarBase = 2
  TxCap = {12, 13}
  RxCap = {1}
  Asserts = FALSE
  MaxCalls = 4
  MaxInits = 2
  MaxDamage = 0
SPECIFICATION Spec
INVARIANTS TypeOK SeqFresh Receivable Authentic
CHECK_DEADLOCK FALSE
