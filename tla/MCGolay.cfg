\* Every error of up to four bits, and every error in the parity half, on three
\* symbols.
CONSTANTS
  Symbols <- Headers
  FreeBits <- ParityBits
  MaxFlips = 4
  Unset = {99}
SPECIFICATION Spec
INVARIANTS TypeOK Corrects DetectsFour Honest ErrorDecides
CHECK_DEADLOCK FALSE
