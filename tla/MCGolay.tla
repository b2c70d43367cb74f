------------------------------ MODULE MCGolay ------------------------------
(***************************************************************************)
(* An instance of Golay for TLC.  ErrorDecides, which is proved, makes one *)
(* symbol enough for the other properties, and the errors confined to the  *)
(* parity half enough for a property of every word: each word is a         *)
(* codeword with such an error.                                            *)
(***************************************************************************)
EXTENDS Golay

\* The symbol of no bits, a plain monolithic header, one with every bit.
Headers == {{}, {6}, 0..11}
ParityBits == 12..23
=============================================================================
