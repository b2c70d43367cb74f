------------------------------ MODULE MCVarint ------------------------------
(***************************************************************************)
(* An instance of Varint for TLC, scaled down: two bits of a five-bit number *)
(* in each byte of three bits.  As in the code the last byte has more bits *)
(* than the number has left for it.                                        *)
(***************************************************************************)
EXTENDS Varint

\* Every buffer of up to four bytes.
Anything == UNION {[1..n -> 0..7] : n \in 0..4}
=============================================================================
