--------------------------- MODULE MCFingerprint ---------------------------
(***************************************************************************)
(* An instance of Fingerprint for TLC: bytes of one bit, two in a number.  *)
(***************************************************************************)
EXTENDS Fingerprint

SomeKeys == {Null, <<>>, <<0>>, <<0, 0>>, <<0, 0, 0>>}
SomePays == {<<>>, <<0>>}
=============================================================================
