----------------------------- MODULE Fingerprint -----------------------------
(***************************************************************************)
(* lfc_fingerprint.c: the fingerprint of a monolithic datagram, and its    *)
(* verification from a hash of the payload, which are two routines that    *)
(* feed the same fields to the hash, each in its own code.  A device makes *)
(* fingerprints, one after the other in the same memory, and a router,     *)
(* which may take the datagram for another one or have another key,        *)
(* verifies what is there.                                                 *)
(*                                                                         *)
(* The hash is BLAKE2s as Blake2Node has it, call by call; Blake2s shows   *)
(* that its loops do that.                                                 *)
(***************************************************************************)
EXTENDS Cursor, Blake2Node

CONSTANTS
  Keys,       \* keys: sequences of bytes, or Null
  Null,       \* no key, of whatever length
  Hdr,        \* header words
  Num,        \* organizations, devices and sequence numbers
  Pay,        \* payloads
  HdrSize,    \* sizeof(uint16_t)
  NumSize,    \* sizeof(uint32_t)
  Orders,     \* byte orders of the two processors
  Asserts,    \* whether the build keeps assert()
  Nothing,    \* no arguments
  Placeholder \* what *out holds before there ever was a fingerprint in it

Byte == 0..(ByteMod - 1)

\* The numbers in N are told apart by the n bytes they have in memory.
Fit(N, n) == \A v, w \in N : PackLe(v, n) = PackLe(w, n) => v = w

ASSUME FingerprintAssumption ==
  /\ Zero \in Byte
  /\ Keys \subseteq {Null} \union Seq(Byte) /\ Null \notin Seq(Byte)
  /\ Pay \subseteq Seq(Byte)
  /\ HdrSize \in Nat /\ NumSize \in 1..OutBytes
  /\ Hdr \subseteq 0..(Power(ByteMod, HdrSize) - 1) /\ Fit(Hdr, HdrSize)
  /\ Num \subseteq 0..(Power(ByteMod, NumSize) - 1) /\ Fit(Num, NumSize)
  /\ Orders \subseteq {"little", "big"}

Args == [key : Keys, hdr : Hdr, oui : Num, did : Num, seq : Num, pay : Pay]

ASSUME NothingAssumption == Nothing \notin Args

VARIABLES
  at,      \* "device", "verified" or "aborted"
  order,   \* history: byte orders of device and router
  made,    \* history: what *out is the fingerprint of
  asked,   \* history: what the router verified it for
  fp,      \* the device's *out, which is then the datagram's fp
  res,     \* what lfc_fingerprint_monolithic returned last
  vres     \* what lfc_fingerprint_monolithic_verify returned

vars == <<at, order, made, asked, fp, res, vres>>

\* Values are fed to the hash as they are in memory.
Native(o, v, n) ==
  [i \in 1..n |-> PackLe(v, n)[IF o = "little" THEN i ELSE n + 1 - i]]

\* key && key_len
HashKey(k) == IF k = Null THEN <<>> ELSE k

\* blake2s_init_key refuses the key.
Fails(k) == Refused(NumSize, HashKey(k))

\* blake2s_init or blake2s_init_key, the updates in their order, blake2s_final.
\* A fingerprint is a digest of the size of a number.
Begun(k) == Keyed(InitParam(SequentialParam(NumSize, HashKey(k))), HashKey(k))
Updated(S, pieces) ==
  NodeUpdate(NodeUpdate(NodeUpdate(NodeUpdate(NodeUpdate(S,
    pieces[1]), pieces[2]), pieces[3]), pieces[4]), pieces[5])
HashOf(k, pieces) == NodeFinal(Updated(Begun(k), pieces), NumSize).out

PayHash_Nothing(pay) == OneCall(OutBytes, <<>>, <<>>).out

\* lfc_payload_hash; it has no key.
PayHash(pay) == OneCall(OutBytes, pay, <<>>).out

FingerprintPieces(o, a, payHash) ==
  <<Native(o, a.hdr, HdrSize), Native(o, a.oui, NumSize), Native(o, a.did, NumSize),
    Native(o, a.seq, NumSize), payHash>>

VerifyPieces_DidFirst(o, a, payHash) ==
  <<Native(o, a.hdr, HdrSize), Native(o, a.did, NumSize), Native(o, a.oui, NumSize),
    Native(o, a.seq, NumSize), payHash>>

VerifyPieces(o, a, payHash) ==
  <<Native(o, a.hdr, HdrSize), Native(o, a.oui, NumSize), Native(o, a.did, NumSize),
    Native(o, a.seq, NumSize), payHash>>

VerifyResult(o, f, k, payHash, a) ==
  IF Fails(k) THEN "err_exception"
  ELSE IF f = HashOf(k, VerifyPieces(o, a, payHash)) THEN "ok" ELSE "err_fingerprint"

Init ==
  /\ at = "device"
  /\ order \in [device : Orders, router : Orders]
  /\ made = Nothing
  /\ asked = Nothing
  /\ fp = Placeholder
  /\ res = "none"
  /\ vres = "none"

\* lfc_fingerprint_monolithic, for a.  It leaves what an earlier call put in *out
\* when it is refused.  The asserts: *out has changed, and what was made verifies.
FingerprintMonolithic(a) ==
  /\ at = "device"
  /\ IF Fails(a.key)
       THEN res' = "err_exception" /\ UNCHANGED <<at, made, fp>>
       ELSE /\ fp' = HashOf(a.key, FingerprintPieces(order.device, a, PayHash(a.pay)))
            /\ made' = a
            /\ IF Asserts /\ \/ fp' = fp
                             \/ VerifyResult(order.device, fp', a.key, PayHash(a.pay), a) # "ok"
                 THEN at' = "aborted" /\ res' = res
                 ELSE at' = at /\ res' = "ok"
  /\ UNCHANGED <<order, asked, vres>>

\* lfc_payload_hash and lfc_fingerprint_monolithic_verify, for a: whatever the
\* device's call returned, what is in *out may have been sent.
FingerprintVerify(a) ==
  /\ at = "device" /\ res # "none"
  /\ vres' = VerifyResult(order.router, fp, a.key, PayHash(a.pay), a)
  /\ asked' = a
  /\ at' = "verified"
  /\ UNCHANGED <<order, made, fp, res>>

Next == \E a \in Args : FingerprintMonolithic(a) \/ FingerprintVerify(a)

Spec == Init /\ [][Next]_vars

(***************************************************************************)
(* Properties.                                                             *)
(***************************************************************************)
\* Of no key, a null one and an empty one the hash is the same.
SameArgs(a, b) ==
  /\ a.key = b.key \/ {a.key, b.key} = {Null, <<>>}
  /\ [a EXCEPT !.key = Null] = [b EXCEPT !.key = Null]

\* What is in *out is accepted for what it was made of, with no other key, header,
\* address, sequence number or payload, by a processor of the same byte order:
\* after a call that was refused still for what an earlier one was given, and
\* never for what the refused one was.
Verified ==
  at = "verified" /\ made # Nothing /\ order.device = order.router =>
    (vres = "ok" <=> SameArgs(made, asked))

\* lfc_fingerprint_monolithic aborts only when *out already is the fingerprint it
\* was called for, left there by an earlier call: its own verification agrees
\* with it, and fingerprints of other arguments are other ones.
AssertsHold ==
  [][at' = "aborted" => made # Nothing /\ SameArgs(made, made')]_vars
=============================================================================
