------------------------------ MODULE Blake2Node ------------------------------
(***************************************************************************)
(* A BLAKE2 hash of one node, call by call: what init, update, final and   *)
(* the one-call function of blake2b-ref.c do, as the trees and the         *)
(* extendable outputs use them.  blake2s-ref.c is the same code for words  *)
(* of half the width; Blake2s has its loops, and checks them against this. *)
(*                                                                         *)
(* The compression function is an ideal one, without collisions: the chain *)
(* value h is the list of all that was compressed into it, after the       *)
(* parameter block it began with, and a byte of a digest is its place in   *)
(* the chain value it was made from.                                       *)
(***************************************************************************)
EXTENDS Integers, Sequences, FiniteSetsExt

CONSTANTS
  Zero,        \* the byte 0
  Garbage,     \* what memory holds that was never written
  BlockBytes,  \* BLAKE2B_BLOCKBYTES, 128
  KeyBytes,    \* BLAKE2B_KEYBYTES, 64
  OutBytes,    \* BLAKE2B_OUTBYTES, 64
  WordMod      \* 2^64, for the words of the byte counter

ASSUME Blake2NodeAssumption ==
  /\ BlockBytes \in Nat \ {0} /\ KeyBytes \in 0..BlockBytes /\ OutBytes \in Nat \ {0}
  /\ WordMod \in Nat /\ WordMod > BlockBytes

Zeros(n) == [i \in 1..n |-> Zero]
Pad(s) == s \o Zeros(BlockBytes - Len(s))
DropFirst(s, n) == SubSeq(s, n + 1, Len(s))

\* memcpy of s into buf, after its first n bytes.
Overlay(buf, n, s) ==
  [i \in DOMAIN buf |-> IF i \in (n + 1)..(n + Len(s)) THEN s[i - n] ELSE buf[i]]

----------------------------------------------------------------------------
(***************************************************************************)
(* The parameter block of a hash that is no part of a tree.  The members   *)
(* that every caller sets to zero, salt and personal, are left out.        *)
(***************************************************************************)
SequentialParam_NoKeyLength(n, k) ==
  [digest_length |-> n, key_length |-> 0, fanout |-> 1, depth |-> 1,
   leaf_length |-> 0, node_offset |-> 0, xof_length |-> 0,
   node_depth |-> 0, inner_length |-> 0]

SequentialParam(n, k) ==
  [digest_length |-> n, key_length |-> Len(k), fanout |-> 1, depth |-> 1,
   leaf_length |-> 0, node_offset |-> 0, xof_length |-> 0,
   node_depth |-> 0, inner_length |-> 0]

\* blake2b_init_param: everything else of the state is cleared.
InitParam(P) ==
  [h |-> [param |-> P, in |-> <<>>], t |-> <<0, 0>>, f |-> <<FALSE, FALSE>>,
   buf |-> Zeros(BlockBytes), buflen |-> 0, outlen |-> P.digest_length,
   last_node |-> FALSE]

\* Lengths that init and init_key return -1 for.
Refused(n, k) == n \notin 1..OutBytes \/ Len(k) > KeyBytes

\* The counter after n more bytes.
Counted(c, n) ==
  LET total == c[1] + WordMod * c[2] + n
  IN  <<total % WordMod, (total \div WordMod) % WordMod>>

\* blake2b_update: of what is in the buffer and what comes, all blocks but the
\* last are compressed, when anything comes.
NodeUpdate(S, s) ==
  LET d     == SubSeq(S.buf, 1, S.buflen) \o s
      count == IF s = <<>> THEN 0 ELSE (Len(d) - 1) \div BlockBytes
      Block(i) == SubSeq(d, (i - 1) * BlockBytes + 1, i * BlockBytes)
      rest  == DropFirst(d, count * BlockBytes)
  IN  [S EXCEPT
        !.t = Counted(@, count * BlockBytes),
        !.h.in = @ \o [i \in 1..count |->
                   [m |-> Block(i), t |-> Counted(S.t, i * BlockBytes), f |-> S.f]],
        !.buf = Overlay(IF count = 0 THEN @ ELSE Block(1), 0, rest),
        !.buflen = Len(rest)]

\* What blake2b_init_key adds to the parameters: the key, as the first block.
Keyed(S, k) == IF k = <<>> THEN S ELSE NodeUpdate(S, Pad(k))

Bytes(h, n) == [i \in 1..n |-> [h |-> h, i |-> i]]

\* blake2b_set_lastblock.
LastFlags(S) == <<TRUE, S.f[2] \/ S.last_node>>

\* blake2b_final, into a buffer of n bytes.
NodeFinal(S, n) ==
  IF n < S.outlen \/ S.f[1]
    THEN [res |-> -1, st |-> S, out |-> [i \in 1..n |-> Garbage]]
    ELSE LET t   == Counted(S.t, S.buflen)
             buf == Pad(SubSeq(S.buf, 1, S.buflen))
             h   == [S.h EXCEPT !.in = Append(@, [m |-> buf, t |-> t, f |-> LastFlags(S)])]
         IN  [res |-> 0,
              st  |-> [S EXCEPT !.t = t, !.f = LastFlags(S), !.buf = buf, !.h = h],
              out |-> Bytes(h, S.outlen)]

\* blake2b, the message m hashed in one call.
OneCall(n, m, k) ==
  IF Refused(n, k)
    THEN [res |-> -1, out |-> [i \in 1..n |-> Garbage]]
    ELSE LET f == NodeFinal(NodeUpdate(Keyed(InitParam(SequentialParam(n, k)), k), m), n)
         IN  [res |-> 0, out |-> f.out]

(***************************************************************************)
(* What a node of BLAKE2 is, for the code to be held against: the input    *)
(* after the key's block, if there is a key, in blocks, each with the      *)
(* number of bytes up to its end, the last one padded and marked, and      *)
(* marked again when the node is the last of its level; one empty block    *)
(* when there is no input.                                                 *)
(***************************************************************************)
Chain(P, k, m, lastNode) ==
  LET d == IF k = <<>> THEN m ELSE Pad(k) \o m
      count == IF d = <<>> THEN 1 ELSE (Len(d) + BlockBytes - 1) \div BlockBytes
      End(i) == Min({i * BlockBytes, Len(d)})
      Block(i) == [m |-> Pad(SubSeq(d, (i - 1) * BlockBytes + 1, End(i))),
                   t |-> <<End(i) % WordMod, (End(i) \div WordMod) % WordMod>>,
                   f |-> <<i = count, i = count /\ lastNode>>]
  IN  [param |-> P, in |-> [i \in 1..count |-> Block(i)]]
=============================================================================
