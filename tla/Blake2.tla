-------------------------------- MODULE Blake2 --------------------------------
(***************************************************************************)
(* The library extra/blake2 as its callers see it: one caller, that uses   *)
(* one of the five kinds of context for as many messages as it likes, or   *)
(* the function that needs none.  No two contexts share anything.          *)
(*                                                                         *)
(* The constants of Blake2Node are those of BLAKE2s here; those of BLAKE2b *)
(* have names of their own.                                                *)
(***************************************************************************)
EXTENDS Blake2Node

CONSTANTS
  BlockBytes2b, KeyBytes2b, OutBytes2b, WordMod2b,
  SpDegree,    \* PARALLELISM_DEGREE of blake2sp-ref.c, 8
  BpDegree,    \* PARALLELISM_DEGREE of blake2bp-ref.c, 4
  XsMax,       \* 0xFFFF
  XbMax,       \* 0xFFFFFFFF
  OffsetMod,   \* 2^32
  SizeMod,     \* 2^32 or 2^64, for size_t
  Byte,        \* bytes of the messages of blake2s
  MaxMsg2s,    \* bound: their length
  Keys2s,      \* their keys; the empty one is NULL, or of no length
  Lens2s,      \* digest lengths asked for
  Apis,        \* kinds of context in use
  Keys,        \* keys of the other kinds
  Lens,        \* lengths of digests and outputs asked for, for each of them
  MaxMsg       \* bound: lengths of the messages, for each of them

ASSUME Blake2Assumption ==
  /\ BlockBytes2b \in Nat \ {0} /\ KeyBytes2b \in KeyBytes..BlockBytes2b
  /\ KeyBytes2b <= BlockBytes /\ OutBytes2b \in Nat \ {0}
  /\ WordMod2b \in Nat /\ WordMod2b > BlockBytes2b
  /\ {SpDegree, BpDegree, XsMax, XbMax, OffsetMod, SizeMod} \subseteq Nat \ {0}
  /\ Zero \in Byte /\ Keys2s \union Keys \subseteq Seq(Byte) /\ Lens2s \subseteq Nat
  /\ Apis \subseteq {"s", "sp", "bp", "xs", "xb"}
  /\ \A a \in Apis \ {"s"} : Lens[a] \subseteq 0..(SizeMod - 1) /\ MaxMsg[a] \in Nat

VARIABLES api, at, st, in, loc, out, res, key, msg

call == <<at, st, in, loc, out, res, key, msg>>
vars == <<api, at, st, in, loc, out, res, key, msg>>

S  == INSTANCE Blake2s
Sp == INSTANCE Blake2Tree WITH Degree <- SpDegree
Bp == INSTANCE Blake2Tree WITH
        BlockBytes <- BlockBytes2b, KeyBytes <- KeyBytes2b, OutBytes <- OutBytes2b,
        WordMod <- WordMod2b, Degree <- BpDegree
Xs == INSTANCE Blake2x WITH XofMax <- XsMax, StreamKeys <- KeyBytes2b
Xb == INSTANCE Blake2x WITH
        BlockBytes <- BlockBytes2b, KeyBytes <- KeyBytes2b, OutBytes <- OutBytes2b,
        WordMod <- WordMod2b, XofMax <- XbMax, StreamKeys <- KeyBytes2b

Init ==
  /\ api \in Apis
  /\ at = "idle"
  /\ st = Garbage
  /\ in = <<>>
  /\ loc = Garbage
  /\ out = Garbage
  /\ res = 0
  /\ key = <<>>
  /\ msg = <<>>

(***************************************************************************)
(* Messages.  Those of blake2s are of all bytes.  The other code only      *)
(* moves bytes to where they are hashed: each byte is its place in the     *)
(* message there, so that one message of each length stands for all.       *)
(***************************************************************************)
Messages2s == UNION {[1..n -> Byte] : n \in 0..MaxMsg2s}
Pieces2s == UNION {[1..n -> Byte] : n \in 0..(MaxMsg2s - Len(msg))}
Place(n) == [j \in 1..n |-> [place |-> j]]
Pieces == {DropFirst(Place(n), Len(msg)) : n \in Len(msg)..MaxMsg[api]}
Messages == {Place(n) : n \in 0..MaxMsg[api]}

\* Bound: a caller that has its digest and was refused another asks no more.
Asks == out = Garbage \/ res = 0

----------------------------------------------------------------------------
In(a) == api = a /\ UNCHANGED api

SInit == In("s") /\ \E n \in Lens2s, k \in Keys2s : S!Blake2sInit(n, k)
SUpdate == In("s") /\ \E p \in Pieces2s : S!Update(p)
SFinal == In("s") /\ Asks /\ \E n \in Lens2s : n <= OutBytes /\ S!Final(n)
SStep == In("s") /\ S!Step

SpInit == In("sp") /\ \E n \in Lens[api], k \in Keys : Sp!TreeInit(n, k)
SpUpdate == In("sp") /\ \E p \in Pieces : Sp!TreeUpdate(p)
SpFinal == In("sp") /\ Asks /\ \E n \in Lens[api] : Sp!TreeFinal(n)
SpOne == In("sp") /\ \E n \in Lens[api], m \in Messages, k \in Keys : Sp!TreeOne(n, m, k)
SpStep == In("sp") /\ Sp!TreeStep

BpInit == In("bp") /\ \E n \in Lens[api], k \in Keys : Bp!TreeInit(n, k)
BpUpdate == In("bp") /\ \E p \in Pieces : Bp!TreeUpdate(p)
BpFinal == In("bp") /\ Asks /\ \E n \in Lens[api] : Bp!TreeFinal(n)
BpOne == In("bp") /\ \E n \in Lens[api], m \in Messages, k \in Keys : Bp!TreeOne(n, m, k)
BpStep == In("bp") /\ Bp!TreeStep

XsInit == In("xs") /\ \E n \in Lens[api], k \in Keys : Xs!XofInit(n, k)
XsUpdate == In("xs") /\ \E p \in Pieces : Xs!XofUpdate(p)
XsFinal == In("xs") /\ Asks /\ \E n \in Lens[api] : Xs!XofFinal(n)
XsOne == In("xs") /\ \E n \in Lens[api], m \in Messages, k \in Keys : Xs!XofOne(n, m, k)
XsStep == In("xs") /\ Xs!XofStep

XbInit == In("xb") /\ \E n \in Lens[api], k \in Keys : Xb!XofInit(n, k)
XbUpdate == In("xb") /\ \E p \in Pieces : Xb!XofUpdate(p)
XbFinal == In("xb") /\ Asks /\ \E n \in Lens[api] : Xb!XofFinal(n)
XbOne == In("xb") /\ \E n \in Lens[api], m \in Messages, k \in Keys : Xb!XofOne(n, m, k)
XbStep == In("xb") /\ Xb!XofStep

\* The steps of a call that has begun.
Step == SStep \/ SpStep \/ BpStep \/ XsStep \/ XbStep

Next ==
  \/ SInit \/ SUpdate \/ SFinal
  \/ SpInit \/ SpUpdate \/ SpFinal \/ SpOne
  \/ BpInit \/ BpUpdate \/ BpFinal \/ BpOne
  \/ XsInit \/ XsUpdate \/ XsFinal \/ XsOne
  \/ XbInit \/ XbUpdate \/ XbFinal \/ XbOne
  \/ Step

\* A processor that is in a call goes on with it, and so does one of the threads
\* that have something left to do.
Spec == Init /\ [][Next]_vars /\ WF_vars(Step)

(***************************************************************************)
(* Properties.                                                             *)
(***************************************************************************)
\* The states of the contexts, of whichever kind: the buffer of blake2s is empty
\* only until the first byte, the wide ones are never all full when a call
\* returns, and no leaf is then a block behind another.
TypeOK ==
  /\ api = "s"  => S!TypeOK
  /\ api = "sp" => Sp!TreeTypeOK
  /\ api = "bp" => Bp!TreeTypeOK
  /\ api = "xs" => Xs!XofTypeOK
  /\ api = "xb" => Xb!XofTypeOK

\* blake2s: the digest is that of key and message, however the message was cut
\* into pieces, and whatever they or an earlier use left behind in the context.
Streamed == api = "s" => S!Streamed

\* blake2s: no other digest length, key or message has this digest, unless the
\* compression function has a collision.
Distinct == api = "s" => S!Distinct(Lens2s, Keys2s, Messages2s)

\* blake2s: its loops and counter words do what the trees, the outputs of any
\* length and the fingerprints are modelled to rely on.
CallsAgree == api = "s" => S!CallsAgree

\* blake2sp and blake2bp: the digest is that of the tree over the message, in
\* whichever order the threads went, however the message was cut, in pieces or in
\* one call.
TreeStreamed ==
  /\ api = "sp" => Sp!TreeStreamed
  /\ api = "bp" => Bp!TreeStreamed

\* blake2sp and blake2bp: no other digest length, key or message has this digest,
\* unless the compression function has a collision.
TreeDistinct ==
  /\ api = "sp" => Sp!TreeDistinct(Lens[api], Keys, Messages)
  /\ api = "bp" => Bp!TreeDistinct(Lens[api], Keys, Messages)

\* blake2xs and blake2xb: the output is that of key, message and length, however
\* the message was cut, in pieces or in one call.
XofStreamed ==
  /\ api = "xs" => Xs!XofStreamed
  /\ api = "xb" => Xb!XofStreamed

\* blake2xs and blake2xb: no byte of the output comes twice while the numbers of
\* the blocks do not wrap.
NoBlockTwice ==
  /\ api = "xs" => Xs!NoBlockTwice
  /\ api = "xb" => Xb!NoBlockTwice

\* A digest is made once of a context: another final fails, and leaves the digest
\* as it is, for the trees although their leaves and root are given more by then.
DigestOnce == [][out # Garbage /\ out' # Garbage => out' = out]_vars

\* Every call returns: what the loops count down, in words that wrap, comes to its
\* end whatever the length, and the threads of a tree come to the join in any order.
Returns == at # "idle" ~> at = "idle"
=============================================================================
