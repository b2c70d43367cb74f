------------------------------- MODULE Blake2x -------------------------------
(***************************************************************************)
(* BLAKE2Xs, blake2xs-ref.c: output of any length, of which each block is  *)
(* a hash of the same root digest, with a number of its own.  BLAKE2Xb,    *)
(* blake2xb-ref.c, is the same code over BLAKE2b.                          *)
(***************************************************************************)
EXTENDS Blake2Context

CONSTANTS
  XofMax,      \* the largest xof_length, 0xFFFF: the length is not known yet
  StreamKeys,  \* the longest key of blake2xs_init_key, BLAKE2B_KEYBYTES
  OffsetMod,   \* 2^32, for node_offset
  SizeMod      \* 2^32 or 2^64, for size_t

\* at is "idle" or "blocks".  st is the blake2xs_state: the root's state S and its
\* parameters P.  loc is left (outlen of blake2xs_final), i, root, *out in done, and
\* whether S is a local as well, of blake2xs; in is not used.

XofParam(n, k) ==
  [SequentialParam(OutBytes, k) EXCEPT !.xof_length = n]

NewState_NoKeyBlock(n, k) ==
  [S |-> InitParam(XofParam(n, k)), P |-> XofParam(n, k)]

NewState(n, k) ==
  [S |-> Keyed(InitParam(XofParam(n, k)), k), P |-> XofParam(n, k)]

XofRefused(n, k) == n \notin 1..XofMax \/ Len(k) > StreamKeys

(***************************************************************************)
(* blake2xs_init and blake2xs_init_key.                                    *)
(***************************************************************************)
XofInit(n, k) ==
  /\ Idle
  /\ IF XofRefused(n, k)
       THEN res' = -1 /\ UNCHANGED <<st, out, key, msg>>
       ELSE /\ st' = NewState(n, k)
            /\ key' = k /\ msg' = <<>> /\ out' = Garbage
            /\ res' = 0
  /\ UNCHANGED <<at, in, loc>>

\* blake2xs_update.
XofUpdate(piece) ==
  /\ Idle /\ Started /\ ~Finished
  /\ st' = [st EXCEPT !.S = NodeUpdate(@, piece)]
  /\ msg' = msg \o piece
  /\ res' = 0
  /\ UNCHANGED <<at, in, loc, out, key>>

(***************************************************************************)
(* blake2xs_final, of n bytes.                                             *)
(***************************************************************************)
Matches(n, P) == IF P.xof_length = XofMax THEN n # 0 ELSE n = P.xof_length

\* The root, and the loop from its first block.
Begin(T, n, local) ==
  LET f == NodeFinal(T.S, OutBytes)
  IN  IF Matches(n, T.P) /\ f.res = 0
        THEN /\ st' = [T EXCEPT !.S = f.st]
             /\ at' = "blocks"
             /\ loc' = [left |-> n, i |-> 0, root |-> f.out,
                        done |-> [j \in 1..n |-> Garbage], local |-> local]
             /\ UNCHANGED res
        ELSE st' = st /\ res' = -1 /\ UNCHANGED <<at, loc>>

XofFinal(n) ==
  /\ Idle /\ Started
  /\ Begin(st, n, FALSE)
  /\ UNCHANGED <<in, out, key, msg>>

BlockParam_NoOffset(P, i, size) ==
  [P EXCEPT !.key_length = 0, !.fanout = 0, !.depth = 0, !.leaf_length = OutBytes,
            !.inner_length = OutBytes, !.digest_length = size]

BlockParam(P, i, size) ==
  [P EXCEPT !.key_length = 0, !.fanout = 0, !.depth = 0, !.leaf_length = OutBytes,
            !.inner_length = OutBytes, !.digest_length = size,
            !.node_offset = i % OffsetMod]

BlockSize_Whole(left) == OutBytes

BlockSize(left) == IF left < OutBytes THEN left ELSE OutBytes

\* left and i are of type size_t: left would wrap if a block was longer.
FinalBlock ==
  /\ at = "blocks" /\ loc.left > 0
  /\ LET size == BlockSize(loc.left)
     IN  \E C \in {NodeUpdate(InitParam(BlockParam(st.P, loc.i, size)), loc.root)} :
           \E f \in {NodeFinal(C, size)} :
             /\ f.res = 0
             /\ loc' = [loc EXCEPT !.left = (@ - size) % SizeMod, !.i = (@ + 1) % SizeMod,
                                   !.done = Overlay(@, loc.i * OutBytes, f.out)]
  /\ UNCHANGED <<at, st, in, out, res, key, msg>>

FinalReturn ==
  /\ at = "blocks" /\ loc.left = 0
  /\ out' = loc.done
  /\ st' = IF loc.local THEN Garbage ELSE st
  /\ at' = "idle" /\ loc' = Garbage
  /\ res' = 0
  /\ UNCHANGED <<in, key, msg>>

(***************************************************************************)
(* blake2xs, of the message m.  Its key may be no longer than a digest's.  *)
(***************************************************************************)
OneRefused(n, k) == Len(k) > KeyBytes \/ XofRefused(n, k)

XofOne(n, m, k) ==
  /\ Idle /\ ~Started
  /\ IF OneRefused(n, k)
       THEN res' = -1 /\ UNCHANGED <<at, st, loc, out, key, msg>>
       ELSE LET T == NewState(n, k)
            IN  /\ Begin([T EXCEPT !.S = NodeUpdate(@, m)], n, TRUE)
                /\ key' = k /\ msg' = m /\ out' = Garbage
  /\ UNCHANGED in

XofStep == FinalBlock \/ FinalReturn

(***************************************************************************)
(* What the output is.                                                     *)
(***************************************************************************)
XofHash(asked, n, k, m) ==
  LET P == XofParam(asked, k)
      root == Bytes(Chain(P, k, m, FALSE), OutBytes)
      Size(i) == Min({OutBytes, n - (i - 1) * OutBytes})
      Block(i) == Bytes(Chain(BlockParam(P, i - 1, Size(i)), <<>>, root, FALSE), Size(i))
  IN  [j \in 1..n |-> Block(((j - 1) \div OutBytes) + 1)[((j - 1) % OutBytes) + 1]]

(***************************************************************************)
(* Properties.                                                             *)
(***************************************************************************)
XofTypeOK ==
  /\ at \in {"idle", "blocks"}
  /\ res \in {0, -1}
  /\ Started => st.S.buflen \in 0..BlockBytes

\* The output is that of key, message and length asked for, however the message
\* was cut, in pieces or in one call; it is as long as was asked for beforehand.
XofStreamed ==
  Finished =>
    LET asked == IF Started THEN st.P.xof_length ELSE Len(out)
    IN  /\ out = XofHash(asked, Len(out), key, msg)
        /\ asked \in {XofMax, Len(out)}

\* No two bytes of the output are the same byte of the same digest, as long as
\* the numbers of the blocks do not wrap.
NoBlockTwice ==
  Finished /\ Len(out) <= OffsetMod * OutBytes =>
    \A p, q \in 1..Len(out) : p # q => out[p] # out[q]
=============================================================================
