------------------------------ MODULE Blake2Tree ------------------------------
(***************************************************************************)
(* BLAKE2sp, blake2sp-ref.c: a tree of two levels.  The message is dealt   *)
(* out block by block to Degree leaves, and the root hashes their digests. *)
(* BLAKE2bp, blake2bp-ref.c, is the same code over BLAKE2b.                *)
(*                                                                         *)
(* With OpenMP each leaf is a thread, which goes through the input with a  *)
(* pointer of its own; without, the leaves come one after the other, which *)
(* is one of the orders of the threads.  A step is one block of one leaf.  *)
(***************************************************************************)
EXTENDS Blake2Context

CONSTANT Degree   \* PARALLELISM_DEGREE, 8

\* at is "idle", "update" or "one": the call in progress; "root": the end of
\* blake2sp_final and of the one-call function.  st is the blake2sp_state, or the
\* nodes of the one-call function, and in what was not flushed.  loc is left, pos
\* (in__ of each leaf), the leaves' hash, which of their threads ended, i, and
\* whether the nodes are local as well.

Leaves == 0..(Degree - 1)
Wide == Degree * BlockBytes     \* sizeof(S->buf)

(***************************************************************************)
(* The nodes.  Only the leaves are given the key, and their digests are of *)
(* full length, whatever the length that is asked for.                     *)
(***************************************************************************)
LeafParam(n, k, i) ==
  [SequentialParam(n, k) EXCEPT !.fanout = Degree, !.depth = 2, !.node_offset = i,
                                !.inner_length = OutBytes]

RootParam(n, k) ==
  [SequentialParam(n, k) EXCEPT !.fanout = Degree, !.depth = 2, !.node_depth = 1,
                                !.inner_length = OutBytes]

NewLeaf(n, k, i) ==
  Keyed([InitParam(LeafParam(n, k, i)) EXCEPT !.outlen = OutBytes,
                                              !.last_node = (i = Degree - 1)], k)
NewLeaves(n, k) == [i \in Leaves |-> NewLeaf(n, k, i)]
NewRoot(n, k) == [InitParam(RootParam(n, k)) EXCEPT !.last_node = TRUE]

\* Bytes from..to of s, as far as it goes.
Slice(s, from, to) == SubSeq(s, from, Min({to, Len(s)}))

\* The block of leaf i in s, after pos bytes.
BlockOf(s, pos, i) == Slice(s, pos + i * BlockBytes + 1, pos + (i + 1) * BlockBytes)

(***************************************************************************)
(* blake2sp_init, and blake2sp_init_key, which fails without a key.        *)
(***************************************************************************)
TreeInit(n, k) ==
  /\ Idle
  /\ \/ /\ Refused(n, k) \/ k = <<>>
        /\ res' = -1 /\ UNCHANGED <<st, out, key, msg>>
     \/ /\ ~Refused(n, k)
        /\ st' = [S |-> NewLeaves(n, k), R |-> NewRoot(n, k),
                  buf |-> Zeros(Wide), buflen |-> 0, outlen |-> n]
        /\ key' = k /\ msg' = <<>> /\ out' = Garbage
        /\ res' = 0
  /\ UNCHANGED <<at, in, loc>>

(***************************************************************************)
(* blake2sp_update.  A buffer that the input fills is given to the leaves  *)
(* before anything else; then the leaves take what they can directly, and  *)
(* when all are through the rest is put in the buffer.                     *)
(***************************************************************************)
Flushes_WhenOver(T, s) == T.buflen > 0 /\ Len(s) > Wide - T.buflen

Flushes(T, s) == T.buflen > 0 /\ Len(s) >= Wide - T.buflen

Locals(left) == [left |-> left, pos |-> [i \in Leaves |-> 0],
                 hash |-> [i \in Leaves |-> Garbage], ended |-> {}, i |-> 0,
                 local |-> FALSE]

TreeUpdate(piece) ==
  /\ Idle /\ Started /\ ~Finished
  /\ LET fill == Wide - st.buflen
         buf  == Overlay(st.buf, st.buflen, SubSeq(piece, 1, fill))
     IN  IF Flushes(st, piece)
           THEN /\ st' = [st EXCEPT !.buf = buf,
                            !.S = [i \in Leaves |-> NodeUpdate(@[i], BlockOf(buf, 0, i))]]
                /\ in' = DropFirst(piece, fill)
                /\ loc' = Locals(0)
           ELSE st' = st /\ in' = piece /\ loc' = Locals(st.buflen)
  /\ at' = "update"
  /\ msg' = msg \o piece
  /\ UNCHANGED <<out, res, key>>

More(i) == Len(in) - loc.pos[i] >= Wide

LeafBlock_Neighbours(i) ==
  /\ at \in {"update", "one"} /\ More(i)
  /\ st' = [st EXCEPT !.S[i] = NodeUpdate(@, SubSeq(in, loc.pos[i] + 1, loc.pos[i] + BlockBytes))]
  /\ loc' = [loc EXCEPT !.pos[i] = @ + Wide]
  /\ UNCHANGED <<at, in, out, res, key, msg>>

LeafBlock(i) ==
  /\ at \in {"update", "one"} /\ More(i)
  /\ \E block \in {BlockOf(in, loc.pos[i], i)} :
       st' = [st EXCEPT !.S[i] = NodeUpdate(@, block)]
  /\ loc' = [loc EXCEPT !.pos[i] = @ + Wide]
  /\ UNCHANGED <<at, in, out, res, key, msg>>

UpdateJoin ==
  /\ at = "update" /\ \A i \in Leaves : ~More(i)
  /\ \E rest \in {DropFirst(in, Len(in) - (Len(in) % Wide))} :
       st' = [st EXCEPT !.buf = Overlay(@, loc.left, rest), !.buflen = loc.left + Len(rest)]
  /\ at' = "idle" /\ in' = <<>> /\ loc' = Garbage
  /\ res' = 0
  /\ UNCHANGED <<out, key, msg>>

(***************************************************************************)
(* blake2sp_final, into a buffer of n bytes, up to the digests of the      *)
(* leaves.  What their finals return is not looked at.                     *)
(***************************************************************************)
TreeFinal(n) ==
  /\ Idle /\ Started
  /\ IF n < st.outlen
       THEN res' = -1 /\ UNCHANGED <<at, st, loc>>
       ELSE LET Rest(i) == BlockOf(SubSeq(st.buf, 1, st.buflen), 0, i)
                leaf == [i \in Leaves |-> NodeFinal(NodeUpdate(st.S[i], Rest(i)), OutBytes)]
            IN  /\ st' = [st EXCEPT !.S = [i \in Leaves |-> leaf[i].st]]
                /\ loc' = [Locals(0) EXCEPT !.hash = [i \in Leaves |-> leaf[i].out]]
                /\ at' = "root"
                /\ UNCHANGED res
  /\ UNCHANGED <<in, out, key, msg>>

(***************************************************************************)
(* blake2sp, of the message m: the nodes are its locals, and gone with it. *)
(***************************************************************************)
TreeOne(n, m, k) ==
  /\ Idle /\ ~Started
  /\ IF Refused(n, k)
       THEN res' = -1 /\ UNCHANGED <<at, st, in, loc, out, key, msg>>
       ELSE /\ st' = [S |-> NewLeaves(n, k), outlen |-> n]
            /\ at' = "one" /\ in' = m /\ loc' = [Locals(0) EXCEPT !.local = TRUE]
            /\ key' = k /\ msg' = m /\ out' = Garbage
            /\ UNCHANGED res

OneEnd_NoRest(i) ==
  /\ at = "one" /\ ~More(i) /\ i \notin loc.ended
  /\ \E f \in {NodeFinal(st.S[i], OutBytes)} :
       /\ st' = [st EXCEPT !.S[i] = f.st]
       /\ loc' = [loc EXCEPT !.hash[i] = f.out, !.ended = @ \union {i}]
  /\ UNCHANGED <<at, in, out, res, key, msg>>

\* The end of a leaf's thread: the block that is not full, if it has one.
OneEnd(i) ==
  /\ at = "one" /\ ~More(i) /\ i \notin loc.ended
  /\ \E S \in {NodeUpdate(st.S[i], BlockOf(in, loc.pos[i], i))} :
       \E f \in {NodeFinal(S, OutBytes)} :
         /\ st' = [st EXCEPT !.S[i] = f.st]
         /\ loc' = [loc EXCEPT !.hash[i] = f.out, !.ended = @ \union {i}]
  /\ UNCHANGED <<at, in, out, res, key, msg>>

\* The threads are through, and the root is made.
OneRoot ==
  /\ at = "one" /\ loc.ended = Leaves
  /\ st' = [S |-> st.S, R |-> NewRoot(st.outlen, key), outlen |-> st.outlen]
  /\ at' = "root"
  /\ UNCHANGED <<in, loc, out, res, key, msg>>

(***************************************************************************)
(* The end of both: the root is given a digest after the other, and        *)
(* finished.                                                               *)
(***************************************************************************)
Absorb ==
  /\ at = "root" /\ loc.i < Degree
  /\ st' = [st EXCEPT !.R = NodeUpdate(@, loc.hash[loc.i])]
  /\ loc' = [loc EXCEPT !.i = @ + 1]
  /\ UNCHANGED <<at, in, out, res, key, msg>>

RootReturn ==
  /\ at = "root" /\ loc.i = Degree
  /\ \E f \in {NodeFinal(st.R, st.outlen)} :
       /\ st' = IF loc.local THEN Garbage ELSE [st EXCEPT !.R = f.st]
       /\ out' = IF f.res = 0 THEN f.out ELSE out
       /\ res' = f.res
  /\ at' = "idle" /\ in' = <<>> /\ loc' = Garbage
  /\ UNCHANGED <<key, msg>>

TreeStep == (\E i \in Leaves : LeafBlock(i) \/ OneEnd(i)) \/ UpdateJoin
        \/ OneRoot \/ Absorb \/ RootReturn

(***************************************************************************)
(* What the tree is: leaf i has the bytes of the blocks i, i + Degree, ... *)
(* of the message, as many as there are, and the root the leaves' digests. *)
(***************************************************************************)
Stripe(m, i) ==
  LET Place(p) == ((p - 1) \div BlockBytes) * Wide + i * BlockBytes
                    + ((p - 1) % BlockBytes) + 1
  IN  [p \in {q \in 1..Len(m) : Place(q) <= Len(m)} |-> m[Place(p)]]

LeafDigest(n, k, m, i) ==
  Bytes(Chain(LeafParam(n, k, i), k, Stripe(m, i), i = Degree - 1), OutBytes)

TreeHash(n, k, m) ==
  LET leaves == [p \in 1..(Degree * OutBytes) |->
                  LeafDigest(n, k, m, (p - 1) \div OutBytes)[((p - 1) % OutBytes) + 1]]
  IN  Bytes(Chain(RootParam(n, k), <<>>, leaves, TRUE), n)

(***************************************************************************)
(* Properties.                                                             *)
(***************************************************************************)
\* The buffer is never all full when a call returns, and no leaf is then a block
\* behind another.
TreeTypeOK ==
  /\ at \in {"idle", "update", "one", "root"}
  /\ res \in {0, -1}
  /\ Idle /\ Started =>
       /\ st.buflen \in 0..(Wide - 1) /\ Len(st.buf) = Wide
       /\ ~st.R.f[1] => \A i, j \in Leaves : st.S[i].t = st.S[j].t

\* The digest is that of key and message, in whichever order the threads went,
\* however the message was cut, in pieces or in one call.
TreeStreamed ==
  Finished => out = TreeHash(Len(out), key, msg)

\* No other digest length, key or message has this digest, unless the compression
\* function has a collision: neither the dealing out, whichever leaf the message
\* ends in, nor the padding of the leaves' last blocks makes two messages one.
TreeDistinct(lens, keys, msgs) ==
  Finished =>
    \A n \in lens, k \in keys, m \in msgs :
      out = TreeHash(n, k, m) => n = Len(out) /\ k = key /\ m = msg
=============================================================================
