------------------------------- MODULE Blake2s -------------------------------
(***************************************************************************)
(* The streaming interface of BLAKE2s, blake2s-ref.c: what the fingerprint *)
(* is computed with.  A message is fed in pieces, of any lengths; blocks   *)
(* are compressed as they fill, but never the last one, which only         *)
(* blake2s_final knows to be the last.                                     *)
(***************************************************************************)
EXTENDS Blake2Node

VARIABLES
  at,    \* "idle", "update" or "loop": what the call in progress is at
  st,    \* the blake2s_state, or Garbage before it is initialised
  in,    \* what blake2s_update has yet to take of its input
  loc,   \* locals of a call; none here
  out,   \* the digest the last blake2s_final made, if any
  res,   \* what the last call returned
  key,   \* history: the key
  msg    \* history: the message so far

Idle == at = "idle"
Started == st # Garbage
Finished == Started /\ st.f[1]     \* blake2s_is_lastblock

(***************************************************************************)
(* blake2s_init and blake2s_init_key, on a state that is new or was used   *)
(* before.  A key is the first block, which is given to blake2s_update; of *)
(* the two functions the first needs none and the second fails without.    *)
(***************************************************************************)
Blake2sInit(n, k) ==
  /\ Idle
  /\ \/ /\ Refused(n, k) \/ k = <<>>
        /\ res' = -1 /\ UNCHANGED <<at, st, in, out, key, msg>>
     \/ /\ ~Refused(n, k)
        /\ st' = InitParam(SequentialParam(n, k))
        /\ at' = IF k = <<>> THEN "idle" ELSE "update"
        /\ in' = IF k = <<>> THEN <<>> ELSE Pad(k)
        /\ key' = k /\ msg' = <<>> /\ out' = Garbage
        /\ res' = 0
  /\ UNCHANGED loc

(***************************************************************************)
(* blake2s_update.                                                         *)
(***************************************************************************)
Update(piece) ==
  /\ Idle /\ Started /\ ~Finished
  /\ at' = IF piece = <<>> THEN at ELSE "update"
  /\ in' = piece
  /\ msg' = msg \o piece
  /\ res' = 0
  /\ UNCHANGED <<st, loc, out, key>>

Increment_NoCarry(c, inc) == <<(c[1] + inc) % WordMod, c[2]>>

\* blake2s_increment_counter.
Increment(c, inc) ==
  LET low == (c[1] + inc) % WordMod
  IN  <<low, (c[2] + (IF low < inc THEN 1 ELSE 0)) % WordMod>>

\* blake2s_compress, of a block.
Compress(S, block) ==
  [S EXCEPT !.h.in = Append(@, [m |-> block, t |-> S.t, f |-> S.f])]

CountAndCompress(S, block) == Compress([S EXCEPT !.t = Increment(@, BlockBytes)], block)

Fill == BlockBytes - st.buflen

Overfills_WhenFull(n, room) == n >= room

\* A block that is just full is kept: it may be the last.
Overfills(n, room) == n > room

UpdateFill ==
  /\ at = "update" /\ Overfills(Len(in), Fill)
  /\ LET full == Overlay(st.buf, st.buflen, SubSeq(in, 1, Fill))
     IN  st' = CountAndCompress([st EXCEPT !.buflen = 0, !.buf = full], full)
  /\ in' = DropFirst(in, Fill)
  /\ at' = "loop"
  /\ UNCHANGED <<loc, out, res, key, msg>>

UpdateBlock ==
  /\ at = "loop" /\ Overfills(Len(in), BlockBytes)
  /\ st' = CountAndCompress(st, SubSeq(in, 1, BlockBytes))
  /\ in' = DropFirst(in, BlockBytes)
  /\ UNCHANGED <<at, loc, out, res, key, msg>>

UpdateCopy ==
  /\ \/ at = "update" /\ ~Overfills(Len(in), Fill)
     \/ at = "loop" /\ ~Overfills(Len(in), BlockBytes)
  /\ st' = [st EXCEPT !.buf = Overlay(@, st.buflen, in), !.buflen = @ + Len(in)]
  /\ in' = <<>>
  /\ at' = "idle"
  /\ UNCHANGED <<loc, out, res, key, msg>>

(***************************************************************************)
(* blake2s_final, into a buffer of n bytes.                                *)
(***************************************************************************)
\* What was in the buffer before is cleared.
LastBlock == Pad(SubSeq(st.buf, 1, st.buflen))

NoDigest_IfShort(n) == n < st.outlen

\* Too small a buffer, or the last block was compressed already.
NoDigest(n) == n < st.outlen \/ st.f[1]

Final(n) ==
  /\ Idle /\ Started
  /\ IF NoDigest(n)
       THEN res' = -1 /\ UNCHANGED <<st, out>>
       ELSE /\ st' = Compress([st EXCEPT !.t = Increment(@, st.buflen),
                                         !.f = <<TRUE, @[2] \/ st.last_node>>,
                                         !.buf = LastBlock], LastBlock)
            /\ out' = Bytes(st'.h, n)
            /\ res' = 0
  /\ UNCHANGED <<at, in, loc, key, msg>>

Step == UpdateFill \/ UpdateBlock \/ UpdateCopy

(***************************************************************************)
(* Properties.                                                             *)
(***************************************************************************)
\* The buffer never has more than a block in it, and is empty only until the
\* first byte: a block that is full waits until another byte follows.
TypeOK ==
  /\ at \in {"idle", "update", "loop"}
  /\ res \in {0, -1}
  /\ Started =>
       /\ st.t \in (0..(WordMod - 1)) \X (0..(WordMod - 1))
       /\ st.f \in BOOLEAN \X BOOLEAN
       /\ st.buflen \in 0..BlockBytes /\ Len(st.buf) = BlockBytes
       /\ Idle /\ key \o msg # <<>> => st.buflen > 0

\* The digest is that of key and message, however the message was cut into
\* pieces, and whatever the pieces left behind in the buffer.
Streamed ==
  Finished =>
    out = Bytes(Chain(SequentialParam(st.outlen, key), key, msg, FALSE), Len(out))

\* No other digest length, key or message has this digest, unless the
\* compression function has a collision.
Distinct(lens, keys, msgs) ==
  Finished =>
    \A n \in lens, k \in keys, m \in msgs :
      st.h = Chain(SequentialParam(n, k), k, m, FALSE)
        => n = st.outlen /\ k = key /\ m = msg

\* What of a state counts: the bytes of the buffer beyond buflen do not.
Live(S) == [S EXCEPT !.buf = SubSeq(@, 1, S.buflen)]

\* The loops of blake2s_update and the words of its counter do what the trees
\* and fingerprints are modelled to rely on.
CallsAgree ==
  Idle /\ Started =>
    LET before == NodeUpdate(Keyed(InitParam(SequentialParam(st.outlen, key)), key), msg)
    IN  IF Finished
          THEN LET f == NodeFinal(before, Len(out))
               IN  Live(st) = Live(f.st) /\ SubSeq(out, 1, st.outlen) = f.out
          ELSE Live(st) = Live(before)
=============================================================================
