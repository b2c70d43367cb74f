------------------------------- MODULE MCBlake2 -------------------------------
(***************************************************************************)
(* An instance of Blake2 for TLC: blocks of two bytes for blake2s and of   *)
(* four for blake2b, trees of two and three leaves, and counters whose low *)
(* words wrap within the messages.                                         *)
(***************************************************************************)
EXTENDS Blake2

CONSTANT Byte1   \* a byte that is not 0

\* Keys that are the same when padded, of which the longer is too long.
AllKeys == {<<>>, <<Zero>>, <<Byte1>>, <<Zero, Zero>>}

\* The second is one that blake2xs_init_key takes and blake2xs does not.
SomeKeys == {<<>>, <<Byte1, Zero>>}

\* Of each, one too small, two that are right and one that is too large; for
\* outputs, some of whole blocks, one that ends within a block, one that takes
\* all the numbers of blocks, one that needs more, and the one that says unknown.
SomeLens == [sp |-> {0, 1, 2, 3}, bp |-> {1, 2}, xs |-> {0, 3, 4, 8, 9, 10}, xb |-> {0, 2, 5, 9, 10}]

\* More than two rounds of the tree.
Longest == [sp |-> 9, bp |-> 25, xs |-> 5, xb |-> 9]
=============================================================================
