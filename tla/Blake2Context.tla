---------------------------- MODULE Blake2Context ----------------------------
(***************************************************************************)
(* The variables of a context that makes a digest of a message in steps of *)
(* its own, and of the one call that is in progress on it: Blake2Tree and  *)
(* Blake2x are the two kinds.                                              *)
(***************************************************************************)
EXTENDS Blake2Node

VARIABLES
  at,    \* "idle", or where the call in progress is
  st,    \* the context, or the locals a one-call function has instead
  in,    \* input of the call in progress
  loc,   \* its locals
  out,   \* the digest that was made, if any
  res,   \* what the last call returned
  key,   \* history: the key
  msg    \* history: the message so far

Idle == at = "idle"
Started == st # Garbage
Finished == out # Garbage
=============================================================================
