------------------------------- MODULE MCLfc -------------------------------
(***************************************************************************)
(* Instances of Lfc for TLC.  Two devices; sequence numbers wrap after     *)
(* SeqMod calls.  Identifiers and payloads are as small as lets an address *)
(* be wrong, a payload be changed and a payload be shortened.              *)
(***************************************************************************)
EXTENDS Lfc

CONSTANTS None, K1, K2, Long, a, b

MCOui == {7}
MCDid == {1, 2}

\* Same address and key on both nodes, another device, another key, no key.
PairCfg == {[oui |-> 7, did |-> 1, key |-> K1], [oui |-> 7, did |-> 2, key |-> K1]}
OneCfg  == {[oui |-> 7, did |-> 1, key |-> K1]}
LongCfg == {[oui |-> 7, did |-> 1, key |-> Long]}
KeyCfg  == {[oui |-> 7, did |-> 1, key |-> k] : k \in {None, K1}}
=============================================================================
