----------------------------- MODULE LfcChannel -----------------------------
(***************************************************************************)
(* What the top-level API of longfi-core promises to the applications that *)
(* use it: a channel on which a message may be lost, repeated and          *)
(* overtaken, but never altered, made up, or given to a node that does not *)
(* go by the address and the key it was posted under.  Every attempt to    *)
(* post takes the poster's next number, so a number lost to a failed       *)
(* attempt is a gap that no later message fills before the numbers wrap.   *)
(***************************************************************************)
EXTENDS Integers

CONSTANTS
  Node,      \* the devices
  Identity,  \* what a message is posted and received under
  Payload,   \* what a message carries
  SeqMod,    \* numbers wrap at SeqMod
  Offline,   \* the identity of a node that is not in use
  Nothing    \* what a node holds that has received no message

Post == [id : Identity, seq : 0..(SeqMod - 1), pay : Payload]

VARIABLES
  id,    \* id[n]: the identity n goes by
  next,  \* next[n]: the number of n's next attempt
  air,   \* the messages posted
  held   \* held[n]: the message n received last, or Nothing

vars == <<id, next, air, held>>

Init ==
  /\ id = [n \in Node |-> Offline]
  /\ next = [n \in Node |-> 0]
  /\ air = {}
  /\ held = [n \in Node |-> Nothing]

\* A node starts, or starts again: it numbers from 0.
Join(n, i) ==
  /\ id' = [id EXCEPT ![n] = i]
  /\ next' = [next EXCEPT ![n] = 0]
  /\ UNCHANGED <<air, held>>

\* A node stops, and loses what it has.
Leave(n) ==
  /\ id[n] # Offline
  /\ id' = [id EXCEPT ![n] = Offline]
  /\ next' = [next EXCEPT ![n] = 0]
  /\ held' = [held EXCEPT ![n] = Nothing]
  /\ UNCHANGED air

\* A node goes by another key: its numbers go on.
Change(n, i) ==
  /\ id[n] # Offline
  /\ id' = [id EXCEPT ![n] = i]
  /\ UNCHANGED <<next, air, held>>

Advance(n) == next' = [next EXCEPT ![n] = (@ + 1) % SeqMod]

Attempt(n, pay) ==
  /\ id[n] # Offline
  /\ Advance(n)
  /\ air' \in {air, air \cup {[id |-> id[n], seq |-> next[n], pay |-> pay]}}
  /\ UNCHANGED <<id, held>>

Deliver(n) ==
  /\ id[n] # Offline
  /\ \E m \in air : m.id = id[n] /\ held' = [held EXCEPT ![n] = m]
  /\ UNCHANGED <<id, next, air>>

Refuse(n) ==
  /\ id[n] # Offline
  /\ held' = [held EXCEPT ![n] = Nothing]
  /\ UNCHANGED <<id, next, air>>

Next ==
  \E n \in Node :
    \/ \E i \in Identity : Join(n, i) \/ Change(n, i)
    \/ Leave(n)
    \/ \E pay \in Payload : Attempt(n, pay)
    \/ Deliver(n)
    \/ Refuse(n)

Spec == Init /\ [][Next]_vars
=============================================================================
