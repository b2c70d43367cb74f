----------------------------- MODULE LfcProofs -----------------------------
(***************************************************************************)
(* Proofs about Lfc, for any number of nodes, any configurations, any      *)
(* payload length and any width of the sequence number.                    *)
(***************************************************************************)
EXTENDS Lfc, SequenceTheorems, TLAPS

(***************************************************************************)
(* What the actions put together has the types of the code.                *)
(***************************************************************************)
\* lfc_seq stays within the width of the sequence number.
LEMMA SeqNextType == \A s \in Seqs : SeqNext(s) \in Seqs
BY SeqModAssumption DEF SeqNext, Seqs

LEMMA PlainHdrType == PlainHdr \in Word
BY SetsAssumption DEF PlainHdr, Word, Monolithic, LastType

LEMMA PayLen ==
  \A p \in Pay : Len(p) \in 0..MaxPayLen /\ p \in [1..Len(p) -> Byte]
BY MaxPayLenAssumption DEF Pay

\* The fingerprint of lfc_transmit is one of the fingerprints, or what it had
\* put in the field.
LEMMA MonolithicFpType ==
  ASSUME NEW c, c.key \in Key, NEW dg, dg.oui \in Oui, dg.did \in Did,
         dg.seq \in Seqs, dg.pay \in Pay
  PROVE  MonolithicFp(c, dg) \in Fps
BY PlainHdrType DEF MonolithicFp, Fp, Fps

LEMMA TransmitDgType ==
  ASSUME TypeOK, NEW n \in Node, NEW pay \in Pay
  PROVE  /\ TransmitDg(n, pay) \in Dg
         /\ TransmitDg(n, pay).oui = cfg[n].oui
         /\ TransmitDg(n, pay).did = cfg[n].did
         /\ TransmitDg(n, pay).seq = seq[n]
         /\ TransmitDg(n, pay).pay = pay
         /\ TransmitDg(n, pay).fp \in {Placeholder, MonolithicFp(cfg[n], TransmitDg(n, pay))}
<1> DEFINE dg == [oui |-> cfg[n].oui, did |-> cfg[n].did, fp |-> Placeholder,
                  seq |-> seq[n], pay |-> pay]
<1>1. /\ cfg[n].oui \in Oui /\ cfg[n].did \in Did /\ cfg[n].key \in Key
      /\ seq[n] \in Seqs
  BY DEF TypeOK
<1>2. MonolithicFp(cfg[n], dg) \in Fps
  BY <1>1, MonolithicFpType
<1>3. TransmitFp(cfg[n], dg) \in {Placeholder, MonolithicFp(cfg[n], dg)}
  BY DEF TransmitFp
<1>4. TransmitDg(n, pay) = [dg EXCEPT !.fp = TransmitFp(cfg[n], dg)]
  BY DEF TransmitDg
<1>5. TransmitDg(n, pay) = [oui |-> cfg[n].oui, did |-> cfg[n].did,
                            fp |-> TransmitFp(cfg[n], dg),
                            seq |-> seq[n], pay |-> pay]
  BY <1>4
<1>6. TransmitDg(n, pay) \in Dg
  BY <1>1, <1>2, <1>3, <1>5 DEF Dg, FpField
<1>7. MonolithicFp(cfg[n], TransmitDg(n, pay)) = MonolithicFp(cfg[n], dg)
  BY <1>5 DEF MonolithicFp
<1> QED
  BY <1>3, <1>5, <1>6, <1>7

\* A damaged copy of a frame is a frame, whose fingerprint field is noise or on
\* the air already.
LEMMA DamagedType ==
  ASSUME ether \subseteq Frame, NEW f \in ether, NEW g \in Damaged(f)
  PROVE  /\ g \in Frame
         /\ g.dg.fp \in {Noise} \cup {x.dg.fp : x \in ether}
<1>1. f \in Frame
  OBVIOUS
<1>2. CASE \E h \in Header : g = [f EXCEPT !.hdr = h]
  BY <1>1, <1>2 DEF Frame
<1>3. CASE g = [f EXCEPT !.whole = FALSE]
  BY <1>1, <1>3 DEF Frame
<1>4. CASE \E o \in Oui : g = [f EXCEPT !.dg.oui = o]
  BY <1>1, <1>4 DEF Frame, Dg
<1>5. CASE \E d \in Did : g = [f EXCEPT !.dg.did = d]
  BY <1>1, <1>5 DEF Frame, Dg
<1>6. CASE \E s \in Seqs : g = [f EXCEPT !.dg.seq = s]
  BY <1>1, <1>6 DEF Frame, Dg
<1>7. CASE \E p \in Pay : g = [f EXCEPT !.dg.pay = p]
  BY <1>1, <1>7 DEF Frame, Dg
<1>8. CASE \E x \in {Noise} \cup {y.dg.fp : y \in ether} : g = [f EXCEPT !.dg.fp = x]
  <2>1. PICK x \in {Noise} \cup {y.dg.fp : y \in ether} : g = [f EXCEPT !.dg.fp = x]
    BY <1>8
  <2>2. x \in FpField
    BY <2>1 DEF Frame, Dg, FpField
  <2> QED
    BY <1>1, <2>1, <2>2 DEF Frame, Dg
<1> QED
  BY <1>2, <1>3, <1>4, <1>5, <1>6, <1>7, <1>8 DEF Damaged

LEMMA OverwriteType ==
  ASSUME NEW buf \in Buffer, NEW p \in Pay
  PROVE  Overwrite(buf, p) \in Buffer
BY PayLen DEF Overwrite, Buffer

(***************************************************************************)
(* Type correctness: one step per action, one lemma for each that builds   *)
(* new data.                                                               *)
(***************************************************************************)
LEMMA InitType == Init => TypeOK
<1> SUFFICES ASSUME Init PROVE TypeOK
  OBVIOUS
<1>1. (CHOOSE c \in Cfg : TRUE) \in [oui : Oui, did : Did, key : Key]
  BY CfgAssumption
<1>2. 0 \in Seqs
  BY SeqModAssumption DEF Seqs
<1>3. EmptyBuffer \in Buffer
  BY DEF EmptyBuffer, Buffer
<1>4. NoCall \in [res : Results \cup {"none"}, len : 0..MaxPayLen]
  BY MaxPayLenAssumption DEF NoCall
<1> QED
  BY <1>1, <1>2, <1>3, <1>4 DEF Init, TypeOK

LEMMA LfcInitType == ASSUME TypeOK, NEW n \in Node, LfcInit(n) PROVE TypeOK'
<1>1. 0 \in Seqs
  BY SeqModAssumption DEF Seqs
<1> QED
  BY <1>1, CfgAssumption DEF TypeOK, LfcInit

LEMMA DownType ==
  ASSUME TypeOK, NEW n \in Node, NEW m \in {"off", "aborted"}, Down(n, m)
  PROVE  TypeOK'
<1>1. EmptyBuffer \in Buffer
  BY DEF EmptyBuffer, Buffer
<1>2. NoCall \in [res : Results \cup {"none"}, len : 0..MaxPayLen]
  BY MaxPayLenAssumption DEF NoCall
<1> QED
  BY <1>1, <1>2 DEF TypeOK, Down

LEMMA RekeyType == ASSUME TypeOK, NEW n \in Node, NEW k \in Key, Rekey(n, k) PROVE TypeOK'
<1>1. cfg' = [cfg EXCEPT ![n] = [cfg[n] EXCEPT !.key = k]]
  BY DEF Rekey
<1>2. [cfg[n] EXCEPT !.key = k] \in [oui : Oui, did : Did, key : Key]
  BY DEF TypeOK
<1>3. cfg' \in [Node -> [oui : Oui, did : Did, key : Key]]
  BY <1>1, <1>2 DEF TypeOK
<1> QED
  BY <1>3 DEF TypeOK, Rekey

LEMMA TransmitType ==
  ASSUME TypeOK, NEW n \in Node, NEW pay \in Pay, NEW cap \in TxCap, Transmit(n, pay, cap)
  PROVE  TypeOK'
<1> DEFINE dg == TransmitDg(n, pay)
           fits == WireLen(dg) <= cap
<1>1. dg \in Dg
  BY TransmitDgType
<1>2. seq' \in [Node -> Seqs]
  BY SeqNextType DEF Transmit, TypeOK
<1>3. calls' \in [Node -> Nat]
  BY DEF Transmit, TypeOK
<1>4. ether' \subseteq Frame
  <2>1. [hdr |-> PlainHdr, whole |-> TRUE, dg |-> dg] \in Frame
    BY <1>1, PlainHdrType DEF Frame, Header
  <2> HIDE DEF dg
  <2>2. ether' \subseteq ether \cup {[hdr |-> PlainHdr, whole |-> TRUE, dg |-> dg]}
    BY DEF Transmit, dg
  <2> QED
    BY <2>1, <2>2 DEF TypeOK
<1>5. sent' \subseteq [node : Node, epoch : Nat, call : Nat, key : Key,
                       dg : Dg, ok : BOOLEAN]
  <2>1. cfg[n].key \in Key /\ epoch[n] \in Nat /\ calls[n] \in Nat
    BY DEF TypeOK
  <2>2. fits \in BOOLEAN
    OBVIOUS
  <2>3. sent' = sent \cup {[node |-> n, epoch |-> epoch[n], call |-> calls[n],
                             key |-> cfg[n].key, dg |-> dg, ok |-> fits]}
    BY DEF Transmit
  <2> HIDE DEF dg, fits
  <2>4. [node |-> n, epoch |-> epoch[n], call |-> calls[n], key |-> cfg[n].key,
         dg |-> dg, ok |-> fits] \in
          [node : Node, epoch : Nat, call : Nat, key : Key, dg : Dg, ok : BOOLEAN]
    BY <1>1, <2>1, <2>2
  <2> QED
    BY <2>3, <2>4 DEF TypeOK
<1>6. UNCHANGED <<mode, cfg, rx, out, got, epoch, damage>>
  BY DEF Transmit
<1> QED
  BY <1>2, <1>3, <1>4, <1>5, <1>6 DEF TypeOK

LEMMA DamageType == ASSUME TypeOK, NEW f \in ether, Damage(f) PROVE TypeOK'
<1>1. PICK g \in Damaged(f) \ ether : ether' = ether \cup {g}
  BY DEF Damage
<1>2. g \in Frame
  BY <1>1, DamagedType DEF TypeOK
<1> QED
  BY <1>1, <1>2 DEF TypeOK, Damage

LEMMA VerifyType == ASSUME NEW c, NEW dg PROVE Verify(c, dg) \in Results
BY DEF Verify, Results

LEMMA RefusalsType == ASSUME NEW f PROVE Refusals(f) \subseteq Results
<1>1. DesResults(f) \subseteq {"err_nomem", "err_exception", "invalid_type", "ok", "other"}
  BY DEF DesResults
<1> QED
  BY <1>1 DEF Refusals, Results

LEMMA ReceiveType ==
  ASSUME TypeOK, NEW n \in Node, NEW f \in ether, NEW cap \in RxCap, Receive(n, f, cap)
  PROVE  TypeOK'
<1>1. f \in Frame /\ f.dg \in Dg /\ f.dg.pay \in Pay /\ f.dg.seq \in Seqs
  BY DEF TypeOK, Frame, Dg
<1>2. Len(f.dg.pay) \in 0..MaxPayLen
  BY <1>1, PayLen
<1>3. CASE ReceiveRefused(n, f)
  <2>1. PICK res \in Results : Returned(n, res, 0)
    BY <1>3, RefusalsType DEF ReceiveRefused
  <2> QED
    BY <1>3, <2>1, MaxPayLenAssumption DEF ReceiveRefused, Returned, TypeOK, context
<1>4. CASE ReceiveNoRoom(n, f, cap)
  BY <1>4, MaxPayLenAssumption DEF ReceiveNoRoom, Returned, TypeOK, context, Results
<1>5. CASE ReceiveVerified(n, f, cap)
  <2>1. rx' \in [Node -> [res : Results \cup {"none"}, len : 0..MaxPayLen]]
    BY <1>2, <1>5, VerifyType DEF ReceiveVerified, Returned, TypeOK
  <2>2. out' \in [Node -> Buffer]
    BY <1>1, <1>5, OverwriteType DEF ReceiveVerified, TypeOK
  <2>3. got' \in [Node -> Message \cup {NoMsg}]
    BY <1>1, <1>5 DEF ReceiveVerified, TypeOK, Message
  <2>4. UNCHANGED <<context, ether, sent, damage>>
    BY <1>5 DEF ReceiveVerified
  <2> QED
    BY <2>1, <2>2, <2>3, <2>4 DEF TypeOK, context
<1>6. CASE ReceiveAborts(n, f, cap)
  BY <1>6, DownType DEF ReceiveAborts
<1> QED
  BY <1>3, <1>4, <1>5, <1>6 DEF Receive

LEMMA NextType == TypeOK /\ [Next]_vars => TypeOK'
<1> SUFFICES ASSUME TypeOK, [Next]_vars PROVE TypeOK'
  OBVIOUS
<1>1. ASSUME NEW n \in Node, LfcInit(n) PROVE TypeOK'
  BY <1>1, LfcInitType
<1>2. ASSUME NEW n \in Node, Crash(n) PROVE TypeOK'
  BY <1>2, DownType DEF Crash
<1>3. ASSUME NEW n \in Node, NEW k \in Key, Rekey(n, k) PROVE TypeOK'
  BY <1>3, RekeyType
<1>4. ASSUME NEW n \in Node, NEW pay \in Pay, NEW cap \in TxCap, Transmit(n, pay, cap)
      PROVE  TypeOK'
  BY <1>4, TransmitType
<1>5. ASSUME NEW f \in ether, Damage(f) PROVE TypeOK'
  BY <1>5, DamageType
<1>6. ASSUME NEW n \in Node, NEW f \in ether, NEW cap \in RxCap, Receive(n, f, cap)
      PROVE  TypeOK'
  BY <1>6, ReceiveType
<1>7. CASE UNCHANGED vars
  BY <1>7 DEF vars, TypeOK
<1> QED
  BY <1>1, <1>2, <1>3, <1>4, <1>5, <1>6, <1>7 DEF Next

\* Every reachable state has the types of the code: sequence numbers stay within
\* their width, and what is on the air is a frame.
THEOREM TypeCorrect == Spec => []TypeOK
BY InitType, NextType, PTL DEF Spec

(***************************************************************************)
(* Authenticity.  That a received message was sent does not follow from    *)
(* earlier ones: what has to be known is where the fingerprints on the air *)
(* come from.  The channel makes none, so each is noise, the placeholder,  *)
(* or that of a successful call; and each call's fingerprint is of its own *)
(* fields, from which an ideal fingerprint cannot be parted.               *)
(***************************************************************************)
FpKnown ==
  /\ \A a \in sent : a.dg.fp \in {Placeholder, MonolithicFp(a, a.dg)}
  /\ \A f \in ether :
       \/ f.dg.fp \in {Placeholder, Noise}
       \/ \E a \in sent : a.ok /\ f.dg.fp = a.dg.fp

LEMMA InitFpKnown == Init => FpKnown
BY DEF Init, FpKnown

LEMMA TransmitFpKnown ==
  ASSUME TypeOK, FpKnown, NEW n \in Node, NEW pay \in Pay, NEW cap \in TxCap,
         Transmit(n, pay, cap)
  PROVE  FpKnown'
<1> DEFINE dg == TransmitDg(n, pay)
           rec == [node |-> n, epoch |-> epoch[n], call |-> calls[n],
                   key |-> cfg[n].key, dg |-> dg, ok |-> WireLen(dg) <= cap]
           frame == [hdr |-> PlainHdr, whole |-> TRUE, dg |-> dg]
<1>1. /\ sent' = sent \cup {rec}
      /\ ether' = IF WireLen(dg) <= cap THEN ether \cup {frame} ELSE ether
  BY DEF Transmit
<1>2. dg.fp \in {Placeholder, MonolithicFp(cfg[n], dg)}
  BY TransmitDgType
<1> HIDE DEF dg
<1>3. MonolithicFp(rec, dg) = MonolithicFp(cfg[n], dg)
  BY DEF MonolithicFp
<1>4. \A a \in sent' : a.dg.fp \in {Placeholder, MonolithicFp(a, a.dg)}
  BY <1>1, <1>2, <1>3 DEF FpKnown
<1>5. \A f \in ether' :
        \/ f.dg.fp \in {Placeholder, Noise}
        \/ \E a \in sent' : a.ok /\ f.dg.fp = a.dg.fp
  <2>1. rec \in sent' /\ sent \subseteq sent' /\ rec.dg = dg /\ frame.dg = dg
    BY <1>1
  <2>2. rec.ok <=> WireLen(dg) <= cap
    OBVIOUS
  <2> HIDE DEF rec, frame
  <2>3. ASSUME NEW f \in ether'
        PROVE  f \in ether \/ (f = frame /\ rec.ok)
    BY <1>1, <2>2, <2>3
  <2> QED
    BY <2>1, <2>3 DEF FpKnown
<1> QED
  BY <1>4, <1>5 DEF FpKnown, MonolithicFp

LEMMA DamageFpKnown ==
  ASSUME TypeOK, FpKnown, NEW f \in ether, Damage(f)
  PROVE  FpKnown'
<1>1. PICK g \in Damaged(f) \ ether : ether' = ether \cup {g}
  BY DEF Damage
<1>2. g.dg.fp \in {Noise} \cup {x.dg.fp : x \in ether}
  BY <1>1, DamagedType DEF TypeOK
<1>3. sent' = sent
  BY DEF Damage
<1> QED
  BY <1>1, <1>2, <1>3 DEF FpKnown, MonolithicFp

LEMMA NextFpKnown == TypeOK /\ FpKnown /\ [Next]_vars => FpKnown'
<1> SUFFICES ASSUME TypeOK, FpKnown, [Next]_vars PROVE FpKnown'
  OBVIOUS
<1>1. ASSUME UNCHANGED <<ether, sent>> PROVE FpKnown'
  BY <1>1 DEF FpKnown, MonolithicFp
<1>2. ASSUME NEW n \in Node, LfcInit(n) \/ Crash(n) PROVE FpKnown'
  BY <1>1, <1>2 DEF LfcInit, Crash, Down
<1>3. ASSUME NEW n \in Node, NEW k \in Key, Rekey(n, k) PROVE FpKnown'
  BY <1>1, <1>3 DEF Rekey
<1>4. ASSUME NEW n \in Node, NEW pay \in Pay, NEW cap \in TxCap, Transmit(n, pay, cap)
      PROVE  FpKnown'
  BY <1>4, TransmitFpKnown
<1>5. ASSUME NEW f \in ether, Damage(f) PROVE FpKnown'
  BY <1>5, DamageFpKnown
<1>6. ASSUME NEW n \in Node, NEW f \in ether, NEW cap \in RxCap, Receive(n, f, cap)
      PROVE  FpKnown'
  BY <1>1, <1>6 DEF Receive, ReceiveRefused, ReceiveNoRoom, ReceiveVerified,
                    ReceiveAborts, Down
<1>7. CASE UNCHANGED vars
  BY <1>1, <1>7 DEF vars
<1> QED
  BY <1>2, <1>3, <1>4, <1>5, <1>6, <1>7 DEF Next

\* Accepting a frame whose fingerprint is of known origin means that a call with
\* the same address, key, number and payload was made.
LEMMA AcceptedWasSent ==
  ASSUME TypeOK, FpKnown, NEW c \in [oui : Oui, did : Did, key : Key], NEW f \in ether,
         Verify(c, f.dg) = "ok"
  PROVE  \E a \in sent :
           a.ok /\ MessageOf(a) = [oui |-> c.oui, did |-> c.did, key |-> c.key,
                                   seq |-> f.dg.seq, pay |-> f.dg.pay]
<1>1. f.dg \in Dg
  BY DEF TypeOK, Frame
<1>2. f.dg.oui = c.oui /\ f.dg.did = c.did /\ f.dg.fp = MonolithicFp(c, f.dg)
  BY DEF Verify
<1>3. MonolithicFp(c, f.dg) \in Fps
  BY <1>1, MonolithicFpType DEF Dg
<1>4. PICK a \in sent : a.ok /\ f.dg.fp = a.dg.fp
  BY <1>2, <1>3, FpAssumption DEF FpKnown
<1>5. a.dg.fp = MonolithicFp(a, a.dg)
  BY <1>2, <1>3, <1>4, FpAssumption DEF FpKnown
<1>6. MonolithicFp(a, a.dg) = MonolithicFp(c, f.dg)
  BY <1>2, <1>4, <1>5
<1>7. /\ a.key = c.key /\ a.dg.oui = f.dg.oui /\ a.dg.did = f.dg.did
      /\ a.dg.seq = f.dg.seq /\ a.dg.pay = f.dg.pay
  BY <1>6 DEF MonolithicFp, Fp
<1> QED
  BY <1>2, <1>4, <1>7 DEF MessageOf

LEMMA SentGrows == [Next]_vars => sent \subseteq sent'
BY ZenonT(60) DEF Next, vars, LfcInit, Crash, Down, Rekey, Transmit, Damage, Receive,
       ReceiveRefused, ReceiveNoRoom, ReceiveVerified, ReceiveAborts

LEMMA NextAuthentic == TypeOK /\ FpKnown /\ Authentic /\ [Next]_vars => Authentic'
<1> SUFFICES ASSUME TypeOK, FpKnown, Authentic, [Next]_vars,
                    NEW m \in Node, got'[m] # NoMsg
             PROVE  \E a \in sent' : a.ok /\ got'[m] = MessageOf(a)
  BY DEF Authentic, MessageOf
<1>1. sent \subseteq sent'
  BY SentGrows
<1>2. CASE got'[m] = got[m]
  BY <1>1, <1>2 DEF Authentic
<1>3. ASSUME NEW n \in Node, NEW f \in ether, NEW cap \in RxCap, ReceiveVerified(n, f, cap)
      PROVE  \E a \in sent' : a.ok /\ got'[m] = MessageOf(a)
  <2>1. CASE n = m
    <3>1. Verify(cfg[n], f.dg) = "ok"
      BY <1>3, <2>1 DEF ReceiveVerified, TypeOK
    <3>2. got'[m] = [oui |-> cfg[n].oui, did |-> cfg[n].did, key |-> cfg[n].key,
                     seq |-> f.dg.seq, pay |-> f.dg.pay]
      BY <1>3, <2>1, <3>1 DEF ReceiveVerified, TypeOK
    <3>3. cfg[n] \in [oui : Oui, did : Did, key : Key]
      BY DEF TypeOK
    <3> QED
      BY <1>1, <3>1, <3>2, <3>3, AcceptedWasSent
  <2>2. CASE n # m
    BY <1>2, <1>3, <2>2 DEF ReceiveVerified, TypeOK
  <2> QED
    BY <2>1, <2>2
<1>4. ASSUME NEW n \in Node, got' = [got EXCEPT ![n] = NoMsg]
      PROVE  \E a \in sent' : a.ok /\ got'[m] = MessageOf(a)
  BY <1>2, <1>4 DEF TypeOK
<1>5. ASSUME NEW n \in Node, NEW f \in ether, NEW cap \in RxCap, Receive(n, f, cap)
      PROVE  \E a \in sent' : a.ok /\ got'[m] = MessageOf(a)
  BY <1>3, <1>4, <1>5 DEF Receive, ReceiveRefused, ReceiveNoRoom, ReceiveAborts, Down
<1>6. ASSUME NEW n \in Node, Crash(n)
      PROVE  \E a \in sent' : a.ok /\ got'[m] = MessageOf(a)
  BY <1>4, <1>6 DEF Crash, Down
<1> QED
  BY <1>2, <1>5, <1>6 DEF Next, vars, LfcInit, Rekey, Transmit, Damage

\* Whatever lfc_receive reports as received, on any node and after any damage,
\* was transmitted in a successful call with the receiver's address and key.
THEOREM Authenticity == Spec => []Authentic
<1>1. Init => Authentic
  BY DEF Init, Authentic
<1> QED
  BY <1>1, TypeCorrect, InitFpKnown, NextFpKnown, NextAuthentic, PTL DEF Spec

(***************************************************************************)
(* Receivability.  What a successful call made is on the air for good, as  *)
(* it was made, and its fingerprint is the one any node with its key and   *)
(* address computes; but only calls with a key that is not too long have   *)
(* one.                                                                    *)
(***************************************************************************)
OnAir(a) == [hdr |-> PlainHdr, whole |-> TRUE, dg |-> a.dg]

SentOnAir ==
  \A a \in sent :
    /\ a.ok => OnAir(a) \in ether
    /\ a.key \notin LongKey => a.dg.fp = MonolithicFp(a, a.dg)

LEMMA InitSentOnAir == Init => SentOnAir
BY DEF Init, SentOnAir

LEMMA TransmitSentOnAir ==
  ASSUME TypeOK, SentOnAir, NEW n \in Node, NEW pay \in Pay, NEW cap \in TxCap,
         Transmit(n, pay, cap)
  PROVE  SentOnAir'
<1> DEFINE dg == TransmitDg(n, pay)
           rec == [node |-> n, epoch |-> epoch[n], call |-> calls[n],
                   key |-> cfg[n].key, dg |-> dg, ok |-> WireLen(dg) <= cap]
<1>1. /\ sent' = sent \cup {rec}
      /\ ether' = IF WireLen(dg) <= cap THEN ether \cup {OnAir(rec)} ELSE ether
  BY DEF Transmit, OnAir
<1>2. cfg[n].key \notin LongKey => dg.fp = MonolithicFp(rec, dg)
  BY DEF TransmitDg, TransmitFp, FpFails, MonolithicFp
<1>3. rec.key = cfg[n].key /\ rec.dg = dg /\ rec.ok = (WireLen(dg) <= cap)
  OBVIOUS
<1> HIDE DEF dg, rec
<1>4. rec.ok => OnAir(rec) \in ether'
  BY <1>1, <1>3
<1>5. \A a \in sent : a.ok => OnAir(a) \in ether'
  BY <1>1 DEF SentOnAir
<1>6. \A a \in sent' : a.key \notin LongKey => a.dg.fp = MonolithicFp(a, a.dg)
  BY <1>1, <1>2, <1>3 DEF SentOnAir
<1> QED
  BY <1>1, <1>4, <1>5, <1>6 DEF SentOnAir, OnAir, MonolithicFp

LEMMA NextSentOnAir == TypeOK /\ SentOnAir /\ [Next]_vars => SentOnAir'
<1> SUFFICES ASSUME TypeOK, SentOnAir, [Next]_vars PROVE SentOnAir'
  OBVIOUS
<1>1. ASSUME sent' = sent, ether \subseteq ether' PROVE SentOnAir'
  BY <1>1 DEF SentOnAir, OnAir, MonolithicFp
<1>2. ASSUME NEW n \in Node, LfcInit(n) \/ Crash(n) PROVE SentOnAir'
  BY <1>1, <1>2 DEF LfcInit, Crash, Down
<1>3. ASSUME NEW n \in Node, NEW k \in Key, Rekey(n, k) PROVE SentOnAir'
  BY <1>1, <1>3 DEF Rekey
<1>4. ASSUME NEW n \in Node, NEW pay \in Pay, NEW cap \in TxCap, Transmit(n, pay, cap)
      PROVE  SentOnAir'
  BY <1>4, TransmitSentOnAir
<1>5. ASSUME NEW f \in ether, Damage(f) PROVE SentOnAir'
  BY <1>1, <1>5 DEF Damage
<1>6. ASSUME NEW n \in Node, NEW f \in ether, NEW cap \in RxCap, Receive(n, f, cap)
      PROVE  SentOnAir'
  BY <1>1, <1>6 DEF Receive, ReceiveRefused, ReceiveNoRoom, ReceiveVerified,
                    ReceiveAborts, Down
<1>7. CASE UNCHANGED vars
  BY <1>1, <1>7 DEF vars
<1> QED
  BY <1>2, <1>3, <1>4, <1>5, <1>6, <1>7 DEF Next

\* A header that was not damaged is read as it was written.
LEMMA PlainParses == ASSUME NEW dg PROVE
  DesResults([hdr |-> PlainHdr, whole |-> TRUE, dg |-> dg]) = {"ok"}
<1>1. PlainHdr # Missing /\ PlainHdr # Undecodable
  BY PlainHdrType, HeaderAssumption
<1>2. Decoded(PlainHdr) = {[bit12 |-> FALSE, type |-> Monolithic]}
  BY <1>1 DEF Decoded, PlainHdr
<1> DEFINE f == [hdr |-> PlainHdr, whole |-> TRUE, dg |-> dg]
<1>3. f.hdr = PlainHdr /\ f.whole
  OBVIOUS
<1> HIDE DEF f
<1>4. \A w \in Decoded(f.hdr) : ~w.bit12 /\ w.type = Monolithic
  BY <1>2, <1>3
<1>5. Decoded(f.hdr) # {}
  BY <1>2, <1>3
<1>6. Monolithic \in 1..LastType
  BY DEF Monolithic, LastType
<1> DEFINE R(w) == IF w.bit12 THEN "err_exception"
                   ELSE IF w.type \notin 1..LastType THEN "invalid_type"
                   ELSE IF ~f.whole THEN "err_nomem"
                   ELSE IF w.type = Monolithic THEN "ok"
                   ELSE "other"
<1>7. \A w \in Decoded(f.hdr) : R(w) = "ok"
  BY <1>3, <1>4, <1>6
<1>8. DesResults(f) = {R(w) : w \in Decoded(f.hdr)}
  BY <1>1, <1>3 DEF DesResults
<1> HIDE DEF R
<1>9. DesResults(f) = {"ok"}
  BY <1>5, <1>7, <1>8
<1> QED
  BY <1>9 DEF f

LEMMA SentIsReceivable == SentOnAir => Receivable
<1> SUFFICES ASSUME SentOnAir, NEW n \in Node, NEW a \in sent,
                    Agree(n, a), a.key \notin LongKey
             PROVE  \E f \in ether : f.dg = a.dg /\ Accepts(n, f)
  BY DEF Receivable
<1>1. OnAir(a) \in ether /\ OnAir(a).dg = a.dg
  BY DEF SentOnAir, Agree, OnAir
<1>2. DesResults(OnAir(a)) = {"ok"}
  BY PlainParses DEF OnAir
<1>3. /\ cfg[n].oui = a.dg.oui /\ cfg[n].did = a.dg.did /\ cfg[n].key = a.key
  BY DEF Agree
<1>4. Verify(cfg[n], a.dg) = "ok"
  BY <1>3 DEF Verify, FpFails, SentOnAir, MonolithicFp
<1> QED
  BY <1>1, <1>2, <1>4 DEF Accepts

\* What lfc_transmit succeeds in encoding with a key that is not too long is, at
\* any later time, accepted by lfc_receive on every node that has its address and key.
THEOREM Receivability == Spec => []Receivable
BY TypeCorrect, InitSentOnAir, NextSentOnAir, SentIsReceivable, PTL DEF Spec

(***************************************************************************)
(* Sequence numbers.  A context's number is its count of calls modulo the  *)
(* width, so two calls share one only a multiple of the width apart.       *)
(***************************************************************************)
SeqTracksCalls ==
  /\ \A n \in Node : seq[n] = calls[n] % SeqMod
  /\ \A a \in sent : a.dg.seq = a.call % SeqMod

LEMMA NextMod == \A k \in Nat : ((k % SeqMod) + 1) % SeqMod = (k + 1) % SeqMod
<1> SUFFICES ASSUME NEW k \in Nat PROVE ((k % SeqMod) + 1) % SeqMod = (k + 1) % SeqMod
  OBVIOUS
<1> DEFINE q == k \div SeqMod
           r == k % SeqMod
<1>1. q \in Int /\ r \in 0..(SeqMod - 1) /\ k = SeqMod * q + r
  BY SeqModAssumption
<1> HIDE DEF q, r
<1>2. CASE r + 1 < SeqMod
  <2>1. k + 1 = SeqMod * q + (r + 1) /\ r + 1 \in 0..(SeqMod - 1)
    BY <1>1, <1>2, SeqModAssumption
  <2>2. (k + 1) % SeqMod = r + 1
    BY <1>1, <2>1, SeqModAssumption
  <2> QED
    BY <1>1, <1>2, <2>2, SeqModAssumption DEF r
<1>3. CASE r + 1 = SeqMod
  <2>1. k + 1 = SeqMod * (q + 1)
    BY <1>1, <1>3, SeqModAssumption
  <2>2. (k + 1) % SeqMod = 0
    BY <1>1, <2>1, SeqModAssumption
  <2>3. (r + 1) % SeqMod = 0
    BY <1>3, SeqModAssumption
  <2> QED
    BY <2>2, <2>3 DEF r
<1> QED
  BY <1>1, <1>2, <1>3, SeqModAssumption

LEMMA SameModApart ==
  ASSUME NEW x \in Nat, NEW y \in Nat, x < y, x % SeqMod = y % SeqMod
  PROVE  y - x >= SeqMod
<1> DEFINE p == x \div SeqMod
           q == y \div SeqMod
           r == x % SeqMod
<1>1. /\ p \in Int /\ q \in Int /\ r \in 0..(SeqMod - 1)
      /\ x = SeqMod * p + r /\ y = SeqMod * q + r
  BY SeqModAssumption
<1> HIDE DEF p, q, r
<1>2. y - x = SeqMod * (q - p)
  BY <1>1, SeqModAssumption
<1>3. q - p >= 1
  BY <1>1, <1>2, SeqModAssumption
<1>4. SeqMod * (q - p) >= SeqMod
  BY <1>1, <1>3, SeqModAssumption
<1> QED
  BY <1>2, <1>4

LEMMA InitSeq == Init => SeqTracksCalls
BY SeqModAssumption DEF Init, SeqTracksCalls

LEMMA NextSeq == TypeOK /\ SeqTracksCalls /\ [Next]_vars => SeqTracksCalls'
<1> SUFFICES ASSUME TypeOK, SeqTracksCalls, [Next]_vars PROVE SeqTracksCalls'
  OBVIOUS
<1>1. ASSUME UNCHANGED <<seq, calls, sent>> PROVE SeqTracksCalls'
  BY <1>1 DEF SeqTracksCalls
<1>2. ASSUME NEW n \in Node, LfcInit(n) PROVE SeqTracksCalls'
  BY <1>2, SeqModAssumption DEF LfcInit, SeqTracksCalls, TypeOK
<1>3. ASSUME NEW n \in Node, NEW pay \in Pay, NEW cap \in TxCap, Transmit(n, pay, cap)
      PROVE  SeqTracksCalls'
  <2> DEFINE dg == TransmitDg(n, pay)
             rec == [node |-> n, epoch |-> epoch[n], call |-> calls[n],
                     key |-> cfg[n].key, dg |-> dg, ok |-> WireLen(dg) <= cap]
  <2>1. dg.seq = seq[n]
    BY <1>3, TransmitDgType
  <2> HIDE DEF dg
  <2>2. sent' = sent \cup {rec}
    BY <1>3 DEF Transmit, dg
  <2>3. calls[n] \in Nat /\ seq[n] = calls[n] % SeqMod
    BY DEF TypeOK, SeqTracksCalls
  <2>4. rec.dg.seq = rec.call % SeqMod
    BY <2>1, <2>3
  <2>5. \A a \in sent' : a.dg.seq = a.call % SeqMod
    BY <2>2, <2>4 DEF SeqTracksCalls
  <2>6. SeqNext(seq[n]) = (calls[n] + 1) % SeqMod
    BY <2>3, NextMod DEF SeqNext
  <2>7. /\ seq' = [seq EXCEPT ![n] = SeqNext(@)]
        /\ calls' = [calls EXCEPT ![n] = @ + 1]
    BY <1>3 DEF Transmit
  <2>8. \A m \in Node : seq'[m] = calls'[m] % SeqMod
    BY <2>6, <2>7 DEF SeqTracksCalls, TypeOK
  <2> QED
    BY <2>5, <2>8 DEF SeqTracksCalls
<1> QED
  BY <1>1, <1>2, <1>3 DEF Next, vars, context, Crash, Down, Rekey, Damage, Receive,
     ReceiveRefused, ReceiveNoRoom, ReceiveVerified, ReceiveAborts

LEMMA SeqTracksFresh == TypeOK /\ SeqTracksCalls => SeqFresh
BY SameModApart DEF TypeOK, SeqTracksCalls, SeqFresh

\* One context never uses a sequence number again before all the others, however
\* many of its calls fail: for the code, not within 2^32 calls of lfc_transmit.
THEOREM SequenceFreshness == Spec => []SeqFresh
BY TypeCorrect, InitSeq, NextSeq, SeqTracksFresh, PTL DEF Spec

(***************************************************************************)
(* The caller's buffer.                                                    *)
(***************************************************************************)
LEMMA OverwriteAt ==
  ASSUME NEW buf \in Buffer, NEW p \in Pay
  PROVE  /\ DOMAIN Overwrite(buf, p) = 1..MaxPayLen
         /\ \A i \in 1..MaxPayLen :
              Overwrite(buf, p)[i] = IF i <= Len(p) THEN p[i] ELSE buf[i]
<1>1. DOMAIN buf = 1..MaxPayLen
  BY DEF Buffer
<1> QED
  BY <1>1 DEF Overwrite

LEMMA OverwritePrefix ==
  ASSUME NEW buf \in Buffer, NEW p \in Pay
  PROVE  SubSeq(Overwrite(buf, p), 1, Len(p)) = p
<1>1. Len(p) \in 0..MaxPayLen /\ p \in [1..Len(p) -> Byte]
  BY PayLen
<1> DEFINE new == Overwrite(buf, p)
<1>2. \A i \in 1..Len(p) : new[i] = p[i]
  BY <1>1, OverwriteAt, MaxPayLenAssumption
<1>3. new \in Seq(Byte \cup {Blank}) /\ Len(new) = MaxPayLen
  BY OverwriteType, MaxPayLenAssumption DEF Buffer
<1> HIDE DEF new
<1>4. /\ SubSeq(new, 1, Len(p)) \in Seq(Byte \cup {Blank})
      /\ Len(SubSeq(new, 1, Len(p))) = Len(p)
      /\ \A i \in 1..Len(p) : SubSeq(new, 1, Len(p))[i] = new[i]
  BY <1>1, <1>3, MaxPayLenAssumption
<1>5. p \in Seq(Byte \cup {Blank})
  BY <1>1
<1>6. SubSeq(new, 1, Len(p)) = p
  BY <1>2, <1>4, <1>5, SeqEqual
<1> QED
  BY <1>6 DEF new

LEMMA NextHandedOver == TypeOK /\ HandedOver /\ [Next]_vars => HandedOver'
<1> SUFFICES ASSUME TypeOK, HandedOver, [Next]_vars, NEW m \in Node
             PROVE  /\ rx'[m].res = "ok" <=> got'[m] # NoMsg
                    /\ got'[m] # NoMsg => SubSeq(out'[m], 1, rx'[m].len) = got'[m].pay
  BY DEF HandedOver
<1> DEFINE Goal == /\ rx'[m].res = "ok" <=> got'[m] # NoMsg
                   /\ got'[m] # NoMsg => SubSeq(out'[m], 1, rx'[m].len) = got'[m].pay
<1>1. ASSUME rx'[m] = rx[m], out'[m] = out[m], got'[m] = got[m] PROVE Goal
  BY <1>1 DEF HandedOver
<1>2. ASSUME rx'[m].res # "ok", got'[m] = NoMsg PROVE Goal
  BY <1>2
<1>3. ASSUME NEW n \in Node, NEW k \in {"off", "aborted"}, Down(n, k) PROVE Goal
  <2>1. CASE n = m
    BY <1>2, <1>3, <2>1 DEF Down, TypeOK, NoCall
  <2>2. CASE n # m
    BY <1>1, <1>3, <2>2 DEF Down, TypeOK
  <2> QED
    BY <2>1, <2>2
<1>4. ASSUME NEW n \in Node, NEW f \in ether, ReceiveRefused(n, f) PROVE Goal
  <2>1. PICK res \in Refusals(f) : Returned(n, res, 0)
    BY <1>4 DEF ReceiveRefused
  <2>2. res # "ok"
    BY <2>1 DEF Refusals, DesResults
  <2>3. CASE n = m
    BY <1>2, <1>4, <2>1, <2>2, <2>3 DEF ReceiveRefused, Returned, TypeOK
  <2>4. CASE n # m
    BY <1>1, <1>4, <2>1, <2>4 DEF ReceiveRefused, Returned, TypeOK
  <2> QED
    BY <2>3, <2>4
<1>5. ASSUME NEW n \in Node, NEW f \in ether, NEW cap \in RxCap, ReceiveNoRoom(n, f, cap)
      PROVE  Goal
  <2>1. CASE n = m
    BY <1>2, <1>5, <2>1 DEF ReceiveNoRoom, Returned, TypeOK
  <2>2. CASE n # m
    BY <1>1, <1>5, <2>2 DEF ReceiveNoRoom, Returned, TypeOK
  <2> QED
    BY <2>1, <2>2
<1>6. ASSUME NEW n \in Node, NEW f \in ether, NEW cap \in RxCap, ReceiveVerified(n, f, cap)
      PROVE  Goal
  <2>1. CASE n = m
    <3>1. f.dg.pay \in Pay /\ f.dg.seq \in Seqs /\ out[n] \in Buffer
      BY DEF TypeOK, Frame, Dg
    <3>2. /\ rx'[m].res = Verify(cfg[n], f.dg)
          /\ rx'[m].len = Len(f.dg.pay)
          /\ out'[m] = Overwrite(out[n], f.dg.pay)
      BY <1>6, <2>1 DEF ReceiveVerified, Returned, TypeOK
    <3>3. SubSeq(out'[m], 1, rx'[m].len) = f.dg.pay
      BY <3>1, <3>2, OverwritePrefix
    <3>4. CASE Verify(cfg[n], f.dg) = "ok"
      <4>1. got'[m] = [oui |-> cfg[n].oui, did |-> cfg[n].did, key |-> cfg[n].key,
                       seq |-> f.dg.seq, pay |-> f.dg.pay]
        BY <1>6, <2>1, <3>4 DEF ReceiveVerified, TypeOK
      <4>2. got'[m] # NoMsg
        BY <3>1, <4>1, NoMsgAssumption DEF TypeOK
      <4> QED
        BY <3>2, <3>3, <3>4, <4>1, <4>2
    <3>5. CASE Verify(cfg[n], f.dg) # "ok"
      BY <1>2, <1>6, <2>1, <3>2, <3>5 DEF ReceiveVerified, TypeOK
    <3> QED
      BY <3>4, <3>5
  <2>2. CASE n # m
    BY <1>1, <1>6, <2>2 DEF ReceiveVerified, Returned, TypeOK
  <2> QED
    BY <2>1, <2>2
<1>7. ASSUME NEW n \in Node, NEW f \in ether, NEW cap \in RxCap, Receive(n, f, cap)
      PROVE  Goal
  BY <1>3, <1>4, <1>5, <1>6, <1>7 DEF Receive, ReceiveAborts
<1>8. ASSUME NEW n \in Node, Crash(n) PROVE Goal
  BY <1>3, <1>8 DEF Crash
<1> QED
  BY <1>1, <1>7, <1>8 DEF Next, vars, LfcInit, Rekey, Transmit, Damage

\* What lfc_receive reported is in the caller's buffer until the next call.
THEOREM DeliveredInBuffer == Spec => []HandedOver
<1>1. Init => HandedOver
  BY DEF Init, HandedOver, NoCall
<1> QED
  BY <1>1, TypeCorrect, NextHandedOver, PTL DEF Spec

LEMMA NextBufferKept ==
  TypeOK /\ [Next]_vars =>
    \A n \in Node, i \in 1..MaxPayLen :
      mode'[n] = "running" /\ i > rx'[n].len => out'[n][i] = out[n][i]
<1> SUFFICES ASSUME TypeOK, [Next]_vars, NEW m \in Node, NEW i \in 1..MaxPayLen,
                    mode'[m] = "running", i > rx'[m].len
             PROVE  out'[m][i] = out[m][i]
  OBVIOUS
<1>1. ASSUME NEW n \in Node, NEW k \in {"off", "aborted"}, Down(n, k)
      PROVE  out'[m][i] = out[m][i]
  BY <1>1 DEF Down, TypeOK
<1>2. ASSUME NEW n \in Node, NEW f \in ether, NEW cap \in RxCap, ReceiveVerified(n, f, cap)
      PROVE  out'[m][i] = out[m][i]
  <2>1. CASE n = m
    <3>1. out'[m] = Overwrite(out[m], f.dg.pay) /\ rx'[m].len = Len(f.dg.pay)
      BY <1>2, <2>1 DEF ReceiveVerified, Returned, TypeOK
    <3>2. out[m] \in Buffer /\ Len(f.dg.pay) \in Nat
      BY PayLen DEF TypeOK, Frame, Dg
    <3>3. f.dg.pay \in Pay
      BY DEF TypeOK, Frame, Dg
    <3> QED
      BY <3>1, <3>2, <3>3, OverwriteAt, MaxPayLenAssumption
  <2>2. CASE n # m
    BY <1>2, <2>2 DEF ReceiveVerified, TypeOK
  <2> QED
    BY <2>1, <2>2
<1>3. ASSUME NEW n \in Node, NEW f \in ether, NEW cap \in RxCap, Receive(n, f, cap)
      PROVE  out'[m][i] = out[m][i]
  BY <1>1, <1>2, <1>3 DEF Receive, ReceiveRefused, ReceiveNoRoom, ReceiveAborts
<1>4. ASSUME NEW n \in Node, Crash(n) PROVE out'[m][i] = out[m][i]
  BY <1>1, <1>4 DEF Crash
<1> QED
  BY <1>3, <1>4 DEF Next, vars, LfcInit, Rekey, Transmit, Damage

\* A call writes no more of the caller's buffer than it says it did.
THEOREM BufferOtherwiseKept == Spec => BufferKept
BY TypeCorrect, NextBufferKept, PTL DEF Spec, BufferKept

(***************************************************************************)
(* Refinement of LfcChannel: a call of lfc_transmit is an attempt, a call  *)
(* of lfc_receive delivers or refuses, the radio's doings are no steps of  *)
(* the channel.                                                            *)
(***************************************************************************)
Id == [n \in Node |-> IF Up(n) THEN cfg[n] ELSE NoMsg]
Number == [n \in Node |-> IF Up(n) THEN seq[n] ELSE 0]
Air == {PostOf(MessageOf(a)) : a \in {x \in sent : x.ok}}
Held == [n \in Node |-> IF got[n] = NoMsg THEN NoMsg ELSE PostOf(got[n])]
Ids == [oui : Oui, did : Did, key : Key]

\* A configuration cannot be mistaken for no identity.
LEMMA OnlineId ==
  ASSUME TypeOK, NEW n \in Node
  PROVE  Up(n) <=> Id[n] # NoMsg
BY OfflineAssumption DEF Id, TypeOK, Up

LEMMA InitChannel == Init => Channel!Init
BY DEF Init, Channel!Init, Up

LEMMA LfcInitChannel ==
  ASSUME TypeOK, NEW n \in Node, LfcInit(n)
  PROVE  \E i \in Ids : Channel!Join(n, i)
<1>1. PICK c \in Cfg : cfg' = [cfg EXCEPT ![n] = c]
  BY DEF LfcInit
<1>2. c \in Ids
  BY <1>1, CfgAssumption DEF Ids
<1>3. UNCHANGED <<Air, Held>>
  BY DEF LfcInit, Air, Held, PostOf, MessageOf
<1>4. Id' = [Id EXCEPT ![n] = c]
  BY <1>1 DEF LfcInit, Id, Up, TypeOK
<1>5. Number' = [Number EXCEPT ![n] = 0]
  BY DEF LfcInit, Number, Up, TypeOK
<1>6. Channel!Join(n, c)
  BY <1>3, <1>4, <1>5 DEF Channel!Join, Id, Number, Air, Held
<1> QED
  BY <1>2, <1>6

LEMMA DownChannel ==
  ASSUME TypeOK, NEW n \in Node, Up(n), NEW m \in {"off", "aborted"}, Down(n, m)
  PROVE  Channel!Leave(n)
<1>1. Id[n] # NoMsg
  BY OnlineId, OfflineAssumption
<1>2. Id' = [Id EXCEPT ![n] = NoMsg]
  BY DEF Down, Id, Up, TypeOK
<1>3. Number' = [Number EXCEPT ![n] = 0]
  BY DEF Down, Number, Up, TypeOK
<1>4. Held' = [Held EXCEPT ![n] = NoMsg]
  BY DEF Down, Held, TypeOK
<1>5. UNCHANGED Air
  BY DEF Down, Air
<1> QED
  BY <1>1, <1>2, <1>3, <1>4, <1>5 DEF Channel!Leave, Id, Number, Air, Held

LEMMA RekeyChannel ==
  ASSUME TypeOK, NEW n \in Node, NEW k \in Key, Rekey(n, k)
  PROVE  \E i \in Ids : Channel!Change(n, i)
<1>1. [cfg[n] EXCEPT !.key = k] \in Ids
  BY DEF TypeOK, Ids
<1>2. PICK i \in Ids : cfg' = [cfg EXCEPT ![n] = i]
  BY <1>1 DEF Rekey
<1>3. Id[n] # NoMsg
  BY OnlineId, OfflineAssumption DEF Rekey
<1>4. Id' = [Id EXCEPT ![n] = i]
  BY <1>2 DEF Rekey, Id, Up, TypeOK
<1>5. UNCHANGED <<Number, Air, Held>>
  BY DEF Rekey, Number, Air, Held, Up
<1>6. Channel!Change(n, i)
  BY <1>3, <1>4, <1>5 DEF Channel!Change, Id, Number, Air, Held
<1> QED
  BY <1>6

LEMMA TransmitChannel ==
  ASSUME TypeOK, NEW n \in Node, NEW pay \in Pay, NEW cap \in TxCap, Transmit(n, pay, cap)
  PROVE  Channel!Attempt(n, pay)
<1> DEFINE dg == TransmitDg(n, pay)
           rec == [node |-> n, epoch |-> epoch[n], call |-> calls[n],
                   key |-> cfg[n].key, dg |-> dg, ok |-> WireLen(dg) <= cap]
           post == [id |-> Id[n], seq |-> Number[n], pay |-> pay]
<1>1. Id[n] # NoMsg /\ Up(n)
  BY OnlineId, OfflineAssumption DEF Transmit
<1>2. Number' = [Number EXCEPT ![n] = (@ + 1) % SeqMod]
  BY <1>1 DEF Transmit, Number, Up, TypeOK, SeqNext
<1>3. UNCHANGED <<Id, Held>>
  BY DEF Transmit, Id, Held, Up
<1>4. sent' = sent \cup {rec}
  BY DEF Transmit
<1>5. dg.oui = cfg[n].oui /\ dg.did = cfg[n].did /\ dg.seq = seq[n] /\ dg.pay = pay
  BY TransmitDgType
<1>6. PostOf(MessageOf(rec)) = post
  <2>1. cfg[n] = [oui |-> cfg[n].oui, did |-> cfg[n].did, key |-> cfg[n].key]
    BY DEF TypeOK
  <2> HIDE DEF dg
  <2> QED
    BY <1>1, <1>5, <2>1 DEF PostOf, MessageOf, Id, Number
<1> HIDE DEF rec, post
<1>7. Air' \in {Air, Air \cup {post}}
  BY <1>4, <1>6 DEF Air
<1> QED
  BY <1>1, <1>2, <1>3, <1>7
     DEF Channel!Attempt, Channel!Advance, Id, Number, Air, Held, post

LEMMA ReceiveChannel ==
  ASSUME TypeOK, FpKnown, NEW n \in Node, NEW f \in ether, NEW cap \in RxCap,
         Receive(n, f, cap)
  PROVE  Channel!Deliver(n) \/ Channel!Refuse(n) \/ Channel!Leave(n)
<1>1. Id[n] # NoMsg /\ Up(n)
  BY OnlineId, OfflineAssumption DEF Receive
<1>2. ASSUME UNCHANGED <<context, sent>>, got' = [got EXCEPT ![n] = NoMsg]
      PROVE  Channel!Refuse(n)
  <2>1. UNCHANGED <<Id, Number, Air>>
    BY <1>2 DEF context, Id, Number, Air, Up
  <2>2. Held' = [Held EXCEPT ![n] = NoMsg]
    BY <1>2 DEF Held, TypeOK
  <2> QED
    BY <1>1, <2>1, <2>2 DEF Channel!Refuse, Id, Number, Air, Held
<1>3. ASSUME ReceiveVerified(n, f, cap), Verify(cfg[n], f.dg) = "ok"
      PROVE  Channel!Deliver(n)
  <2> DEFINE msg == [oui |-> cfg[n].oui, did |-> cfg[n].did, key |-> cfg[n].key,
                     seq |-> f.dg.seq, pay |-> f.dg.pay]
  <2>1. cfg[n] \in [oui : Oui, did : Did, key : Key] /\ f.dg \in Dg
    BY DEF TypeOK, Frame
  <2>2. PICK a \in sent : a.ok /\ MessageOf(a) = msg
    BY <1>3, <2>1, AcceptedWasSent
  <2>3. PostOf(msg) \in Air
    BY <2>2 DEF Air
  <2>4. PostOf(msg).id = Id[n]
    BY <1>1, <2>1 DEF PostOf, Id
  <2>5. msg # NoMsg
    BY <2>1, NoMsgAssumption DEF Dg
  <2>6. got' = [got EXCEPT ![n] = msg]
    BY <1>3 DEF ReceiveVerified
  <2> HIDE DEF msg
  <2>7. Held' = [Held EXCEPT ![n] = PostOf(msg)]
    BY <2>5, <2>6 DEF Held, TypeOK
  <2>8. UNCHANGED <<Id, Number, Air>>
    BY <1>3 DEF ReceiveVerified, context, Id, Number, Air, Up
  <2> QED
    BY <1>1, <2>3, <2>4, <2>7, <2>8 DEF Channel!Deliver, Id, Number, Air, Held
<1>4. CASE ReceiveRefused(n, f)
  BY <1>2, <1>4 DEF ReceiveRefused
<1>5. CASE ReceiveNoRoom(n, f, cap)
  BY <1>2, <1>5 DEF ReceiveNoRoom
<1>6. CASE ReceiveVerified(n, f, cap)
  BY <1>2, <1>3, <1>6 DEF ReceiveVerified
<1>7. CASE ReceiveAborts(n, f, cap)
  BY <1>1, <1>7, DownChannel DEF ReceiveAborts
<1> QED
  BY <1>4, <1>5, <1>6, <1>7 DEF Receive

LEMMA NextChannel == TypeOK /\ FpKnown /\ [Next]_vars => [Channel!Next]_(Channel!vars)
<1> SUFFICES ASSUME TypeOK, FpKnown, [Next]_vars
             PROVE  Channel!Next \/ UNCHANGED Channel!vars
  OBVIOUS
<1>1. ASSUME NEW n \in Node, LfcInit(n) PROVE Channel!Next
  BY <1>1, LfcInitChannel DEF Channel!Next, Ids
<1>2. ASSUME NEW n \in Node, Crash(n) PROVE Channel!Next
  BY <1>2, DownChannel DEF Channel!Next, Crash
<1>3. ASSUME NEW n \in Node, NEW k \in Key, Rekey(n, k) PROVE Channel!Next
  BY <1>3, RekeyChannel DEF Channel!Next, Ids
<1>4. ASSUME NEW n \in Node, NEW pay \in Pay, NEW cap \in TxCap, Transmit(n, pay, cap)
      PROVE  Channel!Next
  BY <1>4, TransmitChannel DEF Channel!Next
<1>5. ASSUME NEW f \in ether, Damage(f) PROVE UNCHANGED Channel!vars
  BY <1>5 DEF Damage, Channel!vars, Up
<1>6. ASSUME NEW n \in Node, NEW f \in ether, NEW cap \in RxCap, Receive(n, f, cap)
      PROVE  Channel!Next
  BY <1>6, ReceiveChannel DEF Channel!Next
<1>7. CASE UNCHANGED vars
  BY <1>7 DEF vars, Channel!vars, Up
<1> QED
  BY <1>1, <1>2, <1>3, <1>4, <1>5, <1>6, <1>7 DEF Next

\* The nodes, the radio and the library together are the channel of LfcChannel.
THEOREM Refinement == Spec => ImplementsChannel
BY InitChannel, TypeCorrect, InitFpKnown, NextFpKnown, NextChannel, PTL
   DEF Spec, ImplementsChannel, Channel!Spec
=============================================================================
