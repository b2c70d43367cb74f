-------------------------------- MODULE Lfc --------------------------------
(***************************************************************************)
(* The top-level API of longfi-core, src/src/lfc.c: lfc_init, lfc_transmit *)
(* and lfc_receive, called by the applications of several nodes that share *)
(* one radio channel.                                                      *)
(*                                                                         *)
(* The library keeps no state but the sequence number and the user's       *)
(* configuration of each context, runs no threads and delivers what it is  *)
(* handed: so one call is one action, and everything hard is in the order  *)
(* of the calls of several nodes and in what the channel does between them.*)
(* A frame that is on the air stays receivable: it may be received by any  *)
(* node, many times, out of order or never, and damaged copies join it.    *)
(*                                                                         *)
(* Encodings are abstract here.  A frame is its header word and its fields;*)
(* the fingerprint is an ideal one, equal only for equal inputs.  The      *)
(* encodings themselves are the subject of Golay, Varint and Datagram.     *)
(***************************************************************************)
EXTENDS Integers, Sequences, FiniteSets

CONSTANTS
  Node,       \* the devices, each with one context (struct lfc)
  Cfg,        \* the user configurations lfc_init may be given
  Key,        \* session keys; NULL, or an empty key, is one of them
  LongKey,    \* the keys of more than the 32 bytes that BLAKE2s takes
  Oui, Did,   \* organization and device identifiers, integers
  Byte,       \* payload bytes
  MaxPayLen,  \* LFC_DG_CONSTANTS_MAX_PAY_LEN
  SeqMod,     \* 2^32: the sequence number is a uint32_t
  Flags,      \* header flags in use; 0 is "no flag"
  VarBase,    \* values one varint byte holds, 128 in the code
  TxCap,      \* capacities of the buffers given to lfc_transmit
  RxCap,      \* capacities of the buffers given to lfc_receive
  Asserts,    \* whether the build keeps assert() (no NDEBUG)
  Placeholder,\* the 42 that lfc_transmit puts in fp beforehand
  Noise,      \* a fingerprint field that is no node's fingerprint
  Undecodable,\* a header no codeword is close to
  Missing,    \* a header that is not there in full
  NoMsg,      \* no message was received
  MaxCalls,   \* bound: lfc_transmit calls per node
  MaxInits,   \* bound: lfc_init calls per node
  MaxDamage   \* bound: damaged frames

Pay == UNION {[1..k -> Byte] : k \in 0..MaxPayLen}
Seqs == 0..(SeqMod - 1)

(***************************************************************************)
(* Headers.  Twelve bits: an extension bit, five type bits, six flags; the *)
(* three encoded bytes carry a codeword, or a word no codeword is close to,*)
(* or have been cut off.                                                   *)
(***************************************************************************)
Monolithic == 1
LastType == 4                            \* lfc_dg_type_ack
Word == [ext : BOOLEAN, type : 0..(LastType + 1), flags : Flags]
Header == Word \cup {Undecodable, Missing}
PlainHdr == [ext |-> FALSE, type |-> Monolithic, flags |-> 0]

Fp(k, h, o, d, s, p) ==
  [key |-> k, hdr |-> h, oui |-> o, did |-> d, seq |-> s, pay |-> p]
Fps == [key : Key, hdr : Word, oui : Oui, did : Did, seq : Seqs, pay : Pay]
FpField == Fps \cup {Placeholder, Noise}

Dg == [oui : Oui, did : Did, fp : FpField, seq : Seqs, pay : Pay]
Frame == [hdr : Header, whole : BOOLEAN, dg : Dg]

ASSUME CfgAssumption == Cfg # {} /\ Cfg \subseteq [oui : Oui, did : Did, key : Key]
ASSUME SetsAssumption == Oui \subseteq Nat /\ Did \subseteq Nat /\ 0 \in Flags
ASSUME LongKeyAssumption == LongKey \subseteq Key
ASSUME SeqModAssumption == SeqMod \in Nat \ {0}
ASSUME MaxPayLenAssumption == MaxPayLen \in Nat
ASSUME CapAssumption == RxCap \subseteq Nat /\ TxCap \subseteq Nat
ASSUME VarBaseAssumption == VarBase \in Nat \ {0, 1}
ASSUME AssertsAssumption == Asserts \in BOOLEAN
ASSUME FpAssumption == Placeholder \notin Fps /\ Noise \notin Fps
ASSUME HeaderAssumption == Undecodable # Missing /\ {Undecodable, Missing} \cap Word = {}
ASSUME NoMsgAssumption ==
  NoMsg \notin [oui : Oui, did : Did, key : Key, seq : Seqs, pay : Pay]
ASSUME OfflineAssumption == NoMsg \notin [oui : Oui, did : Did, key : Key]
ASSUME BoundAssumption == MaxCalls \in Nat /\ MaxInits \in Nat /\ MaxDamage \in Nat

VARIABLES
  mode,   \* mode[n]: whether n runs, its context initialised
  cfg,    \* cfg[n]: lfc->cfg, with the key bytes it points to
  seq,    \* seq[n]: lfc->seq
  ether,  \* every frame that is or was on the air
  rx,     \* rx[n]: what n's last lfc_receive returned, and *out_len
  out,    \* out[n]: the buffer n's application receives into
  got,    \* got[n]: the message n's application then holds, if any
  sent,   \* history: the lfc_transmit calls made
  calls,  \* history: lfc_transmit calls of n since its lfc_init
  epoch,  \* history: lfc_init calls of n
  damage  \* history: frames the channel has damaged

vars == <<mode, cfg, seq, ether, rx, out, got, sent, calls, epoch, damage>>
context == <<mode, cfg, seq, calls, epoch>>

Results == {"ok", "err_addr", "err_fingerprint", "err_exception",
            "err_nomem", "invalid_type"}
Blank == "blank"                         \* a byte nothing was written to
Buffer == [1..MaxPayLen -> Byte \cup {Blank}]
EmptyBuffer == [i \in 1..MaxPayLen |-> Blank]
NoCall == [res |-> "none", len |-> 0]
Message == [oui : Oui, did : Did, key : Key, seq : Seqs, pay : Pay]

(***************************************************************************)
(* Sizes on the wire: three header bytes, three varints, four bytes of     *)
(* fingerprint and the payload.                                            *)
(***************************************************************************)
VarLen(v) == 1 + Cardinality({i \in 1..4 : v >= VarBase ^ i})
WireLen(dg) ==
  3 + VarLen(dg.oui) + VarLen(dg.did) + 4 + VarLen(dg.seq) + Len(dg.pay)

(***************************************************************************)
(* Fingerprints.                                                           *)
(***************************************************************************)
\* A key too long makes blake2s_init_key, and so the fingerprint, fail.
FpFails(c) == c.key \in LongKey

MonolithicFp_NoSeq(c, dg) == Fp(c.key, PlainHdr, dg.oui, dg.did, 0, dg.pay)
MonolithicFp_NoKey(c, dg) ==
  Fp(CHOOSE k \in Key : TRUE, PlainHdr, dg.oui, dg.did, dg.seq, dg.pay)

\* The header is rebuilt without flags, never taken from the datagram.
MonolithicFp(c, dg) == Fp(c.key, PlainHdr, dg.oui, dg.did, dg.seq, dg.pay)

TransmitFp_BeforeCopy(c, dg) == MonolithicFp(c, [dg EXCEPT !.pay = <<>>])

\* lfc_transmit drops the result code: the field keeps what was in it.
TransmitFp(c, dg) == IF FpFails(c) THEN Placeholder ELSE MonolithicFp(c, dg)

(***************************************************************************)
(* lfc_init, by a node that starts or that makes its context anew; and the *)
(* loss of everything a node has, by a power cut or a failed assertion.    *)
(***************************************************************************)
LfcInit(n) ==
  /\ epoch[n] < MaxInits
  /\ mode' = [mode EXCEPT ![n] = "running"]
  /\ \E c \in Cfg : cfg' = [cfg EXCEPT ![n] = c]
  /\ seq' = [seq EXCEPT ![n] = 0]
  /\ calls' = [calls EXCEPT ![n] = 0]
  /\ epoch' = [epoch EXCEPT ![n] = @ + 1]
  /\ UNCHANGED <<ether, rx, out, got, sent, damage>>

Down(n, m) ==
  /\ mode' = [mode EXCEPT ![n] = m]
  /\ rx' = [rx EXCEPT ![n] = NoCall]
  /\ out' = [out EXCEPT ![n] = EmptyBuffer]
  /\ got' = [got EXCEPT ![n] = NoMsg]
  /\ UNCHANGED <<cfg, seq, ether, sent, calls, epoch, damage>>

Up(n) == mode[n] = "running"

Crash(n) == Up(n) /\ Down(n, "off")

\* The context points to the key: the caller may change it under the context.
Rekey(n, k) ==
  /\ Up(n)
  /\ cfg' = [cfg EXCEPT ![n].key = k]
  /\ UNCHANGED <<mode, seq, ether, rx, out, got, sent, calls, epoch, damage>>

(***************************************************************************)
(* lfc_transmit.  The sequence number is used up before the datagram is    *)
(* serialised, whether or not it then fits in the caller's buffer.  The    *)
(* application radiates the buffer when the call succeeds.                 *)
(***************************************************************************)
SeqNext_Unbounded(s) == s + 1
SeqNext_Saturates(s) == IF s = SeqMod - 1 THEN s ELSE s + 1

SeqNext(s) == (s + 1) % SeqMod

TransmitDg(n, pay) ==
  LET dg == [oui |-> cfg[n].oui, did |-> cfg[n].did, fp |-> Placeholder,
             seq |-> seq[n], pay |-> pay]
  IN  [dg EXCEPT !.fp = TransmitFp(cfg[n], dg)]

Transmit(n, pay, cap) ==
  LET dg == TransmitDg(n, pay)
      fits == WireLen(dg) <= cap
  IN  /\ Up(n)
      /\ Cardinality({a \in sent : a.node = n}) < MaxCalls
      /\ seq' = [seq EXCEPT ![n] = SeqNext(@)]
      /\ ether' = IF fits
                    THEN ether \cup {[hdr |-> PlainHdr, whole |-> TRUE, dg |-> dg]}
                    ELSE ether
      /\ sent' = sent \cup {[node |-> n, epoch |-> epoch[n], call |-> calls[n],
                             key |-> cfg[n].key, dg |-> dg, ok |-> fits]}
      /\ calls' = [calls EXCEPT ![n] = @ + 1]
      /\ UNCHANGED <<mode, cfg, rx, out, got, epoch, damage>>

(***************************************************************************)
(* The channel: a copy of a frame arrives with a wrong header word, cut    *)
(* short, or with fields that are not those sent; the fingerprint field of *)
(* the copy is noise or one that is on the air.                            *)
(***************************************************************************)
Damaged(f) ==
  {[f EXCEPT !.hdr = h] : h \in Header}
    \cup {[f EXCEPT !.whole = FALSE]}
    \cup {[f EXCEPT !.dg.oui = o] : o \in Oui}
    \cup {[f EXCEPT !.dg.did = d] : d \in Did}
    \cup {[f EXCEPT !.dg.seq = s] : s \in Seqs}
    \cup {[f EXCEPT !.dg.pay = p] : p \in Pay}
    \cup {[f EXCEPT !.dg.fp = x] : x \in {Noise} \cup {g.dg.fp : g \in ether}}

Damage(f) ==
  /\ damage < MaxDamage
  /\ \E g \in Damaged(f) \ ether : ether' = ether \cup {g}
  /\ damage' = damage + 1
  /\ UNCHANGED <<mode, cfg, seq, rx, out, got, sent, calls, epoch>>

(***************************************************************************)
(* lfc_dg__des.  Every outcome it may have for a frame: the header is      *)
(* decoded and examined first, then the fields are taken.                  *)
(***************************************************************************)
\* golay_decode12 sets its output only when it succeeds; lfc_dg_hdr__des goes
\* on with whatever was there otherwise.  bit12 is the bit it tests, one above
\* the extension bit of the twelve that a decoded word has.
Decoded(h) ==
  IF h = Undecodable
    THEN [bit12 : BOOLEAN, type : 0..(LastType + 1)]
    ELSE {[bit12 |-> FALSE, type |-> h.type]}

\* Fields cut off leave any of the four types without its last field; a whole
\* frame of another type may lack the varint that type has after seq.
DesResults(f) ==
  IF f.hdr = Missing
    THEN {"err_nomem"}
    ELSE {IF w.bit12 THEN "err_exception"
          ELSE IF w.type \notin 1..LastType THEN "invalid_type"
          ELSE IF ~f.whole THEN "err_nomem"
          ELSE IF w.type = Monolithic THEN "ok"
          ELSE "other" : w \in Decoded(f.hdr)}

Refusals(f) ==
  UNION {CASE r = "other" -> {"invalid_type", "err_nomem"}
           [] r = "ok"    -> {}
           [] OTHER       -> {r} : r \in DesResults(f)}

(***************************************************************************)
(* lfc_receive.  *out_len is 0 until a monolithic datagram is found to fit *)
(* in the caller's buffer; the payload is then written there, before the   *)
(* fingerprint and the address are compared.                               *)
(***************************************************************************)
Verify_NoAddress(c, dg) ==
  IF FpFails(c) THEN "err_exception"
  ELSE IF dg.fp # MonolithicFp(c, dg) THEN "err_fingerprint"
  ELSE "ok"

Verify(c, dg) ==
  IF FpFails(c) THEN "err_exception"
  ELSE IF dg.oui # c.oui \/ dg.did # c.did THEN "err_addr"
  ELSE IF dg.fp # MonolithicFp(c, dg) THEN "err_fingerprint"
  ELSE "ok"

Overwrite_OneShort(buf, pay) ==
  [i \in DOMAIN buf |-> IF i < Len(pay) THEN pay[i] ELSE buf[i]]

Overwrite(buf, pay) ==
  [i \in DOMAIN buf |-> IF i <= Len(pay) THEN pay[i] ELSE buf[i]]

Returned(n, res, len) == rx' = [rx EXCEPT ![n] = [res |-> res, len |-> len]]

ReceiveRefused(n, f) ==
  /\ \E res \in Refusals(f) : Returned(n, res, 0)
  /\ got' = [got EXCEPT ![n] = NoMsg]
  /\ UNCHANGED <<context, ether, out, sent, damage>>

ReceiveNoRoom_CopiesFirst(n, f, cap) ==
  /\ "ok" \in DesResults(f)
  /\ cap < Len(f.dg.pay)
  /\ Returned(n, "err_nomem", 0)
  /\ out' = [out EXCEPT ![n] = Overwrite(@, f.dg.pay)]
  /\ got' = [got EXCEPT ![n] = NoMsg]
  /\ UNCHANGED <<context, ether, sent, damage>>

ReceiveNoRoom(n, f, cap) ==
  /\ "ok" \in DesResults(f)
  /\ cap < Len(f.dg.pay)
  /\ Returned(n, "err_nomem", 0)
  /\ got' = [got EXCEPT ![n] = NoMsg]
  /\ UNCHANGED <<context, ether, out, sent, damage>>

ReceiveVerified(n, f, cap) ==
  /\ "ok" \in DesResults(f)
  /\ cap >= Len(f.dg.pay)
  /\ Returned(n, Verify(cfg[n], f.dg), Len(f.dg.pay))
  /\ out' = [out EXCEPT ![n] = Overwrite(@, f.dg.pay)]
  /\ got' = [got EXCEPT ![n] =
               IF Verify(cfg[n], f.dg) = "ok"
                 THEN [oui |-> cfg[n].oui, did |-> cfg[n].did, key |-> cfg[n].key,
                       seq |-> f.dg.seq, pay |-> f.dg.pay]
                 ELSE NoMsg]
  /\ UNCHANGED <<context, ether, sent, damage>>

\* lfc_fingerprint_monolithic asserts that it changes *out, which lfc_receive
\* leaves uninitialised: it may hold, already, what is about to be computed.
ReceiveAborts(n, f, cap) ==
  /\ Asserts
  /\ "ok" \in DesResults(f)
  /\ cap >= Len(f.dg.pay)
  /\ ~FpFails(cfg[n])
  /\ Down(n, "aborted")

Receive(n, f, cap) ==
  /\ Up(n)
  /\ \/ ReceiveRefused(n, f)
     \/ ReceiveNoRoom(n, f, cap)
     \/ ReceiveVerified(n, f, cap)
     \/ ReceiveAborts(n, f, cap)

----------------------------------------------------------------------------
Init ==
  /\ mode = [n \in Node |-> "off"]
  /\ cfg = [n \in Node |-> CHOOSE c \in Cfg : TRUE]
  /\ seq = [n \in Node |-> 0]
  /\ ether = {}
  /\ rx = [n \in Node |-> NoCall]
  /\ out = [n \in Node |-> EmptyBuffer]
  /\ got = [n \in Node |-> NoMsg]
  /\ sent = {}
  /\ calls = [n \in Node |-> 0]
  /\ epoch = [n \in Node |-> 0]
  /\ damage = 0

Next ==
  \/ \E n \in Node : LfcInit(n) \/ Crash(n)
  \/ \E n \in Node, k \in Key : Rekey(n, k)
  \/ \E n \in Node, pay \in Pay, cap \in TxCap : Transmit(n, pay, cap)
  \/ \E f \in ether : Damage(f)
  \/ \E n \in Node, f \in ether, cap \in RxCap : Receive(n, f, cap)

Spec == Init /\ [][Next]_vars

(***************************************************************************)
(* Properties.                                                             *)
(***************************************************************************)
\* The state is what the code's types allow.
TypeOK ==
  /\ mode \in [Node -> {"off", "running", "aborted"}]
  /\ cfg \in [Node -> [oui : Oui, did : Did, key : Key]]
  /\ seq \in [Node -> Seqs]
  /\ ether \subseteq Frame
  /\ rx \in [Node -> [res : Results \cup {"none"}, len : 0..MaxPayLen]]
  /\ out \in [Node -> Buffer]
  /\ got \in [Node -> Message \cup {NoMsg}]
  /\ sent \subseteq [node : Node, epoch : Nat, call : Nat, key : Key,
                    dg : Dg, ok : BOOLEAN]
  /\ calls \in [Node -> Nat]
  /\ epoch \in [Node -> Nat]
  /\ damage \in Nat

\* What lfc_receive reports as received was transmitted, complete and with
\* exactly this payload and sequence number, by a successful lfc_transmit of a
\* context with the receiver's OUI, DID and key; however frames are damaged,
\* spliced, cut, repeated and reordered, and whatever keys change meanwhile.
MessageOf(a) == [oui |-> a.dg.oui, did |-> a.dg.did, key |-> a.key,
                 seq |-> a.dg.seq, pay |-> a.dg.pay]
Authentic ==
  \A n \in Node : got[n] # NoMsg =>
    \E a \in sent : a.ok /\ got[n] = MessageOf(a)

\* A received message is in the caller's buffer, whole, from the return of the
\* call to the next one, although rejected datagrams use the same buffer.
HandedOver ==
  \A n \in Node :
    /\ rx[n].res = "ok" <=> got[n] # NoMsg
    /\ got[n] # NoMsg => SubSeq(out[n], 1, rx[n].len) = got[n].pay

\* Two calls of lfc_transmit on one context, successful or not, use the same
\* sequence number only when all the others were used between them.
SeqFresh ==
  \A a, b \in sent :
    (/\ a.node = b.node /\ a.epoch = b.epoch
     /\ a.call < b.call
     /\ a.dg.seq = b.dg.seq) => b.call - a.call >= SeqMod

\* An undamaged frame is accepted by every node that has its sender's OUI, DID
\* and key and room for the payload: both ends compute the same fingerprint.
Agree(n, a) ==
  /\ Up(n) /\ a.ok
  /\ cfg[n] = [oui |-> a.dg.oui, did |-> a.dg.did, key |-> a.key]
Accepts(n, f) == DesResults(f) = {"ok"} /\ Verify(cfg[n], f.dg) = "ok"
Receivable ==
  \A n \in Node, a \in sent :
    Agree(n, a) /\ a.key \notin LongKey =>
      \E f \in ether : f.dg = a.dg /\ Accepts(n, f)

\* lfc_receive writes only as many bytes of the caller's buffer as it reports
\* in *out_len: a datagram refused before its payload is copied, for its header,
\* its length or the room there is, leaves an earlier payload alone.
BufferKept ==
  [][\A n \in Node, i \in 1..MaxPayLen :
       mode'[n] = "running" /\ i > rx'[n].len => out'[n][i] = out[n][i]]_vars

(***************************************************************************)
(* What the code's own words say of it and it does not do.                 *)
(***************************************************************************)
\* lfc_dg_hdr__des says "We're not handling extended tags yet", and refuses
\* them: a header decoded with the extension bit set is not received.
ExtendedRefused ==
  \A n \in Node, f \in ether :
    Up(n) /\ f.hdr \in [ext : {TRUE}, type : {Monolithic}, flags : Flags] => ~Accepts(n, f)

\* golay.h says that decoding returns -1 on failure: a datagram whose header
\* cannot be decoded is not received.
UndecodableRefused ==
  \A n \in Node, f \in ether :
    Up(n) /\ f.hdr = Undecodable => ~("ok" \in DesResults(f) /\ Verify(cfg[n], f.dg) = "ok")

\* lfc.h calls lfc_res_ok "Success, no error": what lfc_transmit succeeds in
\* encoding, a node with the same configuration receives.
SuccessIsReceivable ==
  \A n \in Node, a \in sent :
    Agree(n, a) => \E f \in ether : f.dg = a.dg /\ Accepts(n, f)

\* lfc_fingerprint_monolithic asserts that it changes *out, whatever was there.
AssertHolds == \A n \in Node : mode[n] # "aborted"

(***************************************************************************)
(* Lfc implements LfcChannel: the messages posted are those of successful  *)
(* lfc_transmit calls, whatever became of their frames.                    *)
(***************************************************************************)
PostOf(m) ==
  [id |-> [oui |-> m.oui, did |-> m.did, key |-> m.key], seq |-> m.seq, pay |-> m.pay]

Channel == INSTANCE LfcChannel WITH
  Identity <- [oui : Oui, did : Did, key : Key],
  Payload  <- Pay,
  Offline  <- NoMsg,
  Nothing  <- NoMsg,
  id       <- [n \in Node |-> IF Up(n) THEN cfg[n] ELSE NoMsg],
  next     <- [n \in Node |-> IF Up(n) THEN seq[n] ELSE 0],
  air      <- {PostOf(MessageOf(a)) : a \in {x \in sent : x.ok}},
  held     <- [n \in Node |-> IF got[n] = NoMsg THEN NoMsg ELSE PostOf(got[n])]

\* Every behaviour of the nodes and the radio is one of the channel: what is
\* received was posted under the receiver's own address and key, unaltered, and
\* numbers go up by one with each attempt from the start of a context.
ImplementsChannel == Channel!Spec
=============================================================================
