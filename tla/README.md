# A verification of longfi-core

longfi-core (`src/`) is the C library with which LongFi devices and routers turn
payloads into radio datagrams and back. This directory holds TLA+ models of it,
TLC configurations that check them, and TLAPS proofs about them. `PROJECT.json`
maps every definition to the lines it models, and lists the runs, the mutants that
show each property can fail, the theorems, the hazards and the findings.

    tlc -workers 2 -config MCGolay.cfg MCGolay      # a run
    tlapm LfcProofs.tla                             # a proof

Paths below are those of the repository, without the leading `src/` for the
library's directories `src/`, `include/` and `extra/`.

## 1. The system

The library is *pure*: it has no callbacks into the user, no I/O, no
clock and no persistent storage, and no threads but those that a compiler with OpenMP
makes of the loops over the leaves in `blake2sp` and `blake2bp`. An application calls it, radiates the bytes it gets, and hands
back bytes that its radio received. What is hard is therefore (a) the order of
calls made by several devices whose only common state is an unreliable channel,
(b) error paths in the middle of a call, after part of its effects,
(c) arithmetic at the edges of fields, buffers, blocks and codewords, and (d) in the
hash library, that one digest is computed along very different ways: cut in pieces or
at once, leaf after leaf or with all the leaves at a time, in a context that is new or not.

| Component | State | Operations | Called by / calls |
|---|---|---|---|
| API, `src/lfc.c` | `struct lfc`: `seq`, `cfg` (OUI, DID, pointer to the key) | `lfc_init`, `lfc_transmit`, `lfc_receive`, `lfc_seq` | application / fingerprints, ser, des |
| Datagrams, `src/lfc_dg_{ser,des,eq}.c` | a cursor; the `struct lfc_dg_des` that is filled | four `__ser`, `lfc_dg__des` with four `__des`, eight flag routines, four `__eq`, the header routines | API / cursor, varint, Golay |
| Fingerprints, `src/lfc_fingerprint.c` | none (`*out`) | `lfc_fingerprint_monolithic`, `lfc_payload_hash`, `lfc_fingerprint_monolithic_verify` | API, router / BLAKE2s |
| BLAKE2s, BLAKE2b, `extra/blake2/src/blake2{s,b}-ref.c` | chain value, byte counter, last-block and last-node flags, buffer, fill | `init`, `init_key`, `init_param`, `update`, `final`, the one-call function | fingerprints (BLAKE2s); trees and outputs of any length |
| BLAKE2sp, BLAKE2bp, `blake2{sp,bp}-ref.c` | eight or four leaves and a root, a buffer of a block for each leaf | `init`, `init_key`, `update`, `final`, the one-call function | application / BLAKE2s, BLAKE2b |
| BLAKE2Xs, BLAKE2Xb, `blake2x{s,b}-ref.c` | a root and its parameters | the same | application / BLAKE2s, BLAKE2b |
| Golay code, `extra/golay/src/golay.c` | none (three tables) | `golay_encode12`, `golay_decode12` | header routines |
| Cursor, `extra/cursor` | buffer and position | `new`, `remaining`, `take`, `put`, little-endian pack and unpack | ser, des, varint |
| Varint, `extra/cursor_varint/varint.c` | none (loop variables) | `cursor_pack_var_le_u32`, `cursor_unpack_var_le_u32` | ser, des / cursor |

What makes each correct:

* **API.** What is received was sent, unaltered, to this address with this key. A
  number is not used twice before all the others. Two ends that agree hear each other. The caller's buffer
  holds what the last call says it holds, and is otherwise left alone.
* **Datagrams.** Every type is read as it was written. Serialising succeeds
  exactly when there is room. A cut frame is noticed or has only its payload
  shortened. Types that are mistaken for one another still agree on address and fingerprint.
  What is read fits where it is put (it need not: section 6).
* **Fingerprints.** The device's routine and the router's agree, and accept nothing else.
* **BLAKE2.** The digest does not depend on how the message was cut into pieces, on the
  order of the threads or on what the context was used for before; no two inputs share a
  digest for reasons of padding, keys, lengths or the way they were dealt out to the leaves of
  a tree, and no two blocks of an output are the same hash. A context makes one digest. Every call returns.
* **Golay.** Three wrong bits are corrected, four detected, and the number
  returned is the true distance.
* **Cursor, varint.** Nothing outside the buffer; what fits is read back; what
  does not fit does not read as a number.

Behaviours that are hard: reordering, repetition, loss and damage of frames;
restarts (`lfc_init` numbers from 0 again); the key changing under a context that
points to it; the wrap of the sequence number; partial failure of `lfc_transmit`
(a number is used up) and of `lfc_receive` (the caller's buffer is written before
the checks); memory read uninitialised (`fp` in `lfc_receive`, `dec_hdr_bits`
in `lfc_dg_hdr__des`); and the numeric edges of the three codes. `PROJECT.json`, "hazards",
has each at its line with the properties that answer for it.

## 2. The modules

| Module | Models | Extends |
|---|---|---|
| `LfcChannel` | abstract specification: what the API promises | |
| `Lfc` | `lfc.c` on several nodes, and the radio between them | |
| `LfcProofs` | seven theorems about `Lfc` | `Lfc` |
| `Golay` | `golay.c`, at full width | |
| `GolayProofs` | seven theorems about `Golay` | `Golay` |
| `Cursor` | cursor and packing, as operators | |
| `VarintCode` | a whole varint call, as operators | `Cursor` |
| `Varint` | the varint loops, byte by byte | `VarintCode` |
| `VarintProofs` | lemmas about the operators of `Cursor` and `VarintCode`, and four theorems about `Varint` | `Varint` |
| `Datagram` | ser, des, eq, field by field | `VarintCode` |
| `DatagramProofs` | seven theorems about `Datagram` | `Datagram`, an instance of `VarintProofs` |
| `Blake2Node` | `blake2b-ref.c` call by call, as operators; what the hash of a node is | |
| `Blake2s` | `blake2s-ref.c`, the loops and counter words step by step | `Blake2Node` |
| `Blake2Context` | the variables of a tree or an output, and of the call in progress on it | `Blake2Node` |
| `Blake2Tree` | `blake2sp-ref.c`, and `blake2bp-ref.c`, with the leaves as threads | `Blake2Context` |
| `Blake2x` | `blake2xs-ref.c`, and `blake2xb-ref.c`, output block by block | `Blake2Context` |
| `Blake2` | the hash library: a caller and one of the five kinds of context | instances of the three |
| `Blake2NodeProofs` | lemmas: what the calls of `Blake2Node` do to a node | `Blake2Node` |
| `Blake2KindProofs` | lemmas: the inductive invariants of a tree and of an output of any length | `Blake2Tree`, `Blake2x`, `Blake2NodeProofs` |
| `Blake2Proofs` | nine theorems about all kinds of context in `Blake2` | `Blake2`, two instances of `Blake2KindProofs` |
| `Fingerprint` | both fingerprint routines | `Cursor`, `Blake2Node` |
| `FingerprintProofs` | two theorems about `Fingerprint` | `Fingerprint`, `Blake2NodeProofs` |
| `MC*` | instances for TLC | the module of that name |

Composition is by layers. `Datagram` is built from the operators of `Cursor` and `VarintCode`;
`Varint` checks those operators against the loops (`LoopsAgree`). In the same way
`Blake2Tree`, `Blake2x` and `Fingerprint` are built from the whole calls of `Blake2Node`, which
`Blake2s` checks against the loops (`CallsAgree`). `Blake2` instantiates `Blake2s` once and
`Blake2Tree` and `Blake2x` twice, with the widths of BLAKE2s and of BLAKE2b.
`Lfc` abstracts from all encodings, and its abstractions are what the
other modules show:

* its *ideal fingerprint*, equal only for equal key, header, address, number and
  payload, is `Verified` of `Fingerprint` (over an ideal keyed hash), whose hash
  is `Streamed` and `Distinct` of `Blake2s` (over an ideal compression function);
* its *opaque header*, a word, an undecodable word or a missing one, is `Golay`:
  up to three wrong bits give the same word, four give none, and more may give another word;
* its frames that are `whole` or not, and the results that each has, are
  `CutShows` and `GarbledHeader` of `Datagram`. A payload has at most `MaxPayLen` bytes there: frames
  of which more is read are what `PayOverruns` of `Datagram` is about, and what comes of
  them in `lfc_receive`, past the end of a member, is not modelled;
* its `WireLen` is what `FitsExactly` says a datagram takes.

These are arguments, not refinement theorems; see the plan in section 7.

### State and actions against the code

**`Lfc`.** `cfg[n]`, `seq[n]` are the members of node n's `struct lfc`; the key
is part of `cfg[n]` as the context points to it, and `Rekey` is the application
changing those bytes. `out[n]` is the buffer the application passes to
`lfc_receive` and `rx[n]` the result with `*out_len`. `ether` is the set of all
frames that were ever on the air: receiving does not remove a frame, so loss,
repetition and reordering are all present. `sent`, `calls`, `epoch`, `damage` are history
variables that the guards of code actions read only for bounds.

| Action | Code |
|---|---|
| `LfcInit(n)` | `lfc_init`, first or again |
| `Transmit(n, pay, cap)` | `lfc_transmit`: number taken, fingerprint computed with its result dropped, serialised if it fits, else `err_nomem`. A success is radiated |
| `Receive(n, f, cap)` | `lfc_receive`, with a disjunct for each way out: refused by parsing or type, no room, copied and then verified (address error before fingerprint error, as in the code), aborted by an assertion |
| `Rekey(n, k)` | external: the caller writes the key |
| `Crash(n)` | external: memory is lost; only `LfcInit` brings the node back |
| `Damage(f)` | external: a damaged copy of a frame |

Uninitialised reads are choices: an undecodable header leaves the word any
value, a set bit 12 included (`Decoded`), and the `fp` of `lfc_receive` may
already hold what is computed (`ReceiveAborts`).

**`LfcChannel`.** Nodes have an identity (OUI, DID, key), attempt to post a
message under the next number, and are delivered messages that were posted under
their own identity. A post may fail and its number stays used. The refinement
mapping is at the end of `Lfc`: `air` is the messages of successful
`lfc_transmit` calls, not the frames that are on the air.

**`Golay`.** A word is the set of positions of its one bits, so `^` is the symmetric
difference and `popcount` the cardinality. `P`, `Gt`, `H` are the
tables as written in the code. `Encode`, `Flip`, `Decode` are `golay_encode12`,
the channel, `golay_decode12`.

**`Varint`.** One action per iteration of the loops, and the failing exits.
`Rewind` is the caller that turns to reading.

**`Datagram`.** One action per `CSR_RES`/`LFC_RES` step. `next` is the position in the
routine, whose order of members is one sequence per routine, written
separately for the writing and the reading side as in the code, so that a
mismatch between them would be a violation. On the air (`Whole`, `Cut`, `Garble`, `Damage`, external)
a frame is left alone, cut, given another header word, or given up to `MaxWrong` wrong bytes
after the header (of `WrongBytes`), with its own header word or another. `DesPay` takes what is left, however much.

**`Blake2Node`, `Blake2s`.** `blake2s_update` is `Update`, `UpdateFill`, `UpdateBlock`,
`UpdateCopy`, one for each part of the code between conditions; `Final` is
`blake2s_final` and `Blake2sInit` both initialisers (`init_key` fails without a key and feeds a padded
one through the same `Update`). The chain value `h` is the list of what was compressed,
with the parameter block it began with: an ideal compression function.
`Blake2Node` has the same calls as operators on a state. `blake2s-ref.c` and
`blake2b-ref.c` differ in their widths, and in that `blake2b_final` copies as many bytes
as the digest has, `blake2s_final` as many as the caller's buffer has (of at most
32, the largest digest: a condition on the caller, and a bound of `SFinal`);
every caller within the repository asks for just the digest's length.

**`Blake2Tree`, `Blake2x`.** `st` is the context, and `at`, `in`, `loc` are the call in
progress: where it is, what is left of the input, and its locals. A step of
`Blake2Tree` is one block of one leaf (`LeafBlock`), a leaf's last block and digest in the
one-call function (`OneEnd`, after which that thread has ended), the join at which the rest is
buffered (`UpdateJoin`), or a part of what comes after the leaves: `OneRoot` makes the root of the
one-call function when all threads have ended, `Final` does the leaves of the streaming one, and
both go on with `Absorb`, a digest given to the root, and `RootReturn`. Each leaf has a
position of its own, as each thread has a pointer, so that the leaves go on in any
order; without OpenMP the order is one of them. The contexts of
the one-call functions are their locals: nothing is left of them when they return.
`FinalBlock` of `Blake2x` is one pass of the loop over output blocks.

**`Fingerprint`.** A device makes fingerprints one after another in the same `*out`
(`FingerprintMonolithic`, which is refused for a key that is too long and leaves `*out` alone, and
aborts when an assertion fails), and a router verifies what is there for any
arguments (`FingerprintVerify`). `made` remembers what `*out` is the fingerprint of. Byte
orders are part of the state since the code hashes fields as they lie in memory.

## 3. The runs

Deadlock checking is off in every run: the models are of calls that a caller need
not make, and every run ends where its bounds are used up; the library itself waits for
nothing.

| Run | Question | Bounds |
|---|---|---|
| `MCLfcDamage` | authenticity, the caller's buffer and the refinement, under damage | 2 nodes, 2 addresses, 1 key, payloads of 0 and 1 byte over 2 values, 1 call and 1 `lfc_init` per node, 1 damaged frame (any one field, header or length), buffers one byte too small and just right |
| `MCLfcContext` | numbers, keys and contexts over time | 1 node, 3 keys (none, one, one too long), 4 calls, numbers modulo 3, 2 `lfc_init`, varints of base 2 so that a buffer that is large enough for one number is too small for another |
| `MCGolay` | correction, detection, honesty, linearity | 3 symbols; all errors of up to 4 of 24 bits and all errors in the 12 parity bits |
| `MCVarint` | both loops and their operators | 5-bit numbers in 3-bit bytes, 2 numbers, buffers of 0..5 bytes, every foreign buffer of 0..4 bytes |
| `MCDatagram` | all types through buffers of all sizes and damaged frames | 2 numbers (of one and of three varint bytes), payloads of 0 and 2 bytes, the second of which fills the pay member (`MaxPay`), at most 1 flag, all capacities up to one byte more than needed, every cut, every header word; any one byte after the header wrong (`MaxWrong` 1), with or without another header word, as one of two values (`WrongBytes`) |
| `MCBlake2` | all of the hash library: streaming against one call, threads, distinctness, finality, termination | blocks of 2 bytes (BLAKE2s) and 4 (BLAKE2b), messages of 0..5 bytes over 2 values for BLAKE2s and of 0..9, 0..25, 0..5, 0..9 bytes for sp, bp, xs, xb, any pieces; trees of 2 and of 3 leaves; keys of none to one too long; digest and output lengths from too small to too large; counter words modulo 4 and 8, block numbers modulo 4, with outputs of fewer blocks than numbers, of just as many and of more; `size_t` modulo 16 (`SizeMod`) |
| `MCFingerprint` | the two routines agree and accept nothing else | 5 keys, one of them too long, 2 values for each field, 2 payloads, both byte orders on both sides, any number of calls |

and five that are expected to find a violation (section 6): `MCLfcExtended`,
`MCLfcUndecodable`, `MCLfcLongKey`, `MCLfcAssert`, `MCDatagramPayFits`.

Why the bounds are enough:

* *Authenticity* is violated by one accepted frame. It needs a sender, a receiver
  of another address or key, and one damaged copy; splices are covered because a
  damaged copy may carry the fingerprint of any other frame. The theorems of
  section 5 lift all these bounds.
* *Numbers* wrap after 3 calls of the 4, and two contexts fit in the 4 calls.
  Some calls fail between others that succeed.
* *Golay.* Decoding an error does not depend on the symbol (`ErrorDecides`, proved),
  so that one symbol is enough for `Corrects` and `DetectsFour`. Every 24-bit
  word is a codeword with an error in its parity half, so that the free errors
  there stand for all 2^24 words in `Honest`. The tables and widths are the code's own.
* *Varint, Datagram.* The scaled widths keep the relations that matter: the last byte
  of the longest varint has more bits than the number has left, in the code 7 for
  4 and here 2 for 1 (`MCVarint`) and 3 for 2 (`MCDatagram`), and the longest varint is
  one byte longer than the fixed-width integer. Numbers on both sides of every byte
  boundary are among the 32 of `MCVarint`.
* *Damage.* One wrong byte is enough to make any number shorter or longer and to shift all
  that follows it, as a byte that says it is the last of its number or one that says it is
  not; a full payload is one that does not fit if anything is added to it. The theorem `OverrunsKnown` is for any number of wrong bytes, whatever they are.
* *BLAKE2sp, bp, xs, xb.* This code moves bytes and never looks at one, so that a message in
  which each byte is its own place stands for all of its length. The longest messages
  are more than two rounds over all leaves, and end in every leaf and at every place
  within its block. Outputs end within a block and at its end, one takes
  all the block numbers there are, and one is longer than that. A context is used again and
  again, for any key and length. `Asks` bounds only a caller that keeps asking for digests that it is refused.
* *BLAKE2, fingerprints.* The theorems of section 5 lift the bounds for every safety property of
  these runs; they matter for `Returns`, and show that what is proved is reached.
* *BLAKE2s.* Messages of up to five bytes after a key of a block are up to four
  blocks; a piece may be shorter than, equal to or longer than the room that is left,
  and longer than two blocks. The counter's low word wraps at four bytes, in place of
  2^32.

Each property of each passing run has a mutant in `PROJECT.json`: a change such
as a plausible bug would make, under which TLC reports that property violated.

## 4. What the checks show

| Property | Says |
|---|---|
| `Authentic` | a received message was sent by a successful `lfc_transmit` with the receiver's OUI, DID and key, payload and number unaltered |
| `HandedOver` | it is in the caller's buffer from the return of the call to the next one |
| `BufferKept` | a call writes no byte of the caller's buffer beyond the `*out_len` it reports |
| `SeqFresh` | a context uses a number again only after all the others, failed calls included |
| `Receivable` | an undamaged frame is accepted by every node that agrees with its sender |
| `ImplementsChannel` | all of it is a behaviour of `LfcChannel` |
| `Corrects`, `DetectsFour`, `Honest`, `ErrorDecides` | the Golay code |
| `RoundTrip`, `LoopsAgree`, `DstKept` | varints |
| `RoundTrip`, `FitsExactly`, `GarbledHeader`, `EqTells` | datagrams |
| `CutShows` | a cut frame is the datagram with a shorter payload, or is refused; then the struct, half filled, has no type and no member that was not sent |
| `PayOverruns` | `cursor_take_remaining` copies more than the pay member holds only of a `frame_start` taken for a type without `fragments`, or when numbers arrived damaged and took fewer bytes than they were sent in; and the payload that was sent must have been long enough |
| `Streamed`, `Distinct` | BLAKE2s as a streaming hash |
| `CallsAgree` | its loops, buffer and counter words are the whole calls of `Blake2Node` |
| `TreeStreamed`, `TreeDistinct` | sp and bp: the digest is that of the tree, in any order of threads and any pieces; no other message, key or length has it |
| `XofStreamed`, `NoBlockTwice` | xs and xb: the output is the one defined, of the length asked for; no byte of it comes twice until block numbers wrap |
| `DigestOnce` | a finished context makes no other digest, although the leaves and the root of a tree are given more by then |
| `Returns` | liveness: every call returns |
| `Verified` | what is in `*out` is accepted for what it was made of and nothing else; after a refused call, for what an earlier call was given |
| `AssertsHold` | `lfc_fingerprint_monolithic` aborts only when `*out` already is the fingerprint it was called for |

What they do not show, because the code does not provide it: the channel may
deliver a message any number of times and in any order, since `lfc_receive` keeps no
record of numbers; numbers are unique within a context only, not across `lfc_init`; header
flags are not covered by the fingerprint, which is computed over a header without
flags on both sides.

**Liveness and fairness.** `Blake2` assumes `WF_vars(Step)`: a call that has begun goes on,
and so does some thread while one has a block left. The code justifies it: the loops
contain no wait, and a processor that is in a function goes on with it. No fairness is
assumed for the beginning of calls, nor among the threads: every order of the leaves ends. `Returns` then says that no
loop runs for ever: those of the leaves go on while an `inlen` of their own is large enough, and that over
output blocks counts an `outlen` of type `size_t` down, which is not a multiple of a block. Its mutant
takes whole blocks to the end, so that `outlen` wraps and the loop starts over. Elsewhere no
liveness is stated: the calls of `Lfc` are single actions and nothing waits, retries or
schedules, and whether a message arrives is up to the application and the radio,
of which the code gives no reason to assume either fair. What would be the useful half
of such a property, that an intact frame *would* be accepted, is the invariant `Receivable`.

## 5. What is proved

`LfcProofs` proves for all values of the constants (any nodes, keys, payload length,
wrap, and any number of calls, restarts and damaged frames):

| Theorem | Property | Argument |
|---|---|---|
| `TypeCorrect` | `TypeOK` | inductive as it is, one lemma per action |
| `Authenticity` | `Authentic` | needs `FpKnown`: every fingerprint on the air that is of the ideal kind was computed by an `lfc_transmit` that was successful. Damage may copy one to another frame and cannot make one, and `lfc_receive` accepts only the fingerprint of what it received (`AcceptedWasSent`) |
| `SequenceFreshness` | `SeqFresh` | needs `SeqTracksCalls`: `seq` is the number of calls of the context modulo `SeqMod`, and each call in `sent` has its own number modulo `SeqMod`; two equal residues of different numbers are `SeqMod` apart (`SameModApart`) |
| `Receivability` | `Receivable` | needs `SentOnAir`: the frame of a successful call stays on the air as it was made, and its fingerprint is what `Verify` recomputes unless the key is too long |
| `DeliveredInBuffer` | `HandedOver` | inductive with `TypeOK` |
| `BufferOtherwiseKept` | `BufferKept` | an action property, by cases over `Next` |
| `Refinement` | `ImplementsChannel` | each action maps to one of the channel or to a stutter; `Receive` needs `FpKnown` |

`Authentic` is not inductive: that a frame with an accepted fingerprint was sent
follows from nothing in the receiver's state. `SeqFresh` is not either: it says
nothing of the number to come.

`GolayProofs` proves for every symbol and for every set of flipped bits, of any number and in any order:

| Theorem | Property | Argument |
|---|---|---|
| `Translation`, `ErrorDecidesAlways` | `ErrorDecides` | decoding a damaged codeword is decoding the damage and adding the symbol: `golay2412_matrix_mul` is linear (the parity of a symmetric difference, `MatrixMulLinear`) and the syndrome of a codeword is zero |
| `MinDistance` | | the encodings of two symbols differ in eight bits. The weight of a codeword is a multiple of four (`WeightFour`, bit by bit: two rows of `P` overlap in an even number of bits), and is not four (`MinWeight`): one or two rows are too long, and of three bits or more in the message half at most one is left for the other, which the same argument excludes, `P` being its own inverse (`Twice`) |
| `CorrectsAlways`, `DetectsFourAlways` | `Corrects`, `DetectsFour` | the guess of `fec_golay2412_decode_symbol` has the syndrome it was made from and three bits at most (`GuessIs`, one case per branch), and there is one for every error of three bits (`GuessFound`, by how many are in either half); two such words of one syndrome that are not eight bits apart are the same (`SameSyndrome`) |
| `HonestAlways` | `Honest` | the word received less the guess has no syndrome, and a word without a syndrome is a codeword (`IsCodeword`) |
| `TypeCorrect` | `TypeOK` | by the same lemma on decoding (`DecodeIs`) |

The inductive invariant adds `Carried` to the properties: what the three bytes hold is the codeword of `sym` with the bits
of `flips` flipped, which none of the properties says before decoding. Of the tables two facts are used, both
assumptions of `Golay` that TLC evaluates for the code's tables in `MCGolay`: `TablesAssumption`, that `Gt` is `P`
above an identity and `H` an identity beside `P`, and `RowsAssumption`, on single rows of `P` and pairs of them, that `P`
is symmetric and its own inverse, that a row has 7 or 11 bits and that two rows differ in 6 at least. That three errors
are corrected and four detected is not among them but follows.

`DatagramProofs` proves for bytes, numbers, fields and fingerprints of any width, payloads and
buffers of any length, any flags, any place where a frame is cut and any header word:

| Theorem | Property | Argument |
|---|---|---|
| `TypeCorrect` | `TypeOK` | of `DInv` |
| `RoundTrips` | `RoundTrip` | the reading routine finds each piece where the writing one put it: `GetFieldIs` for a field, from `GetVarHolds` of `VarintProofs` and the little-endian digits, `ReadNext` for a step of the routine, `FlagsBack` for the flags; the payload is what is left |
| `FillsExactly` | `FitsExactly` | the position after the last piece is `WireSize` (`Offset`), and a piece is refused only where the buffer ends before the end of it (`PutFieldIs`) |
| `CutIsSeen` | `CutShows` | a frame that is cut holds a beginning of every piece it reaches (`Begins`), so that a cut before the payload is met by the routine: a field that has only begun is not read (`GetFieldIs`, from `GetVarCut`) |
| `GarbledHeaders` | `GarbledHeader` | the members that the type sent and the type read have in common come first in both, at the same offsets, with the same pieces; where they part, by the types' sequences of members, a member is read as payload or payload as a member, which is some number of 32 bits (`GetFieldAny`) |
| `OverrunsKnown` | `PayOverruns` | what is left for the payload is the frame without what its members took. Of a frame that is not damaged that is told by where the members lie (as for `GarbledHeaders`), of one that is by the fewest bytes they can take (`LeastSize`): each takes one, a fingerprint its width |
| `ComparisonTells` | `EqTells` | the members that are compared are those that are read (`EqIs`) |

All of it is read off the inductive invariant `DInv`, which none of the properties is: it says where each member lies in the
buffer. `Piece(d, k)` is the bytes of the k-th member of `d` and `Offset(d, k)` where they end. While writing, `SerInv`, the first `next - 1`
pieces are in their places and the position is behind them; on the air, `AirInv`, all of them and the payload are; while reading,
`DesInv`, the frame has the pieces, or as much of them as was not cut (`Arrived`), and what was read so far is the beginning of
what the type in the header word asks for (`ReadTo`); in the end, `DoneInv`, there was no room (`NoRoom`), the frame was
refused at some member (`Refused`), or it was read to the last one and the rest is the payload (`WasRead`). TLC checked `DInv`
on the instance of `MCDatagram` before it was proved. `DatagramProofs` takes the lemmas on varints from an instance of
`VarintProofs`; the operators of the instance are those of `Datagram` (`SumsSame`, `CursorSame`, `VarSame`), and what its
lemmas assume of the constants is what `Datagram` assumes (`Assumed`).

`Blake2Proofs` proves, for blocks, keys, digests, counter words, pieces and messages of any
length and for a context used any number of times:

| Theorem | Property | Argument |
|---|---|---|
| `Streaming` | `Streamed` | from the inductive invariant `SInv`: a context is new, or has taken (`Fed`) all of key and message but what the call in progress has yet to take, or is final. `Fed` says that with n blocks in `h.in` the input taken is n blocks and `buflen` bytes, that `h.in[i]` is its i-th block with the counter at its end, and that the first `buflen` bytes of `buf` are the rest. `Waits` says that a last block is left behind. `Increments` is the carry of `blake2s_increment_counter`, `FedFill`, `FedBlock` and `FedCopy` the parts of `blake2s_update`, `FedFinal` is `blake2s_final` against `Chain` |
| `Separation` | `Distinct` | by `Streaming`'s invariant the digest is of `Chain`, and `Chain` is one-to-one (`ChainTells`, `DataTells`): the parameter block has the lengths of digest and key, the number of blocks and the last counter tell the number of bytes (`SplitLengths`, as a block is less than a wrap of the low word), and the blocks the bytes |
| `LoopsAreCalls` | `CallsAgree` | needs that `Fed` is what `NodeUpdate` reaches in one step (`TakenFed`): a context that has taken some bytes is a node that was given them in one call, however `update` was cut; `EndsSame` and `FinaleCalled` say the same of a digest that was made, which `Ended` keeps after the call has gone |

`Streamed` is not inductive: before `blake2s_final` it says nothing.

`Blake2Proofs` also proves the other safety properties of the hash library, for any number
of leaves, output length and wrap as well, and for the five kinds of context that one
caller uses one after another:

| Theorem | Property | Argument |
|---|---|---|
| `TypeCorrect` | `TypeOK` | of `KInv`, the conjunction of `SInv` and the invariants below. That the leaves of a tree are level between two calls follows from where `TInv` says each leaf stands |
| `TreeStreaming` | `TreeStreamed` | from the inductive invariant `TInv`: at any moment of a call, leaf i has taken just those blocks of its stripe that lie before its own position (`LeafAt`), whatever the positions of the others (`LeafStep`: a thread that takes a block disturbs no other); at the join every position is at the end of the whole stripes, and the rest is a buffer's beginning; at the end each leaf's digest is that of its whole stripe (`LeavesEnd`, `OneLeafEnds`) and the root has them in order. `Aligned` and `Stripe` cut the message at whole rounds. `TInv` also says whether the root is *live*: after a first final it is not, and refuses, although the leaves are then given more |
| `TreeSeparation` | `TreeDistinct` | by `TInv` the digest is `TreeHash` of its message, and `TreeHash` is one-to-one (`TreeTells`): the root's chain value tells its input (`ChainTells`), which is the leaves' digests one behind the other, each of one size, so that it tells each of them (`DigestsTell`); a leaf's digest tells its key and stripe; and the stripes tell the message (`StripesTell`), as each of its bytes has a place in the stripe of one leaf (`InLeaf`, `StripeAt`) |
| `XofStreaming` | `XofStreamed` | from the inductive invariant `XInv`: what `done` has so far is the beginning of `XofHash`, block for block, and `left` what is missing |
| `BlocksApart` | `NoBlockTwice` | from the same: blocks of an output differ in `node_offset` until it wraps, bytes of a block in their place |
| `MadeOnce` | `DigestOnce` | an action property: a context with an output is final, and a final node refuses; by cases over `Next` |

None of these is inductive: they speak of a digest when it is there, and of nothing on the way.
`XofStreaming` has a hypothesis, `GarbageApart`, that a context is not the value `Garbage` which stands for
memory that was never written: `XofStreamed` reads the length that was asked for from the context, if
there still is one. In the runs `Garbage` is a model value, which equals nothing else; for
TLAPS it is any value, and the hypothesis says what a model value is.

`FingerprintProofs` proves for keys, payloads, fields and blocks of any size:

| Theorem | Property | Argument |
|---|---|---|
| `Verification` | `Verified` | what the five updates of either routine reach is the node that was given the five fields in one call (`UpdatedFed`, `HashIs`), the digest of a node tells its key and input (`HashTells`, by `WholeTells`), and the input its fields: they have fixed sizes, the hash of the payload included (`PiecesTell`), and each field is told by its bytes in memory (`NativeTells`), the payload by its hash (`PayHashTells`) |
| `Asserted` | `AssertsHold` | the second routine hashes the same fields, so that its assertion holds; the other fails when the new fingerprint is the old one, and fingerprints tell what they were made of (as for `Verification`) |

Both are read off the inductive invariant `FInv`: `fp` is the hash of what `made` remembers, or `Placeholder` when
nothing was made, and `vres` is what the second routine makes of it. `Asserted` has the hypothesis
`PlaceholderApart`, that what `*out` holds before the first call is no digest; what it holds before the others
is what the earlier ones left, and the one case in which they abort, which the property names, is the finding
`MCLfcAssert`. `Fit`, in the assumptions on constants, says that the numbers of a field are told apart by the bytes
the field has in memory, as the values of a C integer are by their representation.

`VarintProofs` proves, for bytes and numbers of any width, buffers of any length and any number of calls:

| Theorem | Property | Argument |
|---|---|---|
| `TypeCorrect` | `TypeOK` | from the inductive invariant `LInv`: in a call of the packing loop, `i` bytes of the number are in the buffer behind the position where the call began, each saying that another follows, and `val` is what is left of the number after as many divisions; in one of the unpacking loop, `val` is the sum of the `i` bytes taken, modulo the width, all of them saying the same |
| `RoundTrips` | `RoundTrip` | by `LInv` the buffer holds the numbers packed so far one behind the other (`Items`), and behind them at most bytes that all say that another follows (`Trailing`), which is what a number that did not fit leaves there. The bytes of a number are those that `GetVar` ends at and adds up to the number (`GetVarHolds`), and such trailing bytes are no number (`GetVarCut`) |
| `LoopsAreCalls` | `LoopsAgree` | what `LInv` says of a loop in its middle is, when it ends, what `PutVar` and `GetVar` are in one step |
| `DstUntouched` | `DstKept` | an action property, by cases over `Next` |

The operators with which numbers are cut into digits and put together, `Power` and `Total`, are recursive functions. The
induction schemes of the library cannot be used here, as they have operators for parameters; their place is taken by
`Induction`, which is about a set of numbers and says that one which has 0 and with each number the next has all,
and by `Recursion`, that a recursive function whose steps are given by a function exists.
On these rest `PowerNext` and `TotalNext`, the equations that define the two, and on them
the lemmas on digits (`Digits`: the digits of a number add up to its remainder) and on bytes. `RoundTrip`, `LoopsAgree`
and `TypeOK` are not inductive: the first two speak of a call that has returned, and the bound on `i` in the third
holds because the loop ends with the number.

Assumptions: the ASSUMEs of `Lfc`, `Golay`, `Cursor`, `VarintCode`, `Varint`, `Datagram`, `Blake2Node`, `Blake2` and `Fingerprint` about their constants, each named and
evaluated by TLC in the runs. Those of BLAKE2 say only
that a key fits in a block and a block in the low word of the counter, that digests, blocks and
trees are not empty, and that keys are bytes; that the compression
function has no collisions is built into the model, where a chain value is the list of what
went into it. Those with content are `FpAssumption` (neither
the 42 in `lfc_transmit` nor noise is a fingerprint of anything, that is, the
32-bit fingerprint has no collisions; the real one has them with probability
2^-32 each), `TablesAssumption` and `RowsAssumption`.

Only model-checked: of BLAKE2 the liveness property `Returns`, as `ENABLED` and liveness are out of the prover's reach; the facts
about the three tables of the Golay code that the two assumptions state; and the properties of the runs of
section 6, which the code violates. Every invariant and every action property of a run that passes is a theorem.

## 6. Findings

| Run | Where | What |
|---|---|---|
| `MCLfcExtended` | `src/lfc_dg_des.c:196` | the extension bit is looked for at bit 12 of a word masked to 12 bits; it is bit 11. "We're not handling extended tags yet" (line 200) is never reached by a decoded word, and a datagram with the bit set is received as a plain one |
| `MCLfcUndecodable` | `src/lfc_dg_des.c:195` | the header's word is used although decoding failed and assigned nothing to it |
| `MCLfcLongKey` | `src/lfc.c:87` | the result of the fingerprint is dropped: with a key of more than 32 bytes `lfc_transmit` returns `lfc_res_ok` for a frame with 42 in its place, that no one accepts |
| `MCLfcAssert` | `src/lfc.c:121` | `fp` is uninitialised when `assert(out_enter != *out)` compares with it: what was left there decides whether a valid datagram aborts |
| `MCDatagramPayFits` | `src/lfc_dg_des.c:75` | what is left of a frame is copied into `pay`, of `LFC_DG_CONSTANTS_MAX_PAY_LEN` bytes ("Max supported datagram payload length"), with no comparison: one wrong byte ends a number of a full datagram early, and more is left than `pay` holds, before address and fingerprint are looked at |

## 7. What is not modelled, and the plan

Not modelled, with reasons in `PROJECT.json`: the rounds of the BLAKE2 compression functions
(arithmetic without state, for which the test vectors are the better check), the
parameters that every caller sets to zero, the generators of those vectors, cursor
operations that longfi-core does not call, version constants, the test framework, tests, examples,
build and CI. `cb_data` is never read, and `hdr_bit_errs` of `struct lfc_dg_des` never set
(`src/lfc_dg_des.c:57` drops the number of corrected bits, which `include/lfc/priv/lfc_dg_des.h:28` documents):
neither is in the models.

Abstracted or assumed: frames come from a serialiser, although they may be damaged by then: ones that are longer
than any datagram are not modelled, and what a payload that is read too long does to the
memory behind its member is undefined and not modelled either;
`lfc_transmit` is called with at most that many bytes, as its assertion demands. As
many threads as leaves are assumed: `num_threads` is only a request, and the code takes no
notice when fewer are granted (the build does not enable OpenMP). An application makes one call on a context at a
time. The streaming functions of BLAKE2Xs take keys of up to 64 bytes and the one-call function of
up to 32; both are modelled as they are, no text saying which is meant. The bytes that a failed
`lfc_transmit` leaves in its buffer are in `Datagram` only.

Order of work. The API and its channel came first, being what users rely on, then
the codes under it, in the order in which `Lfc` abstracts from them, then the rest of the
hash library. Done: the modules, runs and theorems above. To come:

1. *Modelling.* `popcount_2`'s own steps against `Cardinality`; composing `Lfc`'s
   `WireLen` with `Datagram`'s `WireSize`, and a module in which one node's transmit and
   another's receive run over `Datagram` bytes and `Fingerprint`, shown to
   implement the atomic calls of `Lfc`; the router's use of
   `lfc_fingerprint_monolithic_verify` beside devices in `Lfc`.
2. *Proofs.* Those modules' properties, from the lemmas that are there; for `popcount_2`, that it is the
   cardinality that `Golay` takes it for.
