-------------------------------- MODULE MD5Stream --------------------------------
(***************************************************************************)
(* The MD5 of the library: src/rfc1321/md5c.c and the calls of             *)
(* src/ketama.c on it.  An application may hash a text in one call, or     *)
(* open a context, add to it in pieces of any length and finish it.  The   *)
(* context keeps what does not yet fill a block in a buffer, and the       *)
(* number of bits so far in two words.                                     *)
(*                                                                         *)
(* The four words of state stand for the blocks mixed into them: two       *)
(* states are taken to be equal only if the same blocks were, and in the   *)
(* same order.  The arithmetic of the rounds is thus left out; the control *)
(* around it, which decides what is mixed in, is not.                      *)
(***************************************************************************)
EXTENDS Integers, Sequences

CONSTANTS
  ByteBits,        \* bits of a byte: 8
  WordBytes,       \* bytes of a UINT4: 4
  WordBlocks,      \* blocks whose bits fill a UINT4: 2^32 \div (8 * 64)
  BlockLen,        \* 64
  Byte,            \* 0 .. 255
  TopBit,          \* 0x80, the byte that begins the padding
  Stream,          \* the bytes there are to hash
  PieceLens,       \* bound: lengths of the pieces given to the calls
  NULL

WordRange == ByteBits * (BlockLen * WordBlocks)    \* 2^32
Word      == 0 .. WordRange - 1
CountLen  == 2 * WordBytes                         \* bytes of the count in the last block

ASSUME StreamAssumption ==
  /\ {ByteBits, WordBytes, WordBlocks, BlockLen} \subseteq Nat \ {0}
  /\ CountLen < BlockLen
  /\ {0, TopBit} \subseteq Byte
  /\ \A w \in Word, k \in 0 .. WordBytes - 1 : (w \div 2^(ByteBits * k)) % 2^ByteBits \in Byte
  /\ Stream \in Seq(Byte)
  /\ PieceLens \subseteq Nat

VARIABLES
  ctx,      \* the context the application holds, or NULL
  input,    \* what was given to the calls since it was opened, or to the one call
  digest    \* the digest last written, or NULL

vars == <<ctx, input, digest>>

Buffer  == [0 .. BlockLen - 1 -> Byte]
MD5_CTX == [state : Seq(Byte), count : [lo : Word, hi : Word], buffer : Buffer]

TypeOK ==
  /\ ctx \in MD5_CTX \cup {NULL}
  /\ input \in Seq(Byte)
  /\ digest \in Seq(Byte) \cup {NULL}

Init == ctx = NULL /\ input = <<>> /\ digest = NULL

-------------------------------------------------------------------------------
(* md5c.c *)

MD5Init(buffer) == [state |-> <<>>, count |-> [lo |-> 0, hi |-> 0], buffer |-> buffer]

(* One block, or several one after the other. *)
MD5Transform(state, blocks) == state \o blocks

(* The positions written are not confined to the buffer. *)
MD5_memcpy(buffer, index, bytes) ==
  [j \in DOMAIN buffer \cup (index .. index + Len(bytes) - 1) |->
     IF j \in index .. index + Len(bytes) - 1 THEN bytes[j - index + 1] ELSE buffer[j]]

(* Bytes in the buffer. *)
Index(count) == (count.lo \div ByteBits) % BlockLen

(* Faulty variants: the carry forgotten; the part of a long piece that does  *)
(* not fit in the lower word forgotten.                                      *)
CountNoCarry(count, n) ==
  [lo |-> (count.lo + n * ByteBits) % WordRange, hi |-> count.hi]

(* The number of bits, lower word and carry. *)
CountBits(count, n) ==
  LET bits == (n * ByteBits) % WordRange
      lo   == (count.lo + bits) % WordRange
  IN  [lo |-> lo,
       hi |-> (count.hi + (IF lo < bits THEN 1 ELSE 0) + (n * ByteBits) \div WordRange)
                % WordRange]

(* The first n bytes of a buffer. *)
Used(buffer, n) == [j \in 1 .. n |-> buffer[j - 1]]

(* A piece that fills the buffer: the buffer and the whole blocks that       *)
(* follow are mixed in, the rest goes to the start of the buffer.            *)
FillAndMix(c, piece) ==
  LET index   == Index(c.count)
      partLen == BlockLen - index
      i       == partLen + BlockLen * ((Len(piece) - partLen) \div BlockLen)
      filled  == MD5_memcpy(c.buffer, index, SubSeq(piece, 1, partLen))
      mixed   == MD5Transform(MD5Transform(c.state, Used(filled, BlockLen)),
                              SubSeq(piece, partLen + 1, i))
  IN  [state  |-> mixed,
       count  |-> CountBits(c.count, Len(piece)),
       buffer |-> MD5_memcpy(filled, 0, SubSeq(piece, i + 1, Len(piece)))]

(* A piece that does not. *)
Keep(c, piece) ==
  [state  |-> c.state,
   count  |-> CountBits(c.count, Len(piece)),
   buffer |-> MD5_memcpy(c.buffer, Index(c.count), piece)]

(* Faulty variants: a piece that just fills the buffer kept; the rest put    *)
(* after what was in the buffer before.                                      *)
UpdateKeepsFull(c, piece) ==
  IF Len(piece) > BlockLen - Index(c.count) THEN FillAndMix(c, piece) ELSE Keep(c, piece)
UpdateKeepsIndex(c, piece) ==
  IF Len(piece) >= BlockLen - Index(c.count)
  THEN [FillAndMix(c, piece) EXCEPT !.buffer = MD5_memcpy(@, Index(c.count), piece)]
  ELSE Keep(c, piece)

MD5Update(c, piece) ==
  IF Len(piece) >= BlockLen - Index(c.count) THEN FillAndMix(c, piece) ELSE Keep(c, piece)

(* The words of the count, the lower one and in each the lower byte first. *)
Encode(count) ==
  LET byte(word, k) == (word \div 2^(ByteBits * k)) % 2^ByteBits
  IN  [j \in 1 .. CountLen |-> IF j <= WordBytes
                               THEN byte(count.lo, j - 1)
                               ELSE byte(count.hi, j - 1 - WordBytes)]

(* The first n bytes of PADDING. *)
Padding(n) == [j \in 1 .. n |-> IF j = 1 THEN TopBit ELSE 0]

(* Faulty variants: no padding if the count would just fit; the count taken  *)
(* after the padding.                                                        *)
PadLenNone(index) ==
  IF index <= BlockLen - CountLen THEN BlockLen - CountLen - index
                                  ELSE 2 * BlockLen - CountLen - index

PadLen(index) ==
  IF index < BlockLen - CountLen THEN BlockLen - CountLen - index
                                 ELSE 2 * BlockLen - CountLen - index

FinalCountsPadding(c) ==
  LET padded == MD5Update(c, Padding(PadLen(Index(c.count))))
  IN  MD5Update(padded, Encode(padded.count)).state

MD5Final(c) ==
  LET padded == MD5Update(c, Padding(PadLen(Index(c.count))))
  IN  MD5Update(padded, Encode(c.count)).state

-------------------------------------------------------------------------------
(* ketama.c: the calls of the application. *)

(* In one call.  The context is a local variable, whose buffer holds         *)
(* whatever was on the stack.                                                *)
hash_md5(piece) ==
  /\ ctx = NULL
  /\ \E junk \in {0, TopBit} :
       digest' = MD5Final(MD5Update(MD5Init([j \in 0 .. BlockLen - 1 |-> junk]), piece))
  /\ input' = piece
  /\ UNCHANGED ctx

(* Opens the context if there is none, its buffer zeroed by calloc. *)
hash_md5_update(piece) ==
  /\ ctx' = MD5Update(IF ctx = NULL THEN MD5Init([j \in 0 .. BlockLen - 1 |-> 0]) ELSE ctx,
                      piece)
  /\ input' = IF ctx = NULL THEN piece ELSE input \o piece
  /\ digest' = NULL

(* Without a context nothing is written. *)
hash_md5_final ==
  /\ \/ ctx = NULL /\ UNCHANGED digest
     \/ ctx # NULL /\ digest' = MD5Final(ctx)
  /\ ctx' = NULL
  /\ UNCHANGED input

(* The next n bytes of the stream. *)
Given == IF ctx = NULL THEN 0 ELSE Len(input)

Piece(n) == SubSeq(Stream, Given + 1, Given + n)

Next ==
  \/ \E n \in PieceLens :
       /\ Given + n <= Len(Stream)
       /\ hash_md5(Piece(n)) \/ hash_md5_update(Piece(n))
  \/ hash_md5_final

Spec == Init /\ [][Next]_vars

-------------------------------------------------------------------------------
(* The text a context stands for: the blocks mixed in and the used part of   *)
(* the buffer.                                                               *)
Text(c) == c.state \o Used(c.buffer, Index(c.count))

BitsOf(n) == [lo |-> (n * ByteBits) % WordRange,
              hi |-> ((n * ByteBits) \div WordRange) % WordRange]

(* However the text was cut into pieces, and also when a word of the count   *)
(* has wrapped, the context stands for exactly the bytes given, mixed in as  *)
(* whole blocks, and counts their bits.                                      *)
Represents ==
  ctx # NULL =>
    /\ Text(ctx) = input
    /\ Len(ctx.state) % BlockLen = 0
    /\ ctx.count = BitsOf(Len(input))

(* RFC 1321: the text, the top bit, zeroes up to CountLen short of a block,  *)
(* the number of bits before the padding.                                    *)
Padded(text) ==
  text \o <<TopBit>>
       \o [j \in 1 .. (BlockLen - CountLen - 1 - Len(text)) % BlockLen |-> 0]
       \o Encode(BitsOf(Len(text)))

(* The digest is that of the text alone: the same for every way to cut it,   *)
(* for the one call and for the context, whatever the buffer held before.    *)
(* (A ring built by one call per host and a checksum made piece by piece,    *)
(* as in tests/testketama.c, are comparable with those of other clients.)    *)
DigestOfInput == digest # NULL => digest = Padded(input)
==================================================================================
