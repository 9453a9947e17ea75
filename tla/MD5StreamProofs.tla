----------------------------- MODULE MD5StreamProofs -----------------------------
(***************************************************************************)
(* The context of MD5Stream stands for the bytes given to it, for every    *)
(* size of byte, word and block, every text and every way to cut it.       *)
(***************************************************************************)
EXTENDS MD5Stream, SequenceTheorems, TLAPS

-------------------------------------------------------------------------------
(* Division. *)

(* The quotient and the remainder are the only ones. *)
LEMMA DivUnique ==
  ASSUME NEW d \in Nat \ {0}, NEW q \in Int, NEW r \in 0 .. d - 1
  PROVE  (q * d + r) \div d = q /\ (q * d + r) % d = r
  BY SMTT(30)

(* They exist. *)
LEMMA DivNamed ==
  ASSUME NEW d \in Nat, d > 0, NEW x \in Nat, NEW q \in Int, NEW r \in Int,
         q = x \div d, r = x % d
  PROVE  q >= 0 /\ r \in 0 .. d - 1 /\ x = d * q + r
  BY SMTT(30)

LEMMA DivSplit ==
  ASSUME NEW d \in Nat \ {0}, NEW x \in Nat
  PROVE  \E q \in Nat, r \in 0 .. d - 1 :
           q = x \div d /\ r = x % d /\ x = q * d + r
  <1> DEFINE q == x \div d
             r == x % d
  <1>1. q \in Int /\ r \in Int /\ d > 0 /\ d \in Nat
    OBVIOUS
  <1>2. q = x \div d /\ r = x % d
    OBVIOUS
  <1> HIDE DEF q, r
  <1>3. q >= 0 /\ r \in 0 .. d - 1 /\ x = d * q + r
    BY <1>1, <1>2, DivNamed
  <1>4. d * q = q * d /\ q \in Nat
    BY <1>1, <1>3
  <1> QED  BY <1>2, <1>3, <1>4

(* Whole multiples of d do not touch the remainder. *)
LEMMA ModPlus ==
  ASSUME NEW d \in Nat \ {0}, NEW x \in Nat, NEW k \in Nat
  PROVE  (k * d + x) % d = x % d /\ (k * d + x) \div d = k + (x \div d)
  <1>1. PICK q \in Nat, r \in 0 .. d - 1 : q = x \div d /\ r = x % d /\ x = q * d + r
    BY DivSplit
  <1>2. k * d + x = (k + q) * d + r
    <2>1. (k + q) * d = k * d + q * d
      OBVIOUS
    <2> QED  BY <1>1, <2>1
  <1>3. k + q \in Nat
    OBVIOUS
  <1>4. ((k + q) * d + r) \div d = k + q /\ ((k + q) * d + r) % d = r
    BY <1>3, DivUnique
  <1>5. QED  BY ONLY <1>1, <1>2, <1>4

(* A remainder may be taken before an addition. *)
LEMMA ModAdd ==
  ASSUME NEW d \in Nat \ {0}, NEW x \in Nat, NEW y \in Nat
  PROVE  ((x % d) + y) % d = (x + y) % d
  <1>1. PICK q \in Nat, r \in 0 .. d - 1 : q = x \div d /\ r = x % d /\ x = q * d + r
    BY DivSplit
  <1>2. (q * d + (r + y)) % d = (r + y) % d
    <2>1. r + y \in Nat
      OBVIOUS
    <2> QED  BY <2>1, ModPlus
  <1>3. q * d + (r + y) = x + y
    <2>1. q * d \in Int /\ r \in Int
      OBVIOUS
    <2> QED  BY <1>1, <2>1
  <1> QED  BY <1>1, <1>2, <1>3

(* Scaling: the quotient by a factor of the modulus. *)
LEMMA ModScaled ==
  ASSUME NEW b \in Nat \ {0}, NEW m \in Nat \ {0}, NEW n \in Nat
  PROVE  ((n * b) % (b * m)) \div b = n % m
  <1>1. PICK q \in Nat, r \in 0 .. m - 1 : q = n \div m /\ r = n % m /\ n = q * m + r
    BY DivSplit
  <1> DEFINE d == b * m
             s == r * b
  <1>2. d \in Nat \ {0} /\ s \in Nat
    BY SMTT(30)
  <1>3. s <= d - 1
    <2>1. r + 1 <= m
      OBVIOUS
    <2>2. (r + 1) * b <= m * b
      BY <2>1, SMTT(30)
    <2>3. (r + 1) * b = s + b /\ m * b = d
      BY SMTT(30)
    <2> QED  BY <2>2, <2>3, <1>2
  <1>4. n * b = q * d + s
    <2>1. (q * m + r) * b = q * (b * m) + r * b
      BY SMTT(30)
    <2> QED  BY <1>1, <2>1
  <1> HIDE DEF d, s
  <1>5. (q * d + s) % d = s
    BY <1>2, <1>3, DivUnique
  <1>6. (r * b + 0) \div b = r
    BY DivUnique
  <1>7. s \div b = r
    BY <1>6 DEF s
  <1> QED  BY ONLY <1>1, <1>4, <1>5, <1>7 DEF d

(* A remainder modulo a multiple keeps the remainder. *)
LEMMA ModOfMod ==
  ASSUME NEW b \in Nat \ {0}, NEW k \in Nat \ {0}, NEW n \in Nat
  PROVE  (n % (b * k)) % b = n % b
  <1> DEFINE d == b * k
  <1>1. d \in Nat \ {0}
    BY SMTT(30)
  <1> HIDE DEF d
  <1>2. PICK q \in Nat, r \in 0 .. d - 1 : q = n \div d /\ r = n % d /\ n = q * d + r
    BY <1>1, DivSplit
  <1>3. q * k \in Nat /\ r \in Nat
    BY <1>1
  <1>4. ((q * k) * b + r) % b = r % b
    BY <1>3, ModPlus
  <1>5. (q * k) * b = q * d
    BY SMTT(30) DEF d
  <1> QED  BY ONLY <1>2, <1>4, <1>5 DEF d

-------------------------------------------------------------------------------
(* The count. *)

LEMMA Sizes ==
  /\ WordRange \in Nat \ {0}
  /\ BlockLen * WordBlocks \in Nat \ {0}
  /\ BlockLen \in Nat \ {0} /\ ByteBits \in Nat \ {0}
  /\ CountLen \in 1 .. BlockLen - 1
  <1>1. /\ BlockLen \in Nat \ {0} /\ ByteBits \in Nat \ {0}
        /\ WordBlocks \in Nat \ {0} /\ WordBytes \in Nat \ {0} /\ CountLen < BlockLen
    BY StreamAssumption
  <1>2. BlockLen * WordBlocks \in Nat \ {0}
    BY <1>1, SMTT(30)
  <1>3. ByteBits * (BlockLen * WordBlocks) \in Nat \ {0}
    BY <1>1, <1>2, SMTT(30)
  <1> QED  BY <1>1, <1>2, <1>3 DEF WordRange, CountLen

LEMMA BitsType ==
  ASSUME NEW n \in Nat
  PROVE  BitsOf(n) \in [lo : Word, hi : Word]
  <1>1. n * ByteBits \in Nat
    BY Sizes, SMTT(30)
  <1>2. (n * ByteBits) % WordRange \in 0 .. WordRange - 1 /\ (n * ByteBits) \div WordRange \in Nat
    BY <1>1, Sizes, DivSplit
  <1>3. ((n * ByteBits) \div WordRange) % WordRange \in 0 .. WordRange - 1
    BY <1>2, Sizes
  <1> QED  BY <1>2, <1>3 DEF BitsOf, Word

(* The lower word determines how full the buffer is, wrapped or not. *)
LEMMA IndexOfBits ==
  ASSUME NEW n \in Nat
  PROVE  Index(BitsOf(n)) = n % BlockLen
  <1> DEFINE m == BlockLen * WordBlocks
  <1>1. m \in Nat \ {0} /\ ByteBits \in Nat \ {0} /\ BlockLen \in Nat \ {0} /\ WordBlocks \in Nat \ {0}
    BY Sizes, StreamAssumption
  <1> HIDE DEF m
  <1>2. ((n * ByteBits) % (ByteBits * m)) \div ByteBits = n % m
    BY <1>1, ModScaled
  <1>3. (n % (BlockLen * WordBlocks)) % BlockLen = n % BlockLen
    BY <1>1, ModOfMod
  <1> QED  BY ONLY <1>2, <1>3 DEF m, Index, BitsOf, WordRange

LEMMA CountsAdd ==
  ASSUME NEW m \in Nat, NEW n \in Nat
  PROVE  CountBits(BitsOf(m), n) = BitsOf(m + n)
  <1> DEFINE x == m * ByteBits
             y == n * ByteBits
             w == WordRange
  <1>1. x \in Nat /\ y \in Nat /\ w \in Nat \ {0}
    BY Sizes, SMTT(30)
  <1>2. (m + n) * ByteBits = x + y
    BY Sizes, SMTT(30)
  <1> HIDE DEF x, y, w
  <1>3. PICK q \in Nat, r \in 0 .. w - 1 : q = x \div w /\ r = x % w /\ x = q * w + r
    BY <1>1, DivSplit
  <1>4. PICK p \in Nat, s \in 0 .. w - 1 : p = y \div w /\ s = y % w /\ y = p * w + s
    BY <1>1, DivSplit
  <1>5. PICK carry \in {0, 1} :
          /\ (r + s) % w = r + s - carry * w
          /\ carry = (IF (r + s) % w < s THEN 1 ELSE 0)
          /\ r + s - carry * w \in 0 .. w - 1
    <2>1. CASE r + s < w
      <3>1. (0 * w + (r + s)) % w = r + s
        BY <1>1, <2>1, DivUnique
      <3> QED  BY <1>1, <2>1, <3>1
    <2>2. CASE r + s >= w
      <3>1. r + s - w \in 0 .. w - 1
        BY <1>1, <2>2
      <3>2. (1 * w + (r + s - w)) % w = r + s - w
        BY <1>1, <3>1, DivUnique
      <3> QED  BY <1>1, <2>2, <3>1, <3>2
    <2> QED  BY <1>1, <2>1, <2>2
  <1>6. x + y = (q + p + carry) * w + (r + s - carry * w)
    <2>1. (q + p + carry) * w = q * w + p * w + carry * w
      BY <1>1, SMTT(30)
    <2>2. q * w \in Int /\ p * w \in Int /\ carry * w \in Int /\ w \in Int
      BY <1>1
    <2> QED  BY <1>3, <1>4, <2>1, <2>2
  <1>7. (x + y) \div w = q + p + carry /\ (x + y) % w = r + s - carry * w
    <2> DEFINE u == q + p + carry
               v == r + s - carry * w
    <2>1. u \in Int /\ v \in 0 .. w - 1
      BY <1>5
    <2> HIDE DEF u, v
    <2>2. (u * w + v) \div w = u /\ (u * w + v) % w = v
      BY <1>1, <2>1, DivUnique
    <2> QED  BY ONLY <1>6, <2>2 DEF u, v
  <1>8. ((q % w) + (carry + p)) % w = (q + (carry + p)) % w
    <2>1. carry + p \in Nat
      OBVIOUS
    <2> QED  BY <1>1, <2>1, ModAdd
  <1>9. ((q % w) + carry + p) % w = (q + p + carry) % w
    <2>1. (q % w) \in Int
      BY <1>1
    <2>2. (q % w) + (carry + p) = (q % w) + carry + p /\ q + (carry + p) = q + p + carry
      BY <2>1
    <2> QED  BY <1>8, <2>2
  <1>10. CountBits(BitsOf(m), n) =
           [lo |-> (r + s) % w, hi |-> ((q % w) + carry + p) % w]
    BY ONLY <1>3, <1>4, <1>5 DEF CountBits, BitsOf, x, y, w
  <1>11. BitsOf(m + n) = [lo |-> (x + y) % w, hi |-> ((x + y) \div w) % w]
    BY ONLY <1>2 DEF BitsOf, w
  <1> QED  BY ONLY <1>5, <1>7, <1>9, <1>10, <1>11

-------------------------------------------------------------------------------
(* The context. *)

(* Context c stands for the text. *)
Stands(c, text) ==
  /\ c \in MD5_CTX
  /\ Text(c) = text
  /\ Len(c.state) % BlockLen = 0
  /\ c.count = BitsOf(Len(text))

LEMMA ConcatType ==
  ASSUME NEW s \in Seq(Byte), NEW t \in Seq(Byte)
  PROVE  s \o t \in Seq(Byte) /\ Len(s \o t) = Len(s) + Len(t)
  OBVIOUS

LEMMA UsedType ==
  ASSUME NEW buffer \in Buffer, NEW k \in 0 .. BlockLen
  PROVE  Used(buffer, k) \in Seq(Byte) /\ Len(Used(buffer, k)) = k
  <1>1. \A j \in 1 .. k : buffer[j - 1] \in Byte
    BY Sizes DEF Buffer
  <1> QED  BY <1>1, Sizes DEF Used

(* Bytes that fit are added to those used, inside the buffer. *)
LEMMA CopyInside ==
  ASSUME NEW buffer \in Buffer, NEW index \in Nat, NEW bytes \in Seq(Byte),
         index + Len(bytes) <= BlockLen
  PROVE  /\ MD5_memcpy(buffer, index, bytes) \in Buffer
         /\ Used(MD5_memcpy(buffer, index, bytes), index + Len(bytes))
              = Used(buffer, index) \o bytes
  <1> DEFINE copied == MD5_memcpy(buffer, index, bytes)
             n      == Len(bytes)
  <1>0. n \in Nat /\ BlockLen \in Nat /\ index \in 0 .. BlockLen /\ index + n \in 0 .. BlockLen
    BY Sizes
  <1>1. DOMAIN buffer \cup (index .. index + n - 1) = 0 .. BlockLen - 1
    BY Sizes DEF Buffer
  <1>2. \A j \in index .. index + n - 1 : bytes[j - index + 1] \in Byte
    OBVIOUS
  <1>3. \A j \in 0 .. BlockLen - 1 : buffer[j] \in Byte
    BY DEF Buffer
  <1>4. copied \in Buffer
    BY <1>1, <1>2, <1>3, Sizes DEF MD5_memcpy, Buffer
  <1>5. \A j \in 0 .. index - 1 : copied[j] = buffer[j]
    BY <1>0, <1>1 DEF MD5_memcpy
  <1>6. \A j \in 1 .. n : copied[index + j - 1] = bytes[j]
    BY <1>0, <1>1 DEF MD5_memcpy
  <1> HIDE DEF copied
  <1> DEFINE new == Used(copied, index + n)
             old == Used(buffer, index)
  <1>7. new \in Seq(Byte) /\ Len(new) = index + n
    BY <1>0, <1>4, UsedType
  <1>8. old \in Seq(Byte) /\ Len(old) = index
    BY <1>0, UsedType
  <1>9. old \o bytes \in Seq(Byte) /\ Len(old \o bytes) = index + n
    BY <1>8
  <1>10. ASSUME NEW j \in 1 .. index + n
         PROVE  new[j] = (old \o bytes)[j]
    <2>0. new[j] = copied[j - 1]
      BY <1>0 DEF Used
    <2>1. CASE j <= index
      <3>1. old[j] = buffer[j - 1]
        BY <1>0, <2>1 DEF Used
      <3>2. (old \o bytes)[j] = old[j]
        BY <1>8, <2>1
      <3>3. copied[j - 1] = buffer[j - 1]
        BY <1>0, <1>5, <2>1
      <3> QED  BY <2>0, <3>1, <3>2, <3>3
    <2>2. CASE j > index
      <3>1. j - index \in 1 .. n
        BY <1>0, <2>2
      <3>2. copied[index + (j - index) - 1] = bytes[j - index]
        BY <1>6, <3>1
      <3>3. index + (j - index) - 1 = j - 1
        BY <1>0
      <3>4. (old \o bytes)[j] = bytes[j - index]
        BY <1>0, <1>8, <2>2
      <3> QED  BY <2>0, <3>2, <3>3, <3>4
    <2>3. j <= index \/ j > index
      BY <1>0
    <2> QED  BY ONLY <2>1, <2>2, <2>3
  <1> HIDE DEF new, old
  <1>11. new = old \o bytes
    BY <1>7, <1>9, <1>10, SeqEqual
  <1> QED  BY <1>4, <1>11 DEF new, old, copied

(* What a context that stands for a text looks like inside. *)
LEMMA StandsFacts ==
  ASSUME NEW c, NEW text \in Seq(Byte), Stands(c, text)
  PROVE  /\ Index(c.count) = Len(text) % BlockLen
         /\ Index(c.count) \in 0 .. BlockLen - 1
         /\ text = c.state \o Used(c.buffer, Index(c.count))
         /\ Len(text) = Len(c.state) + Index(c.count)
         /\ c.state \in Seq(Byte)
         /\ c.buffer \in Buffer
         /\ c.count = BitsOf(Len(text))
         /\ Len(c.state) % BlockLen = 0
  <1> DEFINE idx == Index(c.count)
             used == Used(c.buffer, idx)
             st == c.state
  <1>0. Len(text) \in Nat /\ BlockLen \in Nat \ {0}
    BY Sizes
  <1>1. idx = Len(text) % BlockLen
    BY <1>0, IndexOfBits DEF Stands
  <1>2. idx \in 0 .. BlockLen - 1
    BY <1>0, <1>1
  <1>3. st \in Seq(Byte) /\ c.buffer \in Buffer
    BY DEF Stands, MD5_CTX
  <1>4. text = st \o used
    BY DEF Stands, Text
  <1> HIDE DEF idx, used, st
  <1>5. idx \in 0 .. BlockLen
    BY <1>0, <1>2
  <1>6. used \in Seq(Byte) /\ Len(used) = idx
    BY <1>3, <1>5, UsedType DEF used
  <1>7. Len(st \o used) = Len(st) + Len(used)
    BY <1>3, <1>6, ConcatType
  <1>8. Len(text) = Len(st) + idx
    BY ONLY <1>4, <1>6, <1>7
  <1> QED  BY ONLY <1>1, <1>2, <1>3, <1>4, <1>8, Stands(c, text) DEF Stands, idx, used, st

(* A piece that does not fill the buffer, as text and as a number. *)
LEMMA KeepText ==
  ASSUME NEW state \in Seq(Byte), NEW buffer \in Buffer, NEW idx \in Nat,
         NEW piece \in Seq(Byte), idx + Len(piece) <= BlockLen
  PROVE  /\ MD5_memcpy(buffer, idx, piece) \in Buffer
         /\ state \o Used(MD5_memcpy(buffer, idx, piece), idx + Len(piece))
              = (state \o Used(buffer, idx)) \o piece
  <1>1. /\ MD5_memcpy(buffer, idx, piece) \in Buffer
        /\ Used(MD5_memcpy(buffer, idx, piece), idx + Len(piece)) = Used(buffer, idx) \o piece
    BY CopyInside
  <1>2. idx \in 0 .. BlockLen
    BY Sizes
  <1>3. Used(buffer, idx) \in Seq(Byte)
    BY <1>2, UsedType
  <1>4. (state \o Used(buffer, idx)) \o piece = state \o (Used(buffer, idx) \o piece)
    BY <1>3, ConcatAssociative
  <1> QED  BY ONLY <1>1, <1>4

LEMMA KeepIndex ==
  ASSUME NEW t \in Nat, NEW n \in Nat, (t % BlockLen) + n < BlockLen
  PROVE  (t + n) % BlockLen = (t % BlockLen) + n
  <1> DEFINE r == t % BlockLen
  <1>0. BlockLen \in Nat \ {0} /\ r \in Nat
    BY Sizes
  <1>1. (r + n) % BlockLen = (t + n) % BlockLen
    BY <1>0, ModAdd
  <1> HIDE DEF r
  <1>2. r + n \in 0 .. BlockLen - 1 /\ 0 * BlockLen + (r + n) = r + n
    BY <1>0 DEF r
  <1>3. (0 * BlockLen + (r + n)) % BlockLen = r + n
    BY <1>0, <1>2, DivUnique
  <1> QED  BY ONLY <1>1, <1>2, <1>3 DEF r

(* A context put together from its parts. *)
LEMMA StandsIf ==
  ASSUME NEW state \in Seq(Byte), NEW buffer \in Buffer, NEW text \in Seq(Byte),
         Len(state) % BlockLen = 0,
         state \o Used(buffer, Len(text) % BlockLen) = text
  PROVE  Stands([state |-> state, count |-> BitsOf(Len(text)), buffer |-> buffer], text)
  <1>1. Len(text) \in Nat
    OBVIOUS
  <1>2. BitsOf(Len(text)) \in [lo : Word, hi : Word]
    BY <1>1, BitsType
  <1>3. Index(BitsOf(Len(text))) = Len(text) % BlockLen
    BY <1>1, IndexOfBits
  <1> DEFINE c == [state |-> state, count |-> BitsOf(Len(text)), buffer |-> buffer]
  <1>4. c \in MD5_CTX
    BY <1>2 DEF MD5_CTX
  <1>5. Text(c) = state \o Used(buffer, Index(BitsOf(Len(text))))
    BY DEF Text
  <1> QED  BY <1>3, <1>4, <1>5 DEF Stands

LEMMA KeepStands ==
  ASSUME NEW c, NEW text \in Seq(Byte), Stands(c, text), NEW piece \in Seq(Byte),
         Len(piece) < BlockLen - Index(c.count)
  PROVE  Stands(Keep(c, piece), text \o piece)
  <1> DEFINE idx == Index(c.count)
             n   == Len(piece)
             buf == MD5_memcpy(c.buffer, idx, piece)
  <1>0. BlockLen \in Nat \ {0} /\ n \in Nat /\ Len(text) \in Nat
    BY Sizes
  <1>1. idx = Len(text) % BlockLen /\ idx \in 0 .. BlockLen - 1
    BY StandsFacts
  <1>2. text = c.state \o Used(c.buffer, idx) /\ c.state \in Seq(Byte) /\ c.buffer \in Buffer
    BY StandsFacts
  <1>3. c.count = BitsOf(Len(text)) /\ Len(c.state) % BlockLen = 0
    BY StandsFacts
  <1>4. n < BlockLen - idx
    OBVIOUS
  <1> HIDE DEF idx
  <1>5. idx \in Nat /\ idx + n <= BlockLen /\ idx + n < BlockLen
    BY ONLY <1>0, <1>1, <1>4
  <1>6. buf \in Buffer /\ c.state \o Used(buf, idx + n) = text \o piece
    BY <1>2, <1>5, KeepText
  <1>7. (Len(text) + n) % BlockLen = idx + n
    BY <1>0, <1>1, <1>5, KeepIndex
  <1>8. text \o piece \in Seq(Byte) /\ Len(text \o piece) = Len(text) + n
    BY ConcatType
  <1>9. CountBits(c.count, n) = BitsOf(Len(text) + n)
    BY <1>0, <1>3, CountsAdd
  <1>10. Keep(c, piece) = [state |-> c.state, count |-> BitsOf(Len(text \o piece)), buffer |-> buf]
    BY ONLY <1>8, <1>9 DEF Keep, idx
  <1> HIDE DEF n, buf
  <1>11. c.state \o Used(buf, Len(text \o piece) % BlockLen) = text \o piece
    BY ONLY <1>6, <1>7, <1>8
  <1>12. Stands([state |-> c.state, count |-> BitsOf(Len(text \o piece)), buffer |-> buf],
                text \o piece)
    BY <1>2, <1>3, <1>6, <1>8, <1>11, StandsIf
  <1> QED  BY ONLY <1>10, <1>12

(* A piece that fills it: how far the whole blocks reach. *)
Reaches(t, n, p, k) ==
  /\ p \in 1 .. BlockLen /\ k \in Nat
  /\ p + BlockLen * k \in p .. n
  /\ n - (p + BlockLen * k) \in 0 .. BlockLen - 1
  /\ (t + n) % BlockLen = n - (p + BlockLen * k)

LEMMA FillIndex ==
  ASSUME NEW t \in Nat, NEW n \in Nat, n >= BlockLen - (t % BlockLen),
         NEW p, p = BlockLen - (t % BlockLen)
  PROVE  Reaches(t, n, p, (n - p) \div BlockLen)
  <1> DEFINE k == (n - p) \div BlockLen
  <1>0. BlockLen \in Nat \ {0}
    BY Sizes
  <1>1. PICK a \in Nat, idx \in 0 .. BlockLen - 1 :
          a = t \div BlockLen /\ idx = t % BlockLen /\ t = a * BlockLen + idx
    BY <1>0, DivSplit
  <1>2. p \in 1 .. BlockLen /\ n - p \in Nat /\ p = BlockLen - idx
    <2>1. p = BlockLen - idx /\ n >= BlockLen - idx
      BY ONLY <1>1, p = BlockLen - (t % BlockLen), n >= BlockLen - (t % BlockLen)
    <2>2. idx \in 0 .. BlockLen - 1 /\ n \in Nat
      BY <1>1
    <2> QED  BY ONLY <1>0, <2>1, <2>2
  <1>3. PICK q \in Nat, r \in 0 .. BlockLen - 1 :
          q = (n - p) \div BlockLen /\ r = (n - p) % BlockLen /\ n - p = q * BlockLen + r
    BY <1>0, <1>2, DivSplit
  <1> DEFINE kb == q * BlockLen
             ab == a * BlockLen
  <1> HIDE DEF k
  <1>4. kb \in Nat /\ ab \in Nat /\ BlockLen * k = kb /\ k = q
    BY <1>0, <1>3, SMTT(30) DEF k
  <1>5. (a + 1 + q) * BlockLen = ab + BlockLen + kb
    BY <1>0, SMTT(30)
  <1> HIDE DEF kb, ab
  <1>6. n - p = kb + r /\ t = ab + idx
    BY ONLY <1>1, <1>3 DEF kb, ab
  <1>7. p + BlockLen * k \in p .. n /\ n - (p + BlockLen * k) = r
    <2>1. kb \in Nat /\ p \in Int /\ n \in Int /\ r \in Nat
      BY <1>2, <1>4
    <2>2. p + kb \in p .. n /\ n - (p + kb) = r
      BY ONLY <1>6, <2>1
    <2> QED  BY ONLY <1>4, <2>2
  <1>8. t + n = (a + 1 + q) * BlockLen + r
    BY <1>0, <1>2, <1>4, <1>5, <1>6
  <1>9. a + 1 + q \in Int
    BY <1>1, <1>3
  <1>10. ((a + 1 + q) * BlockLen + r) % BlockLen = r
    BY <1>0, <1>9, DivUnique
  <1>11. Reaches(t, n, p, k)
    BY ONLY <1>2, <1>3, <1>4, <1>7, <1>8, <1>10 DEF Reaches
  <1> QED  BY <1>11 DEF k

(* A text cut at p and at i, and its three parts. *)
Parts(piece, p, i) ==
  /\ SubSeq(piece, 1, p) \in Seq(Byte) /\ Len(SubSeq(piece, 1, p)) = p
  /\ SubSeq(piece, p + 1, i) \in Seq(Byte) /\ Len(SubSeq(piece, p + 1, i)) = i - p
  /\ SubSeq(piece, i + 1, Len(piece)) \in Seq(Byte)
  /\ Len(SubSeq(piece, i + 1, Len(piece))) = Len(piece) - i
  /\ piece = SubSeq(piece, 1, p)
               \o (SubSeq(piece, p + 1, i) \o SubSeq(piece, i + 1, Len(piece)))

LEMMA ThreeParts ==
  ASSUME NEW piece \in Seq(Byte), NEW p \in Nat, NEW i \in Nat, p <= i, i <= Len(piece)
  PROVE  Parts(piece, p, i)
  <1>1. SubSeq(piece, 1, p) \in Seq(Byte) /\ Len(SubSeq(piece, 1, p)) = p
    OBVIOUS
  <1>2. SubSeq(piece, p + 1, i) \in Seq(Byte) /\ Len(SubSeq(piece, p + 1, i)) = i - p
    OBVIOUS
  <1>3. /\ SubSeq(piece, i + 1, Len(piece)) \in Seq(Byte)
        /\ Len(SubSeq(piece, i + 1, Len(piece))) = Len(piece) - i
    OBVIOUS
  <1>0. Len(piece) \in Nat
    OBVIOUS
  <1> DEFINE n == Len(piece)
  <1> HIDE DEF n
  <1>a. /\ 1 \in 1 .. n + 1 /\ p + 1 \in 1 .. n + 1
        /\ p \in 1 - 1 .. n /\ i \in (p + 1) - 1 .. n
        /\ n \in p .. n /\ n \in i .. n
    BY <1>0 DEF n
  <1>4. SubSeq(piece, p + 1, i) \o SubSeq(piece, i + 1, Len(piece))
          = SubSeq(piece, p + 1, Len(piece))
    BY ONLY piece \in Seq(Byte), <1>a, ConcatAdjacentSubSeq DEF n
  <1>5. SubSeq(piece, 1, p) \o SubSeq(piece, p + 1, Len(piece)) = SubSeq(piece, 1, Len(piece))
    BY ONLY piece \in Seq(Byte), <1>a, ConcatAdjacentSubSeq DEF n
  <1>6. SubSeq(piece, 1, Len(piece)) = piece
    BY SubSeqFull
  <1> QED  BY ONLY <1>1, <1>2, <1>3, <1>4, <1>5, <1>6 DEF Parts

(* Concatenations may be regrouped.  The equation has a name so that the     *)
(* lemma applies to sequences that are concatenations themselves.            *)
Regroups(s, t, u) == (s \o t) \o u = s \o (t \o u)

LEMMA Assoc ==
  ASSUME NEW s \in Seq(Byte), NEW t \in Seq(Byte), NEW u \in Seq(Byte)
  PROVE  Regroups(s, t, u)
  BY ConcatAssociative DEF Regroups

RegroupsAll(s, u, a, m, r) ==
  ((s \o (u \o a)) \o m) \o r = (s \o u) \o (a \o (m \o r))

LEMMA Regroup ==
  ASSUME NEW s \in Seq(Byte), NEW u \in Seq(Byte), NEW a \in Seq(Byte),
         NEW m \in Seq(Byte), NEW r \in Seq(Byte)
  PROVE  RegroupsAll(s, u, a, m, r)
  <1>1. s \o u \in Seq(Byte) /\ m \o r \in Seq(Byte)
    BY ConcatType
  <1>2. (s \o u) \o a \in Seq(Byte)
    BY <1>1, ConcatType
  <1>3. Regroups(s, u, a)
    BY Assoc
  <1>4. Regroups((s \o u) \o a, m, r)
    BY <1>2, Assoc
  <1>5. Regroups(s \o u, a, m \o r)
    BY <1>1, Assoc
  <1> QED  BY ONLY <1>3, <1>4, <1>5 DEF Regroups, RegroupsAll

(* The buffer filled and mixed in, the blocks after it, the rest kept.       *)
Mixed(st, buffer, idx, a, m) == (st \o Used(MD5_memcpy(buffer, idx, a), BlockLen)) \o m
Rest(buffer, idx, a, r)      == MD5_memcpy(MD5_memcpy(buffer, idx, a), 0, r)

Fills(st, buffer, idx, a, m, r) ==
  /\ Rest(buffer, idx, a, r) \in Buffer /\ Mixed(st, buffer, idx, a, m) \in Seq(Byte)
  /\ Len(Mixed(st, buffer, idx, a, m)) = (Len(st) + BlockLen) + Len(m)
  /\ Mixed(st, buffer, idx, a, m) \o Used(Rest(buffer, idx, a, r), Len(r))
       = (st \o Used(buffer, idx)) \o (a \o (m \o r))

LEMMA FillText ==
  ASSUME NEW st \in Seq(Byte), NEW buffer \in Buffer, NEW idx \in 0 .. BlockLen - 1,
         NEW a \in Seq(Byte), NEW m \in Seq(Byte), NEW r \in Seq(Byte),
         Len(a) = BlockLen - idx, Len(r) <= BlockLen
  PROVE  Fills(st, buffer, idx, a, m, r)
  <1> DEFINE u == Used(buffer, idx)
             filled == MD5_memcpy(buffer, idx, a)
             mixed == (st \o Used(filled, BlockLen)) \o m
             last == MD5_memcpy(filled, 0, r)
  <1>0. /\ BlockLen \in Nat \ {0} /\ idx \in Nat /\ idx \in 0 .. BlockLen
        /\ idx + Len(a) = BlockLen /\ idx + Len(a) <= BlockLen /\ BlockLen \in 0 .. BlockLen
    BY Sizes
  <1>1. u \in Seq(Byte)
    BY <1>0, UsedType
  <1>2. filled \in Buffer /\ Used(filled, idx + Len(a)) = u \o a
    BY <1>0, CopyInside
  <1> HIDE DEF u, filled
  <1>3. Used(filled, BlockLen) = u \o a
    BY ONLY <1>0, <1>2
  <1>4. Used(filled, BlockLen) \in Seq(Byte) /\ Len(Used(filled, BlockLen)) = BlockLen
    BY <1>0, <1>2, UsedType
  <1>5. /\ st \o Used(filled, BlockLen) \in Seq(Byte)
        /\ Len(st \o Used(filled, BlockLen)) = Len(st) + BlockLen
    <2> DEFINE w == Used(filled, BlockLen)
    <2>1. w \in Seq(Byte) /\ Len(w) = BlockLen
      BY ONLY <1>4
    <2> HIDE DEF w
    <2>2. st \o w \in Seq(Byte) /\ Len(st \o w) = Len(st) + BlockLen
      BY ONLY st \in Seq(Byte), <2>1, ConcatType
    <2> QED  BY ONLY <2>2 DEF w
  <1>6. mixed \in Seq(Byte) /\ Len(mixed) = (Len(st) + BlockLen) + Len(m)
    BY <1>5, ConcatType
  <1> HIDE DEF mixed
  <1>8. last \in Buffer /\ Used(last, Len(r)) = Used(filled, 0) \o r
    <2> DEFINE z == 0
               n == z + Len(r)
    <2>1. z \in Nat /\ z + Len(r) <= BlockLen
      OBVIOUS
    <2>2. n = Len(r)
      OBVIOUS
    <2> HIDE DEF z
    <2>3. MD5_memcpy(filled, z, r) \in Buffer
      BY <1>2, <2>1, CopyInside
    <2>4. Used(MD5_memcpy(filled, z, r), n) = Used(filled, z) \o r
      BY <1>2, <2>1, CopyInside
    <2> QED  BY ONLY <2>2, <2>3, <2>4 DEF z
  <1> HIDE DEF last
  <1>9. Used(filled, 0) \o r = r
    <2>1. Used(filled, 0) = <<>>
      <3>1. Used(filled, 0) \in Seq(Byte) /\ Len(Used(filled, 0)) = 0
        BY <1>0, <1>2, UsedType
      <3> QED  BY <3>1, EmptySeq
    <2> QED  BY ONLY r \in Seq(Byte), <2>1, ConcatEmptySeq
  <1>10. Used(last, Len(r)) = r
    BY ONLY <1>8, <1>9
  <1>11. RegroupsAll(st, u, a, m, r)
    BY <1>1, Regroup
  <1>12. mixed \o r = (st \o u) \o (a \o (m \o r))
    BY ONLY <1>3, <1>11 DEF mixed, RegroupsAll
  <1>13. mixed \o Used(last, Len(r)) = (st \o u) \o (a \o (m \o r))
    BY ONLY <1>10, <1>12
  <1>14. mixed = Mixed(st, buffer, idx, a, m) /\ last = Rest(buffer, idx, a, r)
    BY ONLY DEF mixed, last, filled, Mixed, Rest
  <1> QED  BY ONLY <1>6, <1>8, <1>13, <1>14 DEF u, Fills

LEMMA FillStands ==
  ASSUME NEW c, NEW text \in Seq(Byte), Stands(c, text), NEW piece \in Seq(Byte),
         Len(piece) >= BlockLen - Index(c.count)
  PROVE  Stands(FillAndMix(c, piece), text \o piece)
  <1> DEFINE idx  == Index(c.count)
             n    == Len(piece)
             p    == BlockLen - idx
             k    == (n - p) \div BlockLen
             i    == p + BlockLen * k
             a    == SubSeq(piece, 1, p)
             m    == SubSeq(piece, p + 1, i)
             r    == SubSeq(piece, i + 1, n)
             filled == MD5_memcpy(c.buffer, idx, a)
             mixed  == (c.state \o Used(filled, BlockLen)) \o m
             last   == MD5_memcpy(filled, 0, r)
             st     == c.state
             buf    == c.buffer
             t      == Len(text)
             new    == text \o piece
  <1>1. FillAndMix(c, piece) = [state |-> mixed, count |-> CountBits(c.count, n), buffer |-> last]
    BY DEF FillAndMix, MD5Transform
  <1>2. BlockLen \in Nat \ {0} /\ n \in Nat /\ t \in Nat
    BY Sizes
  <1>3. idx = t % BlockLen /\ idx \in 0 .. BlockLen - 1
    BY StandsFacts
  <1>4. text = st \o Used(buf, idx) /\ st \in Seq(Byte) /\ buf \in Buffer
    BY StandsFacts
  <1>5. c.count = BitsOf(t) /\ Len(st) % BlockLen = 0
    BY StandsFacts
  <1>6. n >= BlockLen - idx /\ p = BlockLen - idx /\ k = (n - p) \div BlockLen
    OBVIOUS
  <1>7. i = p + BlockLen * k
    OBVIOUS
  <1> HIDE DEF idx, p, k, n, i, st, t, buf
  <1>8. /\ p \in 1 .. BlockLen /\ k \in Nat
        /\ i \in p .. n
        /\ n - i \in 0 .. BlockLen - 1
        /\ (t + n) % BlockLen = n - i
    <2>1. n >= BlockLen - (t % BlockLen) /\ p = BlockLen - (t % BlockLen)
      BY ONLY <1>3, <1>6
    <2>2. Reaches(t, n, p, (n - p) \div BlockLen)
      BY ONLY <1>2, <2>1, FillIndex
    <2> QED  BY ONLY <1>6, <1>7, <2>2 DEF Reaches
  <1>9. p \in Nat /\ i \in Nat /\ p <= i /\ i <= Len(piece) /\ n = Len(piece)
    BY <1>2, <1>8 DEF n
  <1>10. /\ a \in Seq(Byte) /\ Len(a) = p
         /\ m \in Seq(Byte) /\ Len(m) = i - p
         /\ r \in Seq(Byte) /\ Len(r) = n - i
         /\ piece = a \o (m \o r)
    <2>1. Parts(piece, p, i)
      BY ONLY piece \in Seq(Byte), <1>9, ThreeParts
    <2> QED  BY ONLY <1>9, <2>1 DEF Parts
  <1>11. Len(a) = BlockLen - idx /\ Len(r) <= BlockLen
    BY ONLY <1>2, <1>6, <1>8, <1>10
  <1> HIDE DEF a, m, r
  <1>12. mixed = Mixed(st, buf, idx, a, m) /\ last = Rest(buf, idx, a, r)
    BY DEF buf, st, Mixed, Rest
  <1>13. Fills(st, buf, idx, a, m, r)
    BY ONLY <1>3, <1>4, <1>10, <1>11, FillText
  <1> HIDE DEF filled, mixed, last
  <1>14. /\ last \in Buffer /\ mixed \in Seq(Byte)
         /\ Len(mixed) = (Len(st) + BlockLen) + Len(m)
         /\ mixed \o Used(last, Len(r)) = (st \o Used(buf, idx)) \o (a \o (m \o r))
    BY ONLY <1>12, <1>13 DEF Fills
  <1>15. Len(mixed) % BlockLen = 0
    <2> DEFINE l == Len(st)
               bk == BlockLen * k
    <2>1. l \in Nat
      BY <1>4
    <2>2. (1 + k) * BlockLen = BlockLen + bk /\ bk \in Nat
      BY <1>2, <1>8, SMTT(30)
    <2>3. Len(m) = bk
      BY ONLY <1>2, <1>7, <1>8, <1>10, <2>2
    <2> HIDE DEF l, bk
    <2>4. Len(mixed) = (1 + k) * BlockLen + l
      <3>1. Len(mixed) = (l + BlockLen) + Len(m)
        BY ONLY <1>14 DEF l
      <3> QED  BY ONLY <1>2, <2>1, <2>2, <2>3, <3>1
    <2>5. 1 + k \in Nat
      BY <1>8
    <2>6. ((1 + k) * BlockLen + l) % BlockLen = l % BlockLen
      BY ONLY <1>2, <2>1, <2>5, ModPlus
    <2> QED  BY ONLY <1>5, <2>4, <2>6 DEF l
  <1>16. new \in Seq(Byte) /\ Len(new) = t + n
    BY ConcatType DEF n, t
  <1>17. mixed \o Used(last, Len(new) % BlockLen) = new
    BY ONLY <1>4, <1>8, <1>10, <1>14, <1>16
  <1>18. CountBits(c.count, n) = BitsOf(Len(new))
    <2>1. CountBits(BitsOf(t), n) = BitsOf(t + n)
      BY <1>2, CountsAdd
    <2> QED  BY ONLY <1>5, <1>16, <2>1
  <1> HIDE DEF new
  <1>19. Stands([state |-> mixed, count |-> BitsOf(Len(new)), buffer |-> last], new)
    BY <1>14, <1>15, <1>16, <1>17, StandsIf
  <1> QED  BY ONLY <1>1, <1>18, <1>19 DEF new

(* The text of a context grows by exactly the piece given. *)
LEMMA UpdateStands ==
  ASSUME NEW c, NEW text \in Seq(Byte), Stands(c, text), NEW piece \in Seq(Byte)
  PROVE  Stands(MD5Update(c, piece), text \o piece)
  <1> DEFINE room == BlockLen - Index(c.count)
  <1>1. room \in Int /\ Len(piece) \in Nat
    <2>1. Index(c.count) \in 0 .. BlockLen - 1
      BY StandsFacts
    <2> QED  BY <2>1, Sizes
  <1>2. CASE Len(piece) >= room
    BY <1>2, FillStands DEF MD5Update
  <1>3. CASE ~ (Len(piece) >= room)
    <2>1. Len(piece) < room
      BY <1>1, <1>3
    <2>2. Stands(Keep(c, piece), text \o piece)
      BY <2>1, KeepStands
    <2> QED  BY ONLY <1>3, <2>2 DEF MD5Update
  <1> QED  BY <1>2, <1>3

-------------------------------------------------------------------------------
(* The end. *)

LEMMA EncodeType ==
  ASSUME NEW count \in [lo : Word, hi : Word]
  PROVE  Encode(count) \in Seq(Byte) /\ Len(Encode(count)) = CountLen
  <1> DEFINE byte(word, k) == (word \div 2^(ByteBits * k)) % 2^ByteBits
             lo == count.lo
             hi == count.hi
  <1>1. lo \in Word /\ hi \in Word
    OBVIOUS
  <1>2. CountLen \in Nat /\ WordBytes \in Nat /\ CountLen = 2 * WordBytes
    BY StreamAssumption, Sizes DEF CountLen
  <1>3. \A w \in Word, k \in 0 .. WordBytes - 1 : byte(w, k) \in Byte
    BY StreamAssumption
  <1>4. Encode(count) = [j \in 1 .. CountLen |-> IF j <= WordBytes
                                                THEN byte(lo, j - 1)
                                                ELSE byte(hi, j - 1 - WordBytes)]
    BY DEF Encode
  <1> HIDE DEF byte, lo, hi
  <1>5. ASSUME NEW j \in 1 .. CountLen
        PROVE  (IF j <= WordBytes THEN byte(lo, j - 1) ELSE byte(hi, j - 1 - WordBytes)) \in Byte
    <2>1. CASE j <= WordBytes
      <3>1. j - 1 \in 0 .. WordBytes - 1
        BY <1>2, <2>1
      <3> QED  BY <1>1, <1>3, <2>1, <3>1
    <2>2. CASE ~ (j <= WordBytes)
      <3>1. (j - 1) - WordBytes \in 0 .. WordBytes - 1
        BY <1>2, <2>2
      <3> QED  BY <1>1, <1>3, <2>2, <3>1
    <2> QED  BY <2>1, <2>2
  <1> QED  BY ONLY <1>2, <1>4, <1>5

LEMMA PaddingType ==
  ASSUME NEW n \in Nat
  PROVE  Padding(n) \in Seq(Byte) /\ Len(Padding(n)) = n
  <1>1. 0 \in Byte /\ TopBit \in Byte
    BY StreamAssumption
  <1> QED  BY <1>1 DEF Padding

LEMMA PaddingParts ==
  ASSUME NEW n \in Nat \ {0}, NEW z \in Nat, z = n - 1
  PROVE  /\ <<TopBit>> \in Seq(Byte) /\ [j \in 1 .. z |-> 0] \in Seq(Byte)
         /\ Padding(n) = <<TopBit>> \o [j \in 1 .. z |-> 0]
  <1> DEFINE top   == <<TopBit>>
             zeros == [j \in 1 .. z |-> 0]
  <1>1. 0 \in Byte /\ TopBit \in Byte
    BY StreamAssumption
  <1>2. top \in Seq(Byte) /\ Len(top) = 1 /\ top[1] = TopBit
    BY <1>1
  <1>3. zeros \in Seq(Byte) /\ Len(zeros) = z
    BY <1>1
  <1>4. \A j \in 1 .. z : zeros[j] = 0
    OBVIOUS
  <1> HIDE DEF top, zeros
  <1>5. /\ top \o zeros \in Seq(Byte) /\ Len(top \o zeros) = n
        /\ \A j \in 1 .. n : (top \o zeros)[j] = IF j <= 1 THEN top[j] ELSE zeros[j - 1]
    <2>1. /\ top \o zeros \in Seq(Byte) /\ Len(top \o zeros) = Len(top) + Len(zeros)
          /\ \A j \in 1 .. Len(top) + Len(zeros) :
               (top \o zeros)[j] = IF j <= Len(top) THEN top[j] ELSE zeros[j - Len(top)]
      BY ONLY <1>2, <1>3, ConcatProperties
    <2>2. Len(top) + Len(zeros) = n
      BY <1>2, <1>3
    <2> QED  BY ONLY <1>2, <2>1, <2>2
  <1>6. Padding(n) \in Seq(Byte) /\ Len(Padding(n)) = n
    BY PaddingType
  <1>7. \A j \in 1 .. n : Padding(n)[j] = (IF j = 1 THEN TopBit ELSE 0)
    BY DEF Padding
  <1>8. \A j \in 1 .. n : Padding(n)[j] = (top \o zeros)[j]
    BY <1>2, <1>4, <1>5, <1>7
  <1>9. Padding(n) = top \o zeros
    BY <1>5, <1>6, <1>8, SeqEqual
  <1> QED  BY <1>2, <1>3, <1>9 DEF top, zeros

(* How long the padding is, below and above the place of the count. *)
Pads(t, n) ==
  /\ n \in Nat \ {0}
  /\ (t + n + CountLen) % BlockLen = 0
  /\ (BlockLen - CountLen - 1 - t) % BlockLen = n - 1

LEMMA PadLenPads ==
  ASSUME NEW t \in Nat
  PROVE  Pads(t, PadLen(t % BlockLen))
  <1> DEFINE n == PadLen(t % BlockLen)
  <1>1. BlockLen \in Nat \ {0} /\ CountLen \in 1 .. BlockLen - 1
    BY Sizes
  <1>2. PICK a \in Nat, idx \in 0 .. BlockLen - 1 :
          a = t \div BlockLen /\ idx = t % BlockLen /\ t = a * BlockLen + idx
    BY <1>1, DivSplit
  <1> DEFINE ab == a * BlockLen
  <1>3. ab \in Nat /\ t = ab + idx
    BY <1>1, <1>2
  <1>4. n = IF idx < BlockLen - CountLen THEN BlockLen - CountLen - idx
                                         ELSE 2 * BlockLen - CountLen - idx
    BY ONLY <1>2 DEF PadLen
  <1> HIDE DEF n
  <1>5. PICK b \in {1, 2} : n = b * BlockLen - CountLen - idx /\ n \in 1 .. BlockLen
    <2>1. CASE idx < BlockLen - CountLen
      BY <1>1, <1>4, <2>1
    <2>2. CASE ~ (idx < BlockLen - CountLen)
      BY <1>1, <1>4, <2>2
    <2> QED  BY <2>1, <2>2
  <1> DEFINE bb == b * BlockLen
  <1>6. bb \in Nat /\ n = bb - CountLen - idx
    BY <1>1, <1>5
  <1>7. (a + b) * BlockLen = ab + bb /\ (1 - a - b) * BlockLen = BlockLen - ab - bb
    BY <1>1, SMTT(30)
  <1> HIDE DEF ab, bb
  <1>8. t + n + CountLen = (a + b) * BlockLen + 0
    <2>1. t + n + CountLen = ab + bb
      <3>1. idx \in Int /\ CountLen \in Int
        BY <1>1
      <3> QED  BY ONLY <1>3, <1>6, <3>1
    <2>2. ab + bb = (ab + bb) + 0
      BY ONLY <1>3, <1>6
    <2> QED  BY ONLY <1>7, <2>1, <2>2
  <1>9. BlockLen - CountLen - 1 - t = (1 - a - b) * BlockLen + (n - 1)
    BY ONLY <1>1, <1>2, <1>3, <1>6, <1>7
  <1>10. a + b \in Int /\ 1 - a - b \in Int /\ 0 \in 0 .. BlockLen - 1 /\ n - 1 \in 0 .. BlockLen - 1
    BY <1>1, <1>5
  <1>11. ((a + b) * BlockLen + 0) % BlockLen = 0
    BY ONLY <1>1, <1>10, DivUnique
  <1>12. ((1 - a - b) * BlockLen + (n - 1)) % BlockLen = n - 1
    BY ONLY <1>1, <1>10, DivUnique
  <1>13. n \in Nat \ {0}
    BY <1>1, <1>5
  <1>14. Pads(t, n)
    BY ONLY <1>8, <1>9, <1>11, <1>12, <1>13 DEF Pads
  <1> QED  BY <1>14 DEF n

(* What is mixed in at the end is the padded text and nothing else. *)
LEMMA FinalDigest ==
  ASSUME NEW c, NEW text \in Seq(Byte), Stands(c, text)
  PROVE  MD5Final(c) = Padded(text) /\ MD5Final(c) \in Seq(Byte)
  <1> DEFINE t   == Len(text)
             n   == PadLen(Index(c.count))
             z   == n - 1
             pad == Padding(n)
             enc == Encode(c.count)
             one == MD5Update(c, pad)
             fin == MD5Update(one, enc)
             tp  == text \o pad
             all == tp \o enc
  <1>1. t \in Nat /\ BlockLen \in Nat \ {0} /\ CountLen \in Nat
    BY Sizes
  <1>2. Index(c.count) = t % BlockLen /\ c.count = BitsOf(t)
    BY StandsFacts
  <1>3. Pads(t, n)
    BY <1>1, <1>2, PadLenPads
  <1>4. MD5Final(c) = fin.state
    BY DEF MD5Final
  <1> HIDE DEF n, t
  <1>5. n \in Nat /\ n \in Nat \ {0} /\ z \in Nat
    BY ONLY <1>3 DEF Pads
  <1>6. pad \in Seq(Byte) /\ Len(pad) = n
    BY <1>5, PaddingType
  <1>7. c.count \in [lo : Word, hi : Word]
    BY ONLY <1>1, <1>2, BitsType
  <1>8. enc \in Seq(Byte) /\ Len(enc) = CountLen
    BY <1>7, EncodeType
  <1>9. <<TopBit>> \in Seq(Byte) /\ [j \in 1 .. z |-> 0] \in Seq(Byte)
    BY <1>5, PaddingParts
  <1>10. pad = <<TopBit>> \o [j \in 1 .. z |-> 0]
    BY <1>5, PaddingParts
  <1> HIDE DEF pad, enc
  <1>11. tp \in Seq(Byte) /\ Len(tp) = t + n
    BY <1>6, ConcatType DEF t
  <1>12. Stands(one, tp)
    BY <1>6, UpdateStands
  <1> HIDE DEF one, tp
  <1>13. all \in Seq(Byte) /\ Len(all) = t + n + CountLen
    BY <1>8, <1>11, ConcatType
  <1>14. Stands(fin, all)
    BY <1>8, <1>11, <1>12, UpdateStands
  <1> HIDE DEF fin, all
  <1>15. all = fin.state \o Used(fin.buffer, Index(fin.count))
    BY <1>13, <1>14, StandsFacts
  <1>16. Index(fin.count) = Len(all) % BlockLen /\ fin.state \in Seq(Byte) /\ fin.buffer \in Buffer
    BY <1>13, <1>14, StandsFacts
  <1>17. Index(fin.count) = 0
    BY ONLY <1>3, <1>13, <1>16 DEF Pads
  <1>18. all = fin.state
    <2> DEFINE st == fin.state
               none == Used(fin.buffer, 0)
    <2>1. none \in Seq(Byte) /\ Len(none) = 0
      BY <1>1, <1>16, UsedType
    <2>2. st \in Seq(Byte) /\ all = st \o none
      BY ONLY <1>15, <1>16, <1>17
    <2> HIDE DEF st, none
    <2>3. none = <<>>
      BY <2>1, EmptySeq
    <2>4. st \o <<>> = st
      BY <2>2, ConcatEmptySeq
    <2> QED  BY ONLY <2>2, <2>3, <2>4 DEF st
  <1>19. Regroups(text, <<TopBit>>, [j \in 1 .. z |-> 0])
    BY <1>9, Assoc
  <1>20. all = ((text \o <<TopBit>>) \o [j \in 1 .. z |-> 0]) \o enc
    BY ONLY <1>10, <1>19 DEF Regroups, tp, all
  <1>21. (BlockLen - CountLen - 1 - Len(text)) % BlockLen = z
    BY ONLY <1>3 DEF Pads, t
  <1>22. enc = Encode(BitsOf(Len(text)))
    BY ONLY <1>2 DEF enc, t
  <1>23. Padded(text) = ((text \o <<TopBit>>) \o [j \in 1 .. z |-> 0]) \o enc
    BY ONLY <1>21, <1>22 DEF Padded
  <1> QED  BY ONLY <1>4, <1>13, <1>18, <1>20, <1>23

(* A context just opened stands for nothing, whatever its buffer holds. *)
LEMMA InitStands ==
  ASSUME NEW byte \in Byte
  PROVE  Stands(MD5Init([j \in 0 .. BlockLen - 1 |-> byte]), <<>>)
  <1> DEFINE buf   == [j \in 0 .. BlockLen - 1 |-> byte]
             empty == <<>>
  <1>1. BlockLen \in Nat \ {0} /\ ByteBits \in Nat \ {0} /\ WordRange \in Nat \ {0}
    BY Sizes
  <1>2. buf \in Buffer
    BY DEF Buffer
  <1>3. empty \in Seq(Byte) /\ Len(empty) = 0
    OBVIOUS
  <1>4. 0 % BlockLen = 0 /\ 0 % WordRange = 0 /\ 0 \div WordRange = 0
    <2>1. (0 * BlockLen + 0) % BlockLen = 0
      BY <1>1, DivUnique
    <2>2. (0 * WordRange + 0) % WordRange = 0 /\ (0 * WordRange + 0) \div WordRange = 0
      BY <1>1, DivUnique
    <2>3. 0 * BlockLen + 0 = 0 /\ 0 * WordRange + 0 = 0
      BY <1>1
    <2> QED  BY ONLY <2>1, <2>2, <2>3
  <1>5. BitsOf(0) = [lo |-> 0, hi |-> 0]
    <2>1. 0 * ByteBits = 0
      BY <1>1
    <2> QED  BY ONLY <1>4, <2>1 DEF BitsOf
  <1> HIDE DEF buf
  <1>6. empty \o Used(buf, 0) = empty
    <2>1. Used(buf, 0) \in Seq(Byte) /\ Len(Used(buf, 0)) = 0
      BY <1>1, <1>2, UsedType
    <2>2. Used(buf, 0) = <<>>
      BY <2>1, EmptySeq
    <2> QED  BY ONLY <1>3, <2>2, ConcatEmptySeq
  <1> HIDE DEF empty
  <1>7. Len(empty) % BlockLen = 0 /\ empty \o Used(buf, Len(empty) % BlockLen) = empty
    BY ONLY <1>3, <1>4, <1>6
  <1>8. Stands([state |-> empty, count |-> BitsOf(Len(empty)), buffer |-> buf], empty)
    BY <1>2, <1>3, <1>7, StandsIf
  <1> QED  BY ONLY <1>3, <1>5, <1>8 DEF MD5Init, buf, empty

-------------------------------------------------------------------------------
(* The specification. *)

IInv ==
  /\ TypeOK
  /\ ctx # NULL => Stands(ctx, input)
  /\ DigestOfInput

LEMMA PieceType ==
  ASSUME TypeOK, NEW n \in PieceLens, Given + n <= Len(Stream)
  PROVE  Piece(n) \in Seq(Byte)
  <1> DEFINE g == Given
  <1>1. Stream \in Seq(Byte) /\ n \in Nat
    BY StreamAssumption
  <1>2. g \in Nat /\ g + n <= Len(Stream)
    BY DEF Given, TypeOK
  <1>3. Piece(n) = SubSeq(Stream, g + 1, g + n)
    BY DEF Piece
  <1> HIDE DEF g
  <1>4. \A i \in g + 1 .. g + n : Stream[i] \in Byte
    BY <1>1, <1>2
  <1>5. g + 1 \in Int /\ g + n \in Int
    BY <1>1, <1>2
  <1>6. SubSeq(Stream, g + 1, g + n) \in Seq(Byte)
    BY <1>4, <1>5, SubSeqProperties
  <1> QED  BY <1>3, <1>6

LEMMA EmptyPlus ==
  ASSUME NEW piece \in Seq(Byte)
  PROVE  <<>> \in Seq(Byte) /\ <<>> \o piece = piece
  BY ConcatEmptySeq

LEMMA OneCallStep ==
  ASSUME IInv, NEW piece \in Seq(Byte), hash_md5(piece)
  PROVE  IInv'
  <1>1. PICK junk \in {0, TopBit} :
          digest' = MD5Final(MD5Update(MD5Init([j \in 0 .. BlockLen - 1 |-> junk]), piece))
    BY DEF hash_md5
  <1>2. ctx = NULL /\ ctx' = NULL /\ input' = piece
    BY DEF hash_md5
  <1>3. junk \in Byte
    BY StreamAssumption
  <1> DEFINE new == MD5Init([j \in 0 .. BlockLen - 1 |-> junk])
  <1>4. Stands(new, <<>>)
    BY <1>3, InitStands
  <1> HIDE DEF new
  <1>5. Stands(MD5Update(new, piece), <<>> \o piece)
    BY <1>4, EmptyPlus, UpdateStands
  <1>6. Stands(MD5Update(new, piece), piece)
    BY ONLY <1>5, piece \in Seq(Byte), EmptyPlus
  <1>7. digest' = Padded(piece) /\ digest' \in Seq(Byte)
    BY <1>1, <1>6, FinalDigest DEF new
  <1> QED  BY <1>2, <1>7 DEF IInv, TypeOK, DigestOfInput

LEMMA UpdateStep ==
  ASSUME IInv, NEW piece \in Seq(Byte), hash_md5_update(piece)
  PROVE  IInv'
  <1>1. Stands(ctx', input') /\ input' \in Seq(Byte)
    <2>1. CASE ctx = NULL
      <3> DEFINE new == MD5Init([j \in 0 .. BlockLen - 1 |-> 0])
      <3>1. Stands(new, <<>>)
        BY StreamAssumption, InitStands
      <3>2. ctx' = MD5Update(new, piece) /\ input' = piece
        BY <2>1 DEF hash_md5_update
      <3> HIDE DEF new
      <3>3. Stands(MD5Update(new, piece), <<>> \o piece)
        BY <3>1, EmptyPlus, UpdateStands
      <3> QED  BY ONLY <3>2, <3>3, piece \in Seq(Byte), EmptyPlus
    <2>2. CASE ctx # NULL
      <3>1. ctx' = MD5Update(ctx, piece) /\ input' = input \o piece
        BY <2>2 DEF hash_md5_update
      <3>2. Stands(ctx, input) /\ input \in Seq(Byte)
        BY <2>2 DEF IInv, TypeOK
      <3>3. Stands(MD5Update(ctx, piece), input \o piece)
        BY <3>2, UpdateStands
      <3>4. input \o piece \in Seq(Byte)
        BY <3>2, ConcatType
      <3> QED  BY ONLY <3>1, <3>3, <3>4
    <2> QED  BY <2>1, <2>2
  <1>2. digest' = NULL
    BY DEF hash_md5_update
  <1> QED  BY <1>1, <1>2 DEF IInv, TypeOK, DigestOfInput, Stands

LEMMA FinalStep ==
  ASSUME IInv, hash_md5_final
  PROVE  IInv'
  <1>1. CASE ctx = NULL /\ UNCHANGED digest
    BY <1>1 DEF hash_md5_final, IInv, TypeOK, DigestOfInput
  <1>2. CASE ctx # NULL /\ digest' = MD5Final(ctx)
    <2>1. Stands(ctx, input) /\ input \in Seq(Byte)
      BY <1>2 DEF IInv, TypeOK
    <2>2. digest' = Padded(input) /\ digest' \in Seq(Byte)
      BY <1>2, <2>1, FinalDigest
    <2> QED  BY <1>2, <2>1, <2>2 DEF hash_md5_final, IInv, TypeOK, DigestOfInput
  <1> QED  BY <1>1, <1>2 DEF hash_md5_final

LEMMA Inductive == Spec => []IInv
  <1>1. Init => IInv
    BY DEF Init, IInv, TypeOK, DigestOfInput
  <1>2. IInv /\ [Next]_vars => IInv'
    <2> SUFFICES ASSUME IInv, [Next]_vars
                 PROVE  IInv'
      OBVIOUS
    <2>1. ASSUME NEW n \in PieceLens, Given + n <= Len(Stream),
                 hash_md5(Piece(n)) \/ hash_md5_update(Piece(n))
          PROVE  IInv'
      <3>1. Piece(n) \in Seq(Byte)
        BY <2>1, PieceType DEF IInv
      <3> QED  BY <2>1, <3>1, OneCallStep, UpdateStep
    <2>2. CASE hash_md5_final
      BY <2>2, FinalStep
    <2>3. CASE UNCHANGED vars
      BY <2>3 DEF vars, IInv, TypeOK, DigestOfInput, Stands
    <2> QED  BY <2>1, <2>2, <2>3 DEF Next
  <1> QED  BY <1>1, <1>2, PTL DEF Spec

(* What the context, the text and the digest are, for every size of byte,    *)
(* word and block.                                                           *)
THEOREM ContextTyped == Spec => []TypeOK
  <1>1. IInv => TypeOK
    BY DEF IInv
  <1> QED  BY <1>1, Inductive, PTL

(* MD5Update loses and repeats no byte however the text is cut, and its      *)
(* count is that of the bits given although its words wrap.                  *)
THEOREM ContextRepresents == Spec => []Represents
  <1>1. IInv => Represents
    BY DEF IInv, Represents, Stands
  <1> QED  BY <1>1, Inductive, PTL

(* hash_md5 and the three streaming calls agree: the digest is that of the   *)
(* padded text.                                                              *)
THEOREM DigestDependsOnInput == Spec => []DigestOfInput
  <1>1. IInv => DigestOfInput
    BY DEF IInv
  <1> QED  BY <1>1, Inductive, PTL
==================================================================================
