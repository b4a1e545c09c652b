---------------------------- MODULE FramesProofs ----------------------------
(***************************************************************************)
(* What Codec computes, for texts of every length: padding and Base64 can  *)
(* be undone, and the buffers are large enough.  Then Frames, for any      *)
(* keys, texts, sizes and ways to write Base64: both sides understand what *)
(* was written (Understood) inside the buffers (InBuffers).                *)
(***************************************************************************)
EXTENDS Frames, SequenceTheorems, TLAPS

-----------------------------------------------------------------------------
(* How much addPadding appends, and what it makes of a text.               *)
LEMMA Padding ==
    ASSUME NEW text \in Seq(Byte)
    PROVE  LET n == paddingBytesAmount(text)
           IN  /\ n \in 1 .. 16
               /\ Len(addPadding(text)) = Len(text) + n
               /\ addPadding(text) \in Seq(Byte)
               /\ \A i \in 1 .. Len(text) : addPadding(text)[i] = text[i]
               /\ \A i \in Len(text) + 1 .. Len(text) + n : addPadding(text)[i] = n
<1> DEFINE n == paddingBytesAmount(text)
           tail == [i \in 1 .. n |-> n]
<1>1. n \in 1 .. 16
  BY DEF PADDING_BLOCK_SIZE, paddingBytesAmount
<1> HIDE DEF n
<1>2. tail \in Seq(Byte) /\ Len(tail) = n /\ \A i \in 1 .. n : tail[i] = n
  BY <1>1 DEF Byte
<1>3. addPadding(text) = text \o tail
  BY DEF addPadding, n
<1> HIDE DEF tail
<1>4. QED
  BY <1>1, <1>2, <1>3 DEF n

(* removePadding gives back any text that addPadding was given, and it     *)
(* exits on no such text but the empty one (PKCS7.c).                      *)
THEOREM PaddingRoundTrip ==
    ASSUME NEW text \in Seq(Byte)
    PROVE  /\ removePadding(addPadding(text)) = text
           /\ Unpaddable(addPadding(text)) <=> text # <<>>
           /\ Len(addPadding(text)) % PADDING_BLOCK_SIZE = 0
<1> DEFINE n == paddingBytesAmount(text)
           p == addPadding(text)
<1>1. /\ n \in 1 .. 16 /\ Len(p) = Len(text) + n /\ p \in Seq(Byte)
      /\ \A i \in 1 .. Len(text) : p[i] = text[i]
      /\ \A i \in Len(text) + 1 .. Len(text) + n : p[i] = n
  BY Padding
<1>2. Len(p) % PADDING_BLOCK_SIZE = 0
  <2>1. Len(p) = 16 * ((Len(text) \div 16) + 1)
    BY <1>1 DEF PADDING_BLOCK_SIZE, paddingBytesAmount
  <2> DEFINE q == (Len(text) \div 16) + 1
  <2>2. q \in Nat
    OBVIOUS
  <2> HIDE DEF q
  <2>3. Len(p) = 16 * q
    BY <2>1 DEF q
  <2>4. QED
    BY <2>2, <2>3 DEF PADDING_BLOCK_SIZE
<1> HIDE DEF n, p
<1>3. p[Len(p)] = n /\ Len(p) - p[Len(p)] = Len(text)
  BY <1>1
<1>4. SubSeq(p, 1, Len(text)) = text
  BY <1>1
<1>5. (n < Len(p)) <=> text # <<>>
  BY <1>1
<1>6. QED
  BY <1>2, <1>3, <1>4, <1>5 DEF p, removePadding, Unpaddable

-----------------------------------------------------------------------------
(* What base64_encode returns has four characters for each three bytes.    *)
LEMMA EncodedLength ==
    ASSUME NEW src \in Seq(Byte)
    PROVE  Len(base64_encode(src)) = 4 * ((Len(src) + 2) \div 3)
<1> DEFINE m == 4 * ((Len(src) + 2) \div 3)
<1>1. m \in Nat
  OBVIOUS
<1>2. DOMAIN base64_encode(src) = 1 .. m
  BY DEF base64_encode
<1>3. QED
  BY <1>1, <1>2

(* base64_encode and the end of its string fit what it allocates, for      *)
(* every length (base64_util.c:31-37).                                     *)
THEOREM EncodeRoomSuffices ==
    ASSUME NEW src \in Seq(Byte)
    PROVE  Len(base64_encode(src)) + 1 <= EncodeRoom(Len(src))
BY EncodedLength DEF EncodeRoom
-----------------------------------------------------------------------------
(* The characters of the k-th three bytes.                                 *)
LEMMA EncodedFour ==
    ASSUME NEW src \in Seq(Byte), NEW k \in 1 .. (Len(src) + 2) \div 3,
           NEW r \in 1 .. 4
    PROVE  base64_encode(src)[4 * k - 4 + r] = Char(src, 3 * k - 2, r)
<1> DEFINE m == 4 * ((Len(src) + 2) \div 3)
           c == 4 * k - 4 + r
<1>1. c \in 1 .. m
  OBVIOUS
<1>2. (c - 1) \div 4 = k - 1 /\ ((c - 1) % 4) + 1 = r
  OBVIOUS
<1>3. base64_encode(src)[c] = Char(src, 3 * ((c - 1) \div 4) + 1, ((c - 1) % 4) + 1)
  <2> HIDE DEF c
  <2> QED BY <1>1 DEF base64_encode
<1>4. 3 * ((c - 1) \div 4) + 1 = 3 * k - 2
  BY <1>2
<1>5. QED
  BY <1>2, <1>3, <1>4

LEMMA AtByte ==
    ASSUME NEW src \in Seq(Byte), NEW i \in Nat \ {0}
    PROVE  At(src, i) \in 0 .. 255
<1>1. CASE i <= Len(src)
  <2>1. src[i] \in Byte
    BY <1>1
  <2>2. QED
    BY <1>1, <2>1 DEF At, Byte
<1>2. CASE ~ (i <= Len(src))
  BY <1>2 DEF At
<1>3. QED
  BY <1>1, <1>2

(* A character is padding only where the text has ended.                   *)
LEMMA CharValue ==
    ASSUME NEW src \in Seq(Byte), NEW i \in Nat \ {0}
    PROVE  /\ Char(src, i, 1) \in 0 .. 63
           /\ Char(src, i, 2) \in 0 .. 63
           /\ i + 1 <= Len(src) => Char(src, i, 3) \in 0 .. 63
           /\ i + 1 > Len(src) => Char(src, i, 3) = Pad
           /\ i + 2 <= Len(src) => Char(src, i, 4) \in 0 .. 63
           /\ i + 2 > Len(src) => Char(src, i, 4) = Pad
<1> DEFINE x == At(src, i)
           y == At(src, i + 1)
           z == At(src, i + 2)
<1>1. x \in 0 .. 255 /\ y \in 0 .. 255 /\ z \in 0 .. 255
  BY AtByte
<1>2. /\ Char(src, i, 1) = x \div 4
      /\ Char(src, i, 2) = (x % 4) * 16 + (y \div 16)
      /\ i + 1 <= Len(src) => Char(src, i, 3) = (y % 16) * 4 + (z \div 64)
      /\ ~ (i + 1 <= Len(src)) => Char(src, i, 3) = Pad
      /\ i + 2 <= Len(src) => Char(src, i, 4) = z % 64
      /\ ~ (i + 2 <= Len(src)) => Char(src, i, 4) = Pad
  BY DEF Char
<1> HIDE DEF x, y, z
<1>3. /\ x \div 4 \in 0 .. 63
      /\ (x % 4) * 16 + (y \div 16) \in 0 .. 63
      /\ (y % 16) * 4 + (z \div 64) \in 0 .. 63
      /\ z % 64 \in 0 .. 63
  BY <1>1
<1>4. Len(src) \in Nat
  OBVIOUS
<1>5. QED
  BY <1>2, <1>3, <1>4

-----------------------------------------------------------------------------
(* Where the padding of what base64_encode returns is: q fours, the k-th   *)
(* of which is looked at.                                                  *)
LEMMA EncodedPads ==
    ASSUME NEW src \in Seq(Byte), NEW q \in Nat, q = (Len(src) + 2) \div 3,
           NEW k \in 1 .. q
    PROVE  LET e == base64_encode(src)
           IN  /\ e[4 * k - 3] = Char(src, 3 * k - 2, 1)
               /\ e[4 * k - 2] = Char(src, 3 * k - 2, 2)
               /\ e[4 * k - 1] = Char(src, 3 * k - 2, 3)
               /\ e[4 * k] = Char(src, 3 * k - 2, 4)
               /\ e[4 * k - 3] \in 0 .. 63
               /\ e[4 * k - 2] \in 0 .. 63
               /\ 3 * k - 1 <= Len(src) => e[4 * k - 1] \in 0 .. 63
               /\ 3 * k - 1 > Len(src) => e[4 * k - 1] = Pad
               /\ 3 * k <= Len(src) => e[4 * k] \in 0 .. 63
               /\ 3 * k > Len(src) => e[4 * k] = Pad
<1> DEFINE e == base64_encode(src)
           i == 3 * k - 2
<1> HIDE DEF e
<1>1. \A r \in 1 .. 4 : e[4 * k - 4 + r] = Char(src, i, r)
  BY EncodedFour DEF e
<1>2. /\ e[4 * k - 3] = Char(src, i, 1) /\ e[4 * k - 2] = Char(src, i, 2)
      /\ e[4 * k - 1] = Char(src, i, 3) /\ e[4 * k] = Char(src, i, 4)
  <2>1. e[4 * k - 4 + 1] = Char(src, i, 1) /\ e[4 * k - 4 + 2] = Char(src, i, 2)
    BY <1>1
  <2>2. e[4 * k - 4 + 3] = Char(src, i, 3) /\ e[4 * k - 4 + 4] = Char(src, i, 4)
    BY <1>1
  <2>3. QED
    BY <2>1, <2>2
<1>3. i \in Nat \ {0} /\ i + 1 = 3 * k - 1 /\ i + 2 = 3 * k
  OBVIOUS
<1> HIDE DEF i
<1>4. /\ Char(src, i, 1) \in 0 .. 63
      /\ Char(src, i, 2) \in 0 .. 63
      /\ i + 1 <= Len(src) => Char(src, i, 3) \in 0 .. 63
      /\ i + 1 > Len(src) => Char(src, i, 3) = Pad
      /\ i + 2 <= Len(src) => Char(src, i, 4) \in 0 .. 63
      /\ i + 2 > Len(src) => Char(src, i, 4) = Pad
  BY <1>3, CharValue
<1>5. QED
  BY <1>2, <1>3, <1>4 DEF e, i

(* Decoding ends with the last four characters and sees there what the     *)
(* text lacks.                                                             *)
LEMMA EncodedLast ==
    ASSUME NEW src \in Seq(Byte), NEW q \in Nat, q = (Len(src) + 2) \div 3, src # <<>>
    PROVE  LastFour(base64_encode(src)) = q /\ PadsIn(base64_encode(src), q) = 3 * q - Len(src)
<1> DEFINE e == base64_encode(src)
           S == {c \in 1 .. Len(e) : e[c] = Pad}
           P(k) == /\ e[4 * k - 3] # Pad
                   /\ e[4 * k - 2] # Pad
                   /\ 3 * k - 1 <= Len(src) => e[4 * k - 1] # Pad
                   /\ 3 * k - 1 > Len(src) => e[4 * k - 1] = Pad
                   /\ 3 * k <= Len(src) => e[4 * k] # Pad
                   /\ 3 * k > Len(src) => e[4 * k] = Pad
<1>1. /\ Len(src) \in 3 * q - 2 .. 3 * q /\ q >= 1
  OBVIOUS
<1>2. Len(e) = 4 * q
  BY EncodedLength
<1>3. ASSUME NEW k \in 1 .. q PROVE P(k)
  <2>1. /\ e[4 * k - 3] \in 0 .. 63
        /\ e[4 * k - 2] \in 0 .. 63
        /\ 3 * k - 1 <= Len(src) => e[4 * k - 1] \in 0 .. 63
        /\ 3 * k - 1 > Len(src) => e[4 * k - 1] = Pad
        /\ 3 * k <= Len(src) => e[4 * k] \in 0 .. 63
        /\ 3 * k > Len(src) => e[4 * k] = Pad
    BY EncodedPads
  <2> HIDE DEF e
  <2>2. 64 \notin 0 .. 63
    OBVIOUS
  <2>3. QED
    BY <2>1, <2>2 DEF Pad
<1> HIDE DEF e, P
<1>4. PadsIn(e, q) = 3 * q - Len(src)
  <2>1. P(q)
    BY <1>1, <1>3
  <2>2. QED
    BY <1>1, <2>1 DEF PadsIn, P
<1>5. \A c \in S : c \in {4 * q - 1, 4 * q}
  <2> SUFFICES ASSUME NEW c \in S PROVE c \in {4 * q - 1, 4 * q}
    OBVIOUS
  <2> DEFINE k == ((c - 1) \div 4) + 1
  <2>1. c \in 1 .. 4 * q /\ e[c] = Pad
    BY <1>2
  <2>2. k \in 1 .. q /\ c \in {4 * k - 3, 4 * k - 2, 4 * k - 1, 4 * k}
    BY <2>1
  <2> HIDE DEF k
  <2>3. P(k)
    BY <1>3, <2>2
  <2>4. c # 4 * k - 3 /\ c # 4 * k - 2
    BY <2>1, <2>3 DEF P
  <2>5. CASE k < q
    <3>1. 3 * k <= Len(src) /\ 3 * k - 1 <= Len(src)
      BY <1>1, <2>2, <2>5
    <3>2. c # 4 * k - 1 /\ c # 4 * k
      BY <2>1, <2>3, <3>1 DEF P
    <3>3. QED
      BY <2>2, <2>4, <3>2
  <2>6. QED
    BY <2>2, <2>4, <2>5
<1>6. LastFour(e) = q
  <2>1. CASE S = {}
    BY <1>2, <2>1 DEF LastFour
  <2>2. CASE S # {}
    <3>1. \E x \in S : \A y \in S : x <= y
      BY <1>5, <2>2
    <3>2. Min(S) \in S
      BY <3>1 DEF Min
    <3>3. Min(S) \in {4 * q - 1, 4 * q}
      BY <1>5, <3>2
    <3>4. (Min(S) + 3) \div 4 = q
      BY <3>3
    <3>5. QED
      BY <2>2, <3>4 DEF LastFour
  <2>3. QED
    BY <2>1, <2>2
<1>7. QED
  BY <1>4, <1>6 DEF e
-----------------------------------------------------------------------------
(* The bytes of the k-th four characters.                                  *)
LEMMA DecodedThree ==
    ASSUME NEW src \in Seq(Byte), NEW q \in Nat, q = (Len(src) + 2) \div 3,
           NEW k \in 1 .. q
    PROVE  LET e == base64_encode(src)
           IN  /\ ByteOf(e, 4 * k - 3, 1) = At(src, 3 * k - 2)
               /\ 3 * k - 1 <= Len(src) => ByteOf(e, 4 * k - 3, 2) = At(src, 3 * k - 1)
               /\ 3 * k <= Len(src) => ByteOf(e, 4 * k - 3, 3) = At(src, 3 * k)
<1> DEFINE e == base64_encode(src)
           i == 3 * k - 2
           j == 4 * k - 3
           x == At(src, i)
           y == At(src, i + 1)
           z == At(src, i + 2)
<1>1. i \in Nat \ {0} /\ i + 1 = 3 * k - 1 /\ i + 2 = 3 * k
  OBVIOUS
<1>2. j + 1 = 4 * k - 2 /\ j + 2 = 4 * k - 1 /\ j + 3 = 4 * k
  OBVIOUS
<1>3. x \in 0 .. 255 /\ y \in 0 .. 255 /\ z \in 0 .. 255
  <2>1. i \in Nat \ {0} /\ i + 1 \in Nat \ {0} /\ i + 2 \in Nat \ {0}
    OBVIOUS
  <2> HIDE DEF i
  <2>2. QED
    BY <2>1, AtByte
<1>4. /\ e[4 * k - 3] = Char(src, i, 1) /\ e[4 * k - 2] = Char(src, i, 2)
      /\ e[4 * k - 1] = Char(src, i, 3) /\ e[4 * k] = Char(src, i, 4)
      /\ e[4 * k - 3] \in 0 .. 63 /\ e[4 * k - 2] \in 0 .. 63
      /\ 3 * k - 1 <= Len(src) => e[4 * k - 1] \in 0 .. 63
      /\ 3 * k <= Len(src) => e[4 * k] \in 0 .. 63
  BY EncodedPads
<1>5. /\ Char(src, i, 1) = x \div 4
      /\ Char(src, i, 2) = (x % 4) * 16 + (y \div 16)
      /\ i + 1 <= Len(src) => Char(src, i, 3) = (y % 16) * 4 + (z \div 64)
      /\ i + 2 <= Len(src) => Char(src, i, 4) = z % 64
  BY DEF Char
<1> HIDE DEF e, i, j, x, y, z
<1>6. 64 \notin 0 .. 63
  OBVIOUS
<1>7. /\ Val(e, j) = x \div 4
      /\ Val(e, j + 1) = (x % 4) * 16 + (y \div 16)
      /\ i + 1 <= Len(src) => Val(e, j + 2) = (y % 16) * 4 + (z \div 64)
      /\ i + 2 <= Len(src) => Val(e, j + 3) = z % 64
  <2>1. e[j] = x \div 4 /\ e[j] # 64
    BY <1>4, <1>5, <1>6 DEF j
  <2>2. e[j + 1] = (x % 4) * 16 + (y \div 16) /\ e[j + 1] # 64
    BY <1>2, <1>4, <1>5, <1>6
  <2>3. i + 1 <= Len(src) => e[j + 2] = (y % 16) * 4 + (z \div 64) /\ e[j + 2] # 64
    BY <1>1, <1>2, <1>4, <1>5, <1>6
  <2>4. i + 2 <= Len(src) => e[j + 3] = z % 64 /\ e[j + 3] # 64
    BY <1>1, <1>2, <1>4, <1>5, <1>6
  <2>5. QED
    BY <2>1, <2>2, <2>3, <2>4 DEF Val, Pad
<1>8. /\ ByteOf(e, j, 1) = ((Val(e, j) * 4) % 256) + (Val(e, j + 1) \div 16)
      /\ ByteOf(e, j, 2) = ((Val(e, j + 1) * 16) % 256) + (Val(e, j + 2) \div 4)
      /\ ByteOf(e, j, 3) = ((Val(e, j + 2) * 64) % 256) + Val(e, j + 3)
  BY DEF ByteOf
<1>9. /\ (((x \div 4) * 4) % 256) + (((x % 4) * 16 + (y \div 16)) \div 16) = x
      /\ ((((x % 4) * 16 + (y \div 16)) * 16) % 256) + (((y % 16) * 4 + (z \div 64)) \div 4) = y
      /\ ((((y % 16) * 4 + (z \div 64)) * 64) % 256) + (z % 64) = z
  <2>1. (((x \div 4) * 4) % 256) + (((x % 4) * 16 + (y \div 16)) \div 16) = x
    BY <1>3
  <2>2. ((((x % 4) * 16 + (y \div 16)) * 16) % 256) + (((y % 16) * 4 + (z \div 64)) \div 4) = y
    BY <1>3
  <2>3. ((((y % 16) * 4 + (z \div 64)) * 64) % 256) + (z % 64) = z
    BY <1>3
  <2>4. QED
    BY <2>1, <2>2, <2>3
<1>10. ByteOf(e, j, 1) = x
  BY <1>7, <1>8, <1>9, Zenon
<1>11. i + 1 <= Len(src) => ByteOf(e, j, 2) = y
  BY <1>7, <1>8, <1>9, Zenon
<1>12. i + 2 <= Len(src) => ByteOf(e, j, 3) = z
  <2>1. i + 2 <= Len(src) => i + 1 <= Len(src)
    BY <1>1
  <2>2. QED
    BY <1>7, <1>8, <1>9, <2>1, Zenon
<1>13. QED
  BY <1>1, <1>10, <1>11, <1>12 DEF e, i, j, x, y, z

(* The main loop of base64_decode gives back any bytes, but none at all,   *)
(* that base64_encode was given (base64_util.c).                           *)
THEOREM Base64RoundTrip ==
    ASSUME NEW src \in Seq(Byte), src # <<>>
    PROVE  Decoded(base64_encode(src)) = src
<1> DEFINE e == base64_encode(src)
           q == (Len(src) + 2) \div 3
<1>1. /\ Len(src) \in 3 * q - 2 .. 3 * q /\ q \in Nat /\ q >= 1
  OBVIOUS
<1>2. LastFour(e) = q /\ PadsIn(e, q) = 3 * q - Len(src)
  BY <1>1, EncodedLast
<1>3. \A k \in 1 .. q :
        /\ ByteOf(e, 4 * k - 3, 1) = At(src, 3 * k - 2)
        /\ 3 * k - 1 <= Len(src) => ByteOf(e, 4 * k - 3, 2) = At(src, 3 * k - 1)
        /\ 3 * k <= Len(src) => ByteOf(e, 4 * k - 3, 3) = At(src, 3 * k)
  BY <1>1, DecodedThree
<1> HIDE DEF e, q
<1>4. 3 * q - PadsIn(e, q) = Len(src) /\ ~ (PadsIn(e, q) > 2)
  BY <1>1, <1>2
<1> DEFINE d == [b \in 1 .. Len(src) |-> ByteOf(e, 4 * ((b - 1) \div 3) + 1, ((b - 1) % 3) + 1)]
<1>5. Decoded(e) = d
  <2>1. LastFour(e) # 0
    BY <1>1, <1>2
  <2>2. Decoded(e) = [b \in 1 .. 3 * q - PadsIn(e, q) |->
                        ByteOf(e, 4 * ((b - 1) \div 3) + 1, ((b - 1) % 3) + 1)]
    BY <1>2, <1>4, <2>1, Zenon DEF Decoded
  <2>3. QED
    BY <1>4, <2>2, Zenon
<1>6. ASSUME NEW b \in 1 .. Len(src) PROVE d[b] = src[b]
  <2> DEFINE k == ((b - 1) \div 3) + 1
             r == ((b - 1) % 3) + 1
  <2>1. k \in 1 .. q /\ r \in 1 .. 3 /\ b = 3 * k - 3 + r /\ 4 * ((b - 1) \div 3) + 1 = 4 * k - 3
    BY <1>1
  <2>2. d[b] = ByteOf(e, 4 * k - 3, r)
    BY <2>1
  <2> HIDE DEF k, r, d
  <2>3. At(src, b) = src[b]
    BY DEF At
  <2>4. CASE r = 1
    BY <1>3, <2>1, <2>2, <2>3, <2>4
  <2>5. CASE r = 2
    BY <1>3, <2>1, <2>2, <2>3, <2>5
  <2>6. CASE r = 3
    BY <1>3, <2>1, <2>2, <2>3, <2>6
  <2>7. QED
    BY <2>1, <2>4, <2>5, <2>6
<1>7. d = src
  BY <1>6
<1>8. QED
  BY <1>5, <1>7 DEF e
-----------------------------------------------------------------------------
(* What base64_encode returns is characters of the table and padding.      *)
LEMMA EncodedChars ==
    ASSUME NEW src \in Seq(Byte)
    PROVE  base64_encode(src) \in Seq(0 .. Pad)
<1> DEFINE e == base64_encode(src)
           q == (Len(src) + 2) \div 3
<1>1. q \in Nat /\ Len(src) \in Nat
  OBVIOUS
<1>2. e = [c \in 1 .. 4 * q |-> e[c]]
  BY DEF base64_encode
<1>3. ASSUME NEW c \in 1 .. 4 * q PROVE e[c] \in 0 .. Pad
  <2> DEFINE k == ((c - 1) \div 4) + 1
  <2>1. k \in 1 .. q /\ c \in {4 * k - 3, 4 * k - 2, 4 * k - 1, 4 * k}
    BY <1>1
  <2>2. /\ e[4 * k - 3] \in 0 .. 63 /\ e[4 * k - 2] \in 0 .. 63
        /\ e[4 * k - 1] \in 0 .. 63 \/ e[4 * k - 1] = Pad
        /\ e[4 * k] \in 0 .. 63 \/ e[4 * k] = Pad
    <3>1. k \in Nat
      BY <2>1
    <3>2. /\ e[4 * k - 3] \in 0 .. 63 /\ e[4 * k - 2] \in 0 .. 63
          /\ 3 * k - 1 <= Len(src) => e[4 * k - 1] \in 0 .. 63
          /\ 3 * k - 1 > Len(src) => e[4 * k - 1] = Pad
          /\ 3 * k <= Len(src) => e[4 * k] \in 0 .. 63
          /\ 3 * k > Len(src) => e[4 * k] = Pad
      <4> HIDE DEF k
      <4>1. QED
        BY <1>1, <2>1, EncodedPads
    <3> HIDE DEF e, k
    <3>3. QED
      BY <1>1, <3>1, <3>2
  <2> HIDE DEF e, k
  <2>3. 0 .. 63 \subseteq 0 .. Pad /\ Pad \in 0 .. Pad
    BY DEF Pad
  <2>4. QED
    BY <2>1, <2>2, <2>3
<1> HIDE DEF e, q
<1> DEFINE T == 0 .. Pad
           n == 4 * q
<1>4. n \in Nat /\ e = [c \in 1 .. n |-> e[c]] /\ \A c \in 1 .. n : e[c] \in T
  BY <1>1, <1>2, <1>3
<1> HIDE DEF T, n
<1>5. e \in Seq(T)
  <2>1. [c \in 1 .. n |-> e[c]] \in [1 .. n -> T]
    BY <1>4
  <2>2. QED
    BY <1>4, <2>1
<1>6. QED
  BY <1>5 DEF e, T

(* Nothing is skipped in it, and no padding is made up.                    *)
LEMMA CountedEncoded ==
    ASSUME NEW src \in Seq(Byte)
    PROVE  Counted(base64_encode(src)) = base64_encode(src)
<1> DEFINE e == base64_encode(src)
           q == (Len(src) + 2) \div 3
<1>1. e \in Seq(0 .. Pad) /\ Len(e) = 4 * q /\ q \in Nat
  BY EncodedChars, EncodedLength
<1> HIDE DEF e, q
<1>2. \A i \in 1 .. Len(e) : e[i] <= Pad
  <2> DEFINE T == 0 .. Pad
  <2>1. \A c \in T : c <= Pad
    BY DEF Pad
  <2>2. e \in Seq(T)
    BY <1>1
  <2> HIDE DEF T
  <2>3. \A i \in 1 .. Len(e) : e[i] \in T
    BY <2>2
  <2>4. QED
    BY <2>1, <2>3
<1>3. Known(e) = e
  BY <1>2 DEF Known
<1>4. (4 - (Len(e) % 4)) % 4 = 0
  BY <1>1
<1>5. e \o [i \in 1 .. 0 |-> Pad] = e
  BY <1>1
<1>6. Counted(e) = e
  BY <1>3, <1>4, <1>5 DEF Counted
<1>7. QED
  BY <1>6 DEF e

(* A phone may leave out the padding of Base64, all of it or some: the     *)
(* decoder counts what is missing and makes up for it                      *)
(* (base64_util.c:87-112), and reads what was encoded.                     *)
THEOREM UnpaddedIsRead ==
    ASSUME NEW src \in Seq(Byte), src # <<>>, NEW p \in 0 .. 2,
           NEW q \in Nat, q = (Len(src) + 2) \div 3, p <= 3 * q - Len(src)
    PROVE  LET bare == SubSeq(base64_encode(src), 1, 4 * q - p)
           IN  /\ Counted(bare) = base64_encode(src)
               /\ base64_decode(bare) = src
<1> DEFINE e == base64_encode(src)
           bare == SubSeq(e, 1, 4 * q - p)
           made == [i \in 1 .. p |-> Pad]
<1>1. /\ Len(src) \in 3 * q - 2 .. 3 * q /\ q >= 1
      /\ 4 * q \in Nat /\ 4 * q - p \in 1 .. 4 * q
  OBVIOUS
<1>2. e \in Seq(0 .. Pad) /\ Len(e) = 4 * q
  BY EncodedChars, EncodedLength
<1>3. \A i \in 1 .. Len(e) : e[i] <= Pad
  <2> DEFINE T == 0 .. Pad
  <2>1. \A c \in T : c <= Pad
    BY DEF Pad
  <2>2. e \in Seq(T)
    BY <1>2
  <2> HIDE DEF e, T
  <2>3. \A i \in 1 .. Len(e) : e[i] \in T
    BY <2>2
  <2>4. QED
    BY <2>1, <2>3
<1>4. \A i \in 1 .. p : e[4 * q - p + i] = Pad
  <2>1. /\ 3 * q - 1 > Len(src) => e[4 * q - 1] = Pad
        /\ 3 * q > Len(src) => e[4 * q] = Pad
    BY <1>1, EncodedPads
  <2> HIDE DEF e
  <2>2. CASE p = 1
    BY <1>1, <2>1, <2>2
  <2>3. CASE p = 2
    <3>1. e[4 * q - 1] = Pad /\ e[4 * q] = Pad
      BY <1>1, <2>1, <2>3
    <3>2. \A i \in 1 .. p : 4 * q - p + i \in {4 * q - 1, 4 * q}
      BY <2>3
    <3>3. QED
      BY <3>1, <3>2
  <2>4. QED
    BY <2>2, <2>3
<1> HIDE DEF e
<1>5. /\ bare \in Seq(0 .. Pad) /\ Len(bare) = 4 * q - p
      /\ \A i \in 1 .. 4 * q - p : bare[i] = e[i]
  <2> DEFINE T == 0 .. Pad
             n == 4 * q - p
  <2>1. e \in Seq(T) /\ n \in 1 .. Len(e)
    BY <1>1, <1>2
  <2> HIDE DEF T, n
  <2>2. /\ SubSeq(e, 1, n) \in Seq(T) /\ Len(SubSeq(e, 1, n)) = n
        /\ \A i \in 1 .. n : SubSeq(e, 1, n)[i] = e[i]
    BY <2>1
  <2>3. QED
    BY <2>2 DEF T, n
<1> HIDE DEF bare
<1>6. Known(bare) = bare
  BY <1>1, <1>2, <1>3, <1>5 DEF Known
<1>7. (4 - (Len(bare) % 4)) % 4 = p
  <2>1. Len(bare) % 4 = IF p = 0 THEN 0 ELSE 4 - p
    <3>1. Len(bare) = 4 * q - p
      BY <1>5
    <3>2. CASE p = 0
      BY <3>1, <3>2
    <3>3. CASE p = 1
      BY <3>1, <3>3
    <3>4. CASE p = 2
      BY <3>1, <3>4
    <3>5. QED
      BY <3>2, <3>3, <3>4
  <2>2. QED
    BY <2>1
<1>8. Counted(bare) = bare \o made
  BY <1>6, <1>7 DEF Counted
<1>9. bare \o made = e
  <2> DEFINE T == 0 .. Pad
             n == 4 * q - p
             both == bare \o made
  <2>1. made \in Seq(T) /\ Len(made) = p /\ \A i \in 1 .. p : made[i] = Pad
    BY DEF Pad
  <2>2. /\ bare \in Seq(T) /\ e \in Seq(T)
        /\ n \in Nat /\ p \in Nat /\ Len(bare) = n /\ Len(e) = n + p
    BY <1>1, <1>2, <1>5
  <2>3. /\ \A i \in 1 .. n : bare[i] = e[i]
        /\ \A i \in 1 .. p : e[n + i] = Pad
    BY <1>4, <1>5
  <2> HIDE DEF T, n, made
  <2>4. /\ both \in Seq(T) /\ Len(both) = n + p
        /\ \A i \in 1 .. n + p : both[i] = IF i <= n THEN bare[i] ELSE made[i - n]
    BY <2>1, <2>2, ConcatProperties
  <2> HIDE DEF both
  <2>5. ASSUME NEW i \in 1 .. n + p PROVE both[i] = e[i]
    <3>1. CASE i <= n
      BY <2>2, <2>3, <2>4, <3>1
    <3>2. CASE ~ (i <= n)
      <4>1. i - n \in 1 .. p /\ n + (i - n) = i
        BY <2>2, <3>2
      <4>2. both[i] = made[i - n]
        BY <2>4, <3>2
      <4>3. made[i - n] = Pad /\ e[n + (i - n)] = Pad
        BY <2>1, <2>3, <4>1
      <4>4. QED
        BY <4>1, <4>2, <4>3
    <3>3. QED
      BY <3>1, <3>2
  <2>6. both = e
    BY <2>2, <2>4, <2>5, SeqEqual
  <2>7. QED
    BY <2>6 DEF both
<1>10. Decoded(e) = src
  BY Base64RoundTrip DEF e
<1>11. QED
  BY <1>8, <1>9, <1>10 DEF base64_decode, bare, e

(* Two words with a space between them are found again (strtok).           *)
LEMMA Split ==
    ASSUME NEW a \in Seq(0 .. Skip), NEW b \in Seq(0 .. Skip)
    PROVE  LET m == a \o <<Space>> \o b
           IN  CipherWord(m) = a /\ IvWord(m) = b
<1> DEFINE m == a \o <<Space>> \o b
<1>1. /\ m \in Seq(0 .. Space) /\ Len(m) = Len(a) + 1 + Len(b)
      /\ \A i \in 1 .. Len(a) : m[i] = a[i]
      /\ m[Len(a) + 1] = Space
      /\ \A i \in 1 .. Len(b) : m[Len(a) + 1 + i] = b[i]
  BY DEF Skip, Space
<1>2. /\ \A i \in 1 .. Len(a) : a[i] # Space
      /\ Len(a) \in Nat /\ Len(b) \in Nat
  <2> DEFINE T == 0 .. Skip
  <2>1. \A c \in T : c # Space
    BY DEF Skip, Space
  <2>2. a \in Seq(T) /\ b \in Seq(T)
    OBVIOUS
  <2> HIDE DEF T
  <2>3. \A i \in 1 .. Len(a) : a[i] \in T
    BY <2>2
  <2>4. QED
    BY <2>1, <2>2, <2>3
<1> HIDE DEF m
<1> DEFINE I == {i \in 1 .. Len(m) : m[i] = Space}
<1>3. Len(a) + 1 \in I /\ \A i \in I : Len(a) + 1 <= i
  BY <1>1, <1>2
<1>4. Min(I) = Len(a) + 1
  <2>1. Min(I) \in I /\ \A i \in I : Min(I) <= i
    BY <1>3 DEF Min
  <2>2. QED
    BY <1>2, <1>3, <2>1
<1>5. SpaceAt(m) = Len(a) + 1
  BY <1>3, <1>4 DEF SpaceAt, SelectInSeq
<1>6. SubSeq(m, 1, Len(a)) = a
  BY <1>1, <1>2
<1>7. SubSeq(m, Len(a) + 2, Len(m)) = b
  BY <1>1, <1>2
<1>8. QED
  BY <1>2, <1>5, <1>6, <1>7 DEF CipherWord, IvWord, m

(* The words of a message decode to what was encoded.                      *)
LEMMA Words ==
    ASSUME NEW c \in Seq(Byte), c # <<>>, NEW iv \in Seq(Byte), iv # <<>>
    PROVE  LET m == base64_encode(c) \o <<Space>> \o base64_encode(iv)
           IN  /\ base64_decode(CipherWord(m)) = c
               /\ base64_decode(IvWord(m)) = iv
<1> DEFINE a == base64_encode(c)
           b == base64_encode(iv)
           m == a \o <<Space>> \o b
<1>1. a \in Seq(0 .. Pad) /\ b \in Seq(0 .. Pad)
  BY EncodedChars
<1>2. Counted(a) = a /\ Counted(b) = b
  BY CountedEncoded
<1>3. Decoded(a) = c /\ Decoded(b) = iv
  BY Base64RoundTrip
<1> HIDE DEF a, b
<1>4. 0 .. Pad \subseteq 0 .. Skip
  BY DEF Pad, Skip
<1>5. a \in Seq(0 .. Skip) /\ b \in Seq(0 .. Skip)
  <2> DEFINE T == 0 .. Pad
             U == 0 .. Skip
  <2>1. T \subseteq U /\ a \in Seq(T) /\ b \in Seq(T)
    BY <1>1, <1>4
  <2> HIDE DEF T, U
  <2>2. a \in Seq(U) /\ b \in Seq(U)
    BY <2>1
  <2>3. QED
    BY <2>2 DEF U
<1>6. CipherWord(m) = a /\ IvWord(m) = b
  BY <1>5, Split
<1> HIDE DEF m
<1>7. base64_decode(CipherWord(m)) = c /\ base64_decode(IvWord(m)) = iv
  BY <1>2, <1>3, <1>6 DEF base64_decode
<1>8. QED
  BY <1>7 DEF m, a, b

(* decrypt_base64_AES gives back what encrypt_str_AES was given, for every *)
(* text, the empty one included but for the exit in removePadding, and     *)
(* every cipher that can be undone.                                        *)
THEOREM MessageRoundTrip ==
    ASSUME NEW k, NEW iv \in Seq(Byte), iv # <<>>, NEW text \in Seq(Byte),
           Encrypt(k, iv, addPadding(text)) \in Seq(Byte) \ {<<>>},
           Decrypt(k, iv, Encrypt(k, iv, addPadding(text))) = addPadding(text)
    PROVE  /\ decrypt_base64_AES(k, encrypt_str_AES(k, iv, text)) = text
           /\ Padded(k, encrypt_str_AES(k, iv, text)) = addPadding(text)
<1> DEFINE c == Encrypt(k, iv, addPadding(text))
           m == base64_encode(c) \o <<Space>> \o base64_encode(iv)
<1>1. encrypt_str_AES(k, iv, text) = m
  BY DEF encrypt_str_AES
<1>2. base64_decode(CipherWord(m)) = c /\ base64_decode(IvWord(m)) = iv
  BY Words
<1> HIDE DEF m
<1>3. Padded(k, m) = addPadding(text)
  BY <1>2 DEF Padded
<1>4. decrypt_base64_AES(k, m) = text
  BY <1>3, PaddingRoundTrip DEF decrypt_base64_AES
<1>5. QED
  BY <1>1, <1>3, <1>4

(* The buffer of encrypt_str_AES has room for the message, the EOT that is *)
(* appended to it and the end of the string: it is asked for with two      *)
(* bytes too few, and malloc rounds up to whole words.                     *)
THEOREM MessageRoomSuffices ==
    ASSUME NEW k, NEW iv \in Seq(Byte), NEW text,
           Encrypt(k, iv, addPadding(text)) \in Seq(Byte)
    PROVE  LET m == encrypt_str_AES(k, iv, text)
           IN  Len(m \o <<EOT>>) + 1 <= Granted(MessageRoom(k, iv, text))
<1> DEFINE c == Encrypt(k, iv, addPadding(text))
           a == base64_encode(c)
           b == base64_encode(iv)
           x == (Len(c) + 2) \div 3
           y == (Len(iv) + 2) \div 3
<1>1. Len(a) = 4 * x /\ Len(b) = 4 * y /\ x \in Nat /\ y \in Nat
  BY EncodedLength
<1>2. a \in Seq(0 .. Pad) /\ b \in Seq(0 .. Pad)
  BY EncodedChars
<1>3. encrypt_str_AES(k, iv, text) = a \o <<Space>> \o b
  BY DEF encrypt_str_AES
<1>4. MessageRoom(k, iv, text) = Len(a) + Len(b) + 1
  BY DEF MessageRoom
<1> HIDE DEF a, b, c, x, y
<1>5. Len((a \o <<Space>> \o b) \o <<EOT>>) = Len(a) + Len(b) + 2
  BY <1>2
<1>6. Granted(4 * x + 4 * y + 1) = 4 * x + 4 * y + 4
  BY <1>1 DEF Granted
<1>7. QED
  BY <1>1, <1>3, <1>4, <1>5, <1>6
-----------------------------------------------------------------------------
(* What a phone writes decodes to the cipher text and the iv, whatever its *)
(* style; the words are those of base64_encode but for what is skipped.    *)
LEMMA WrittenWords ==
    ASSUME NEW k \in Keys, NEW iv \in Ivs, NEW text \in Texts, NEW style \in Styles,
           NEW word \in {CipherWord(Written(k, iv, text, style)),
                         IvWord(Written(k, iv, text, style))}
    PROVE  \E src \in Seq(Byte) : Counted(word) = base64_encode(src)
<1> DEFINE a == Styled(base64_encode(Cipher(k, iv, text)), style)
           b == Styled(base64_encode(iv), style)
<1>1. /\ a \in Seq(0 .. Skip) /\ Counted(a) = base64_encode(Cipher(k, iv, text))
      /\ b \in Seq(0 .. Skip) /\ Counted(b) = base64_encode(iv)
  BY StyleAssumption DEF Readable
<1>2. Written(k, iv, text, style) = a \o <<Space>> \o b
  BY DEF Written
<1> HIDE DEF a, b
<1>3. word = a \/ word = b
  BY <1>1, <1>2, Split
<1>4. iv \in Seq(Byte) /\ Cipher(k, iv, text) \in Seq(Byte)
  BY ByteAssumption, CipherAssumption
<1>5. QED
  BY <1>1, <1>3, <1>4

LEMMA CipherIsText ==
    ASSUME NEW k \in Keys, NEW iv \in Ivs, NEW text \in Texts \cup Answers
    PROVE  /\ iv \in Seq(Byte) /\ iv # <<>> /\ text \in Seq(Byte)
           /\ Cipher(k, iv, text) \in Seq(Byte) /\ Cipher(k, iv, text) # <<>>
           /\ Decrypt(k, iv, Cipher(k, iv, text)) = addPadding(text)
<1>1. iv \in Seq(Byte) /\ iv # <<>> /\ text \in Seq(Byte)
  BY ByteAssumption
<1>2. /\ Cipher(k, iv, text) \in Seq(Byte)
      /\ Len(Cipher(k, iv, text)) = Len(addPadding(text))
      /\ Decrypt(k, iv, Cipher(k, iv, text)) = addPadding(text)
  BY CipherAssumption
<1>3. Len(addPadding(text)) >= 1
  <2> DEFINE n == paddingBytesAmount(text)
  <2>1. n \in 1 .. 16 /\ Len(addPadding(text)) = Len(text) + n
    BY <1>1, Padding
  <2>2. Len(text) \in Nat
    BY <1>1
  <2> HIDE DEF n
  <2>3. QED
    BY <2>1, <2>2
<1>4. Cipher(k, iv, text) # <<>>
  BY <1>2, <1>3
<1>5. QED
  BY <1>1, <1>2, <1>4

(* decrypt_base64_AES of what a phone wrote under the same key.            *)
LEMMA WrittenIsRead ==
    ASSUME NEW k \in Keys, NEW iv \in Ivs, NEW text \in Texts, NEW style \in Styles
    PROVE  LET m == Written(k, iv, text, style)
           IN  /\ Padded(k, m) = addPadding(text)
               /\ decrypt_base64_AES(k, m) = text
<1> DEFINE c == Cipher(k, iv, text)
           a == Styled(base64_encode(c), style)
           b == Styled(base64_encode(iv), style)
           m == Written(k, iv, text, style)
<1>1. /\ a \in Seq(0 .. Skip) /\ Counted(a) = base64_encode(c)
      /\ b \in Seq(0 .. Skip) /\ Counted(b) = base64_encode(iv)
  BY StyleAssumption DEF Readable
<1>2. m = a \o <<Space>> \o b
  BY DEF Written
<1>3. /\ iv \in Seq(Byte) /\ iv # <<>> /\ text \in Seq(Byte)
      /\ c \in Seq(Byte) /\ c # <<>> /\ Decrypt(k, iv, c) = addPadding(text)
  BY CipherIsText
<1> HIDE DEF a, b, c
<1>4. CipherWord(m) = a /\ IvWord(m) = b
  BY <1>1, <1>2, Split
<1> HIDE DEF m
<1>5. base64_decode(a) = c /\ base64_decode(b) = iv
  BY <1>1, <1>3, Base64RoundTrip DEF base64_decode
<1>6. Padded(k, m) = addPadding(text)
  BY <1>3, <1>4, <1>5 DEF Padded
<1>7. decrypt_base64_AES(k, m) = text
  BY <1>3, <1>6, PaddingRoundTrip DEF decrypt_base64_AES
<1>8. QED
  BY <1>6, <1>7 DEF m

(* An answer with its EOT: how it ends, that nothing else in it is an EOT, *)
(* and what the phone makes of it.                                         *)
LEMMA AnswerShape ==
    ASSUME NEW k \in Keys, NEW iv \in Ivs, NEW text \in Answers
    PROVE  LET e == encrypt_str_AES(k, iv, text)
               d == e \o <<EOT>>
           IN  /\ d \in Seq(0 .. EOT) /\ Len(d) = Len(e) + 1
               /\ \A i \in 1 .. Len(e) : d[i] # EOT
               /\ d[Len(d)] = EOT
               /\ SubSeq(d, 1, Len(e)) = e
               /\ decrypt_base64_AES(k, e) = text
               /\ Len(d) + 1 <= Granted(MessageRoom(k, iv, text))
               /\ Len(d) \in 1 .. 254 * (DefaultMtu - 3)
<1> DEFINE c == Encrypt(k, iv, addPadding(text))
           a == base64_encode(c)
           b == base64_encode(iv)
           e == encrypt_str_AES(k, iv, text)
           d == e \o <<EOT>>
           T == 0 .. Space
           U == 0 .. EOT
<1>1. /\ iv \in Seq(Byte) /\ iv # <<>> /\ text \in Seq(Byte)
      /\ c \in Seq(Byte) /\ c # <<>> /\ Decrypt(k, iv, c) = addPadding(text)
  BY CipherIsText DEF Cipher
<1>2. decrypt_base64_AES(k, e) = text
  BY <1>1, MessageRoundTrip
<1>3. Len(d) + 1 <= Granted(MessageRoom(k, iv, text))
  BY <1>1, MessageRoomSuffices
<1>4. e = a \o <<Space>> \o b
  BY DEF encrypt_str_AES
<1>5. a \in Seq(0 .. Pad) /\ b \in Seq(0 .. Pad)
  BY <1>1, EncodedChars
<1>6. Len(e) + 1 <= 254 * (DefaultMtu - 3)
  BY SizeAssumption
<1> HIDE DEF a, b, c, e
<1>7. 0 .. Pad \subseteq T /\ Space \in T /\ T \subseteq U /\ EOT \in U /\ EOT \notin T
  BY DEF Pad, Space, EOT
<1> DEFINE P == 0 .. Pad
<1>8. a \in Seq(P) /\ b \in Seq(P) /\ P \subseteq T
  BY <1>5, <1>7
<1> HIDE DEF P, T, U
<1>9. e \in Seq(T)
  <2>1. a \in Seq(T) /\ b \in Seq(T)
    BY <1>8
  <2>2. QED
    BY <1>4, <1>7, <2>1
<1>10. /\ Len(e) \in Nat /\ Len(d) = Len(e) + 1 /\ d[Len(d)] = EOT
       /\ \A i \in 1 .. Len(e) : d[i] = e[i] /\ e[i] \in T
  BY <1>9
<1>11. \A i \in 1 .. Len(e) : d[i] # EOT
  BY <1>7, <1>10
<1>12. d \in Seq(U)
  <2>1. e \in Seq(U)
    BY <1>7, <1>9
  <2>2. QED
    BY <1>7, <2>1
<1>13. SubSeq(d, 1, Len(e)) = e
  BY <1>9
<1>14. Len(d) \in 1 .. 254 * (DefaultMtu - 3)
  <2> DEFINE n == Len(e)
  <2>1. n \in Nat /\ n + 1 <= 254 * 20 /\ Len(d) = n + 1
    BY <1>6, <1>10 DEF DefaultMtu
  <2> HIDE DEF n, d
  <2>2. QED
    BY <2>1 DEF DefaultMtu
<1>15. d \in Seq(0 .. EOT)
  BY <1>12 DEF U
<1> HIDE DEF d
<1>16. QED
  BY <1>2, <1>3, <1>10, <1>11, <1>13, <1>14, <1>15 DEF d, e
-----------------------------------------------------------------------------
(* Products grow with their factors.                                       *)
LEMMA Grows ==
    ASSUME NEW a \in Nat, NEW b \in Nat, NEW s \in Nat, a <= b
    PROVE  a * s <= b * s /\ a * s \in Nat /\ (b + 1) * s = b * s + s
<1>1. (b - a) * s >= 0 /\ (b - a) * s = b * s - a * s
  OBVIOUS
<1>2. a * s \in Nat /\ b * s \in Nat /\ (b + 1) * s = b * s + s
  OBVIOUS
<1>3. QED
  BY <1>1, <1>2

(* Quotient and remainder.                                                 *)
LEMMA Divides ==
    ASSUME NEW n \in Nat, NEW s \in Nat, s > 0
    PROVE  /\ n \div s \in Nat /\ n % s \in 0 .. s - 1
           /\ n = (n \div s) * s + (n % s)
OBVIOUS

(* The number of pieces is the least that is enough, and eight bits count  *)
(* it.                                                                     *)
LEMMA PieceCount ==
    ASSUME spp_mtu_size \in Nat, spp_mtu_size >= DefaultMtu,
           NEW len \in 1 .. 254 * (DefaultMtu - 3)
    PROVE  /\ Size \in Nat /\ Size >= DefaultMtu - 3
           /\ Pieces(len) \in 1 .. 254
           /\ (Pieces(len) - 1) * Size < len
           /\ len <= Pieces(len) * Size
<1> DEFINE s == Size
           q == len \div s
           r == len % s
           p == IF r = 0 THEN q ELSE q + 1
<1>1. s \in Nat /\ s >= 20
  BY DEF Size, DefaultMtu
<1>2. len \in Nat /\ len >= 1 /\ len <= 254 * 20
  BY DEF DefaultMtu
<1> HIDE DEF s
<1>3. q \in Nat /\ r \in 0 .. s - 1 /\ len = q * s + r
  BY <1>1, <1>2, Divides
<1>4. Pieces(len) = p % 256
  BY DEF Pieces, s
<1> HIDE DEF q, r
<1>5. q * 20 <= q * s
  BY <1>1, <1>3
<1>6. q <= 254 /\ (q = 254 => r = 0)
  <2>1. q * s \in Nat
    BY <1>1, <1>3
  <2> DEFINE w == q * s
  <2>2. w \in Nat /\ q * 20 <= w /\ len = w + r
    BY <1>3, <1>5, <2>1
  <2> HIDE DEF w
  <2>3. QED
    BY <1>2, <1>3, <2>2
<1>7. p \in 1 .. 254 /\ (p - 1) * s < len /\ len <= p * s
  <2>1. CASE r = 0
    <3>1. q # 0
      BY <1>1, <1>2, <1>3, <2>1
    <3>2. q - 1 \in Nat /\ ((q - 1) + 1) * s = (q - 1) * s + s
      BY <1>1, <1>3, <3>1, Grows
    <3>3. q * s = (q - 1) * s + s /\ (q - 1) * s \in Nat
      BY <1>1, <1>3, <3>2
    <3>4. p = q /\ len = q * s
      BY <1>1, <1>3, <2>1
    <3> DEFINE v == (q - 1) * s
               w == q * s
    <3>5. w = v + s /\ v \in Nat /\ len = w
      BY <3>3, <3>4
    <3> HIDE DEF v, w
    <3>6. v < len /\ len <= w
      BY <1>1, <3>5
    <3>7. QED
      BY <1>3, <1>6, <3>1, <3>4, <3>6 DEF v, w
  <2>2. CASE r # 0
    <3>1. p = q + 1 /\ p - 1 = q /\ q <= 253
      BY <1>3, <1>6, <2>2
    <3>2. (q + 1) * s = q * s + s /\ q * s \in Nat
      BY <1>1, <1>3, Grows
    <3> DEFINE w == q * s
               v == (q + 1) * s
    <3>3. v = w + s /\ w \in Nat /\ len = w + r
      BY <1>3, <3>2
    <3> HIDE DEF v, w
    <3>4. w < len /\ len <= v
      BY <1>1, <1>3, <2>2, <3>3
    <3>5. QED
      BY <1>3, <3>1, <3>4 DEF v, w
  <2>3. QED
    BY <2>1, <2>2
<1> HIDE DEF p
<1>8. p % 256 = p
  BY <1>7
<1>9. QED
  BY <1>1, <1>4, <1>7, <1>8 DEF s, DefaultMtu

-----------------------------------------------------------------------------
(* The inductive invariant.  A record with a key belongs to a connection   *)
(* that was negotiated about, so that pieces have the size of the link.    *)
Linked ==
    /\ link \in Nat /\ link >= DefaultMtu
    /\ spp_mtu_size \in Nat /\ spp_mtu_size >= DefaultMtu
    /\ there => is_connected
    /\ tuned => link = spp_mtu_size
    /\ ~ tuned /\ is_connected => link = DefaultMtu

Keyed ==
    /\ key \in Keys \cup {NoKey}
    /\ is_connected /\ key # NoKey => tuned
    /\ pc \in {"idle", "read", "answer", "send"}
    /\ pc # "idle" => is_connected /\ key \in Keys

Asked ==
    /\ pc \in {"idle", "send"} => wroteKey = NoKey
    /\ pc = "read" =>
          \E k \in Keys, iv \in Ivs, text \in Texts, style \in Styles :
              message = Written(k, iv, text, style) /\ wrote = text /\ wroteKey = k
    /\ pc = "answer" => (wroteKey = key => heard = wrote)

(* Where the pieces sent so far end.                                       *)
Sent == (current_num - 1) * Size

InPieces ==
    /\ \E iv \in Ivs : data = encrypt_str_AES(key, iv, said) \o <<EOT>>
    /\ said \in Answers
    /\ total_num \in 1 .. 254 /\ current_num \in 1 .. total_num
    /\ (total_num - 1) * Size < Len(data) /\ Len(data) <= total_num * Size

Sending ==
    /\ pc = "send" => InPieces /\ (there => rx = SubSeq(data, 1, Sent))
    /\ pc # "send" /\ there => rx = <<>>
    /\ pc = "idle" /\ there /\ said # NoText => got = said

IInv == Linked /\ Keyed /\ Asked /\ Sending

LEMMA Join ==
    ASSUME NEW T, NEW d \in Seq(T), NEW o \in Nat, NEW end \in Nat, o <= end, end <= Len(d)
    PROVE  /\ Len(SubSeq(d, o + 1, end)) = end - o
           /\ SubSeq(d, o + 1, end) \in Seq(T)
           /\ SubSeq(d, 1, o) \o SubSeq(d, o + 1, end) = SubSeq(d, 1, end)
<1>1. SubSeq(d, 1, o) \o SubSeq(d, o + 1, end) = SubSeq(d, 1, end)
  <2>1. /\ 1 \in 1 .. Len(d) + 1 /\ o \in 1 - 1 .. Len(d) /\ end \in o .. Len(d)
    OBVIOUS
  <2>2. QED
    BY <2>1, ConcatAdjacentSubSeq
<1>2. Len(SubSeq(d, o + 1, end)) = end - o /\ SubSeq(d, o + 1, end) \in Seq(T)
  <2>1. \A i \in o + 1 .. end : d[i] \in T
    OBVIOUS
  <2>2. /\ SubSeq(d, o + 1, end) \in Seq(T)
        /\ Len(SubSeq(d, o + 1, end)) = IF o + 1 <= end THEN end - (o + 1) + 1 ELSE 0
    BY <2>1, SubSeqProperties
  <2>3. QED
    BY <2>2
<1>3. QED
  BY <1>1, <1>2

(* The piece that is sent next follows the ones before, fits the size, and *)
(* ends the data only when it is the last.                                 *)
LEMMA PieceIs ==
    ASSUME Linked, Keyed, pc = "send", InPieces
    PROVE  LET end == IF current_num < total_num THEN current_num * Size ELSE Len(data)
           IN  /\ Sent \in Nat /\ end \in Nat
               /\ Sent < end /\ end <= Len(data) /\ end - Sent <= Size
               /\ current_num < total_num => end < Len(data)
               /\ Piece = SubSeq(data, Sent + 1, end)
               /\ data \in Seq(0 .. EOT)
<1> DEFINE end == IF current_num < total_num THEN current_num * Size ELSE Len(data)
<1>1. Size \in Nat /\ Size >= 20
  BY DEF Linked, Size, DefaultMtu
<1>2. key \in Keys
  BY DEF Keyed
<1>3. data \in Seq(0 .. EOT)
  <2>1. PICK iv \in Ivs : data = encrypt_str_AES(key, iv, said) \o <<EOT>>
    BY DEF InPieces
  <2>2. QED
    BY <1>2, <2>1, AnswerShape DEF InPieces
<1>4. /\ total_num \in 1 .. 254 /\ current_num \in 1 .. total_num
      /\ (total_num - 1) * Size < Len(data) /\ Len(data) <= total_num * Size
  BY DEF InPieces
<1>5. Len(data) \in Nat
  BY <1>3
<1> DEFINE c == current_num - 1
           t == total_num - 1
           n == Len(data)
           s == Size
<1>6. c \in Nat /\ t \in Nat /\ c <= t /\ c + 1 = current_num /\ t + 1 = total_num
  BY <1>4
<1>7. /\ c * s \in Nat /\ c * s <= t * s /\ (t + 1) * s = t * s + s
      /\ (c + 1) * s = c * s + s
  BY <1>1, <1>6, Grows
<1>8. CASE current_num < total_num
  <2>1. (c + 1) * s <= t * s
    <3>1. c + 1 \in Nat /\ c + 1 <= t
      BY <1>4, <1>8
    <3>2. QED
      BY <1>1, <1>6, <3>1, Grows
  <2>2. end = (c + 1) * s /\ Sent = c * s
    BY <1>6, <1>8 DEF Sent
  <2>3. t * s < n
    BY <1>4
  <2> DEFINE x == c * s
             y == t * s
             z == (c + 1) * s
  <2>4. x \in Nat /\ z = x + s /\ z <= y /\ y < n /\ y \in Nat
    <3>1. y \in Nat
      BY <1>1, <1>6
    <3>2. QED
      BY <1>7, <2>1, <2>3, <3>1
  <2> HIDE DEF x, y, z, n
  <2>5. x < z /\ z <= n /\ z - x <= s /\ z < n /\ z \in Nat
    BY <1>1, <1>5, <2>4 DEF n
  <2>6. Piece = SubSeq(data, Sent + 1, end)
    BY DEF Piece, Sent
  <2>7. QED
    BY <1>3, <2>2, <2>4, <2>5, <2>6 DEF x, z, n
<1>9. CASE ~ (current_num < total_num)
  <2>1. c = t
    BY <1>4, <1>9
  <2>2. end = n /\ Sent = c * s
    BY <1>9 DEF Sent
  <2> DEFINE x == c * s
             z == (c + 1) * s
  <2>3. x \in Nat /\ z = x + s /\ x < n /\ n <= z
    BY <1>4, <1>6, <1>7, <2>1
  <2> HIDE DEF x, z, n
  <2>4. x < n /\ n <= n /\ n - x <= s /\ n \in Nat
    BY <1>1, <1>5, <2>3 DEF n
  <2>5. Piece = SubSeq(data, Sent + 1, end)
    BY DEF Piece, Sent
  <2>6. QED
    BY <1>3, <1>9, <2>2, <2>3, <2>4, <2>5 DEF x, n
<1>10. QED
  BY <1>8, <1>9

(* A phone that is there gets the piece as it was sent; what it has grows  *)
(* by it, and with the last piece it understands.                          *)
LEMMA Collected ==
    ASSUME Linked, Keyed, pc = "send", InPieces, there, rx = SubSeq(data, 1, Sent),
           Collect(Arrived)
    PROVE  /\ current_num < total_num =>
                 rx' = SubSeq(data, 1, current_num * Size) /\ got' = got
           /\ ~ (current_num < total_num) => rx' = <<>> /\ got' = said
<1> DEFINE end == IF current_num < total_num THEN current_num * Size ELSE Len(data)
<1>1. /\ Sent \in Nat /\ end \in Nat
      /\ Sent < end /\ end <= Len(data) /\ end - Sent <= Size
      /\ current_num < total_num => end < Len(data)
      /\ Piece = SubSeq(data, Sent + 1, end)
      /\ data \in Seq(0 .. EOT)
  BY PieceIs
<1>2. end = IF current_num < total_num THEN current_num * Size ELSE Len(data)
  OBVIOUS
<1>3. Size = link - 3 /\ Size \in Nat
  BY KeyAssumption DEF Linked, Keyed, Size, DefaultMtu
<1> HIDE DEF end
<1> DEFINE C == 0 .. EOT
<1>4. data \in Seq(C)
  BY <1>1
<1> HIDE DEF C
<1>5. /\ Len(Piece) = end - Sent /\ Piece \in Seq(C)
      /\ rx \o Piece = SubSeq(data, 1, end)
  BY <1>1, <1>4, Join
<1>6. Arrived = Piece
  <2> DEFINE n == Len(Piece)
  <2>1. n \in Nat /\ n <= Size
    BY <1>1, <1>3, <1>5
  <2> HIDE DEF n
  <2>2. Min({n, link - 3}) = n
    BY <1>3, <2>1 DEF Min
  <2>3. Arrived = SubSeq(Piece, 1, n)
    BY <2>2 DEF Arrived, n
  <2>4. QED
    BY <1>5, <2>3, SubSeqFull DEF n
<1> DEFINE all == rx \o Piece
<1>7. all \in Seq(C) /\ Len(all) = end /\ all[end] = data[end]
  <2>1. \A i \in 1 .. end : data[i] \in C
    BY <1>1, <1>4
  <2>2. /\ SubSeq(data, 1, end) \in Seq(C)
        /\ Len(SubSeq(data, 1, end)) = end
        /\ \A i \in 1 .. end : SubSeq(data, 1, end)[i] = data[i]
    BY <1>1, <2>1, SubSeqProperties
  <2>3. QED
    BY <1>1, <1>5, <2>2
<1>8. all # <<>>
  <2>1. Len(all) # 0
    BY <1>1, <1>7
  <2>2. Len(<<>>) = 0
    OBVIOUS
  <2> HIDE DEF all
  <2>3. QED
    BY <2>1, <2>2
<1>9. PICK iv \in Ivs : data = encrypt_str_AES(key, iv, said) \o <<EOT>>
  BY DEF InPieces
<1> DEFINE e == encrypt_str_AES(key, iv, said)
<1>10. /\ Len(data) = Len(e) + 1 /\ data[Len(data)] = EOT
       /\ \A i \in 1 .. Len(e) : data[i] # EOT
       /\ SubSeq(data, 1, Len(e)) = e
       /\ decrypt_base64_AES(key, e) = said
  BY <1>9, AnswerShape DEF Keyed, InPieces
<1>11. Len(data) \in Nat /\ Len(e) = Len(data) - 1
  <2>1. key \in Keys /\ said \in Answers
    BY DEF Keyed, InPieces
  <2>2. Len(data) \in 1 .. 254 * (DefaultMtu - 3)
    BY <1>9, <2>1, AnswerShape
  <2>3. Len(e) \in Nat
    BY <2>1, AnswerShape
  <2>4. QED
    BY <1>10, <2>2, <2>3
<1> HIDE DEF e
<1>12. /\ all[Len(all)] = EOT =>
             rx' = <<>> /\ got' = decrypt_base64_AES(key, SubSeq(all, 1, Len(all) - 1))
       /\ all[Len(all)] # EOT => rx' = all /\ got' = got
  BY <1>6, <1>8 DEF Collect
<1> HIDE DEF all
<1>13. CASE current_num < total_num
  <2>1. data[end] # EOT
    BY <1>1, <1>10, <1>11, <1>13
  <2>2. rx' = all /\ got' = got
    BY <1>7, <1>12, <2>1
  <2>3. QED
    BY <1>2, <1>5, <1>13, <2>2 DEF all
<1>14. CASE ~ (current_num < total_num)
  <2>1. end = Len(data)
    BY <1>2, <1>14
  <2>2. rx' = <<>> /\ got' = decrypt_base64_AES(key, SubSeq(all, 1, Len(all) - 1))
    BY <1>7, <1>10, <1>12, <2>1
  <2>3. all = data
    BY <1>4, <1>5, <2>1, SubSeqFull DEF all
  <2>4. QED
    BY <1>10, <1>11, <1>14, <2>2, <2>3
<1>15. QED
  BY <1>13, <1>14

-----------------------------------------------------------------------------
LEMMA InitHolds == Init => IInv
<1>1. 123 \in Nat /\ 123 >= 23 /\ 23 \in Nat
  OBVIOUS
<1>2. QED
  BY <1>1 DEF Init, IInv, Linked, Keyed, Asked, Sending, DefaultMtu, NoText

LEMMA RestartHolds == Restart => IInv'
<1>1. 123 \in Nat /\ 123 >= 23 /\ 23 \in Nat
  OBVIOUS
<1>2. QED
  BY <1>1 DEF Restart, IInv, Linked, Keyed, Asked, Sending, DefaultMtu, NoText

(* What settles the invariant of a message being sent is left alone.       *)
LEMMA SameSending ==
    ASSUME InPieces, UNCHANGED <<sending, spp_mtu_size, key, said>>
    PROVE  InPieces' /\ Sent' = Sent
BY DEF InPieces, sending, Sent, Size

LEMMA ConnectHolds == ASSUME IInv, Connect PROVE IInv'
<1>1. Linked'
  BY DEF IInv, Connect, Linked, DefaultMtu
<1>2. Keyed'
  BY DEF IInv, Connect, Keyed
<1>3. Asked'
  BY DEF IInv, Connect, Asked, asked
<1>4. Sending'
  BY DEF IInv, Connect, Sending
<1>5. QED
  BY <1>1, <1>2, <1>3, <1>4 DEF IInv

LEMMA NegotiateHolds == ASSUME IInv, NEW m \in Mtus, Negotiate(m) PROVE IInv'
<1>1. m \in Nat /\ m >= DefaultMtu
  BY SizeAssumption
<1>2. Linked'
  BY <1>1 DEF IInv, Negotiate, Linked
<1>3. Keyed'
  BY DEF IInv, Negotiate, Keyed
<1>4. Asked'
  BY DEF IInv, Negotiate, Asked, asked
<1>5. Sending'
  BY DEF IInv, Negotiate, Sending, phone
<1>6. QED
  BY <1>2, <1>3, <1>4, <1>5 DEF IInv

LEMMA LeaveHolds == ASSUME IInv, Leave PROVE IInv'
<1>1. Linked'
  BY DEF IInv, Leave, Linked
<1>2. Keyed'
  BY DEF IInv, Leave, Keyed
<1>3. Asked'
  BY DEF IInv, Leave, Asked, asked
<1>4. Sending'
  BY SameSending DEF IInv, Leave, Sending, phone
<1>5. QED
  BY <1>1, <1>2, <1>3, <1>4 DEF IInv

LEMMA DisconnectHolds == ASSUME IInv, Disconnect PROVE IInv'
<1>1. Linked'
  BY DEF IInv, Disconnect, Linked
<1>2. Keyed'
  BY DEF IInv, Disconnect, Keyed
<1>3. Asked'
  BY DEF IInv, Disconnect, Asked, asked
<1>4. Sending'
  BY DEF IInv, Disconnect, Sending, phone
<1>5. QED
  BY <1>1, <1>2, <1>3, <1>4 DEF IInv

(* The credentials fit no link but a negotiated one.                       *)
LEMMA InstallHolds == ASSUME IInv, NEW k \in Keys, Install(k) PROVE IInv'
<1>1. tuned
  <2>1. Credentials <= link - 3 /\ is_connected
    BY DEF Install, Fits
  <2>2. link # DefaultMtu
    BY <2>1, SizeAssumption DEF IInv, Linked, DefaultMtu
  <2>3. QED
    BY <2>1, <2>2 DEF IInv, Linked
<1>2. Linked'
  BY DEF IInv, Install, Linked, conn
<1>3. Keyed'
  BY <1>1 DEF IInv, Install, Keyed, conn
<1>4. Asked'
  BY KeyAssumption DEF IInv, Install, Asked, asked
<1>5. Sending'
  BY DEF IInv, Install, Sending, conn, phone
<1>6. QED
  BY <1>2, <1>3, <1>4, <1>5 DEF IInv

LEMMA WriteHolds ==
    ASSUME IInv, NEW k \in Keys, NEW iv \in Ivs, NEW text \in Texts, NEW style \in Styles,
           Write(k, iv, text, style)
    PROVE  IInv'
<1>1. Linked'
  BY DEF IInv, Write, Linked, conn
<1>2. Keyed'
  BY DEF IInv, Write, Keyed, conn
<1>3. Asked'
  BY DEF IInv, Write, Asked
<1>4. Sending'
  BY DEF IInv, Write, Sending, conn
<1>5. QED
  BY <1>1, <1>2, <1>3, <1>4 DEF IInv

LEMMA ReadHolds == ASSUME IInv, Read PROVE IInv'
<1>1. CASE ~ Unpaddable(Padded(key, message))
  BY <1>1, RestartHolds DEF Read
<1>2. CASE Unpaddable(Padded(key, message))
  <2>1. /\ pc = "read" /\ pc' = "answer" /\ heard' = decrypt_base64_AES(key, message)
        /\ UNCHANGED <<conn, spp_mtu_size, key, sending, phone, message, wrote, wroteKey, said>>
    BY <1>2 DEF Read
  <2>2. Linked'
    BY <2>1 DEF IInv, Linked, conn
  <2>3. Keyed'
    BY <2>1 DEF IInv, Keyed, conn
  <2>4. Asked'
    <3>1. PICK k \in Keys, iv \in Ivs, text \in Texts, style \in Styles :
             message = Written(k, iv, text, style) /\ wrote = text /\ wroteKey = k
      BY <2>1 DEF IInv, Asked
    <3>2. decrypt_base64_AES(k, Written(k, iv, text, style)) = text
      BY WrittenIsRead
    <3>3. wroteKey = key => heard' = wrote
      BY <2>1, <3>1, <3>2
    <3>4. QED
      BY <2>1, <3>3 DEF Asked
  <2>5. Sending'
    BY <2>1 DEF IInv, Sending, conn, phone
  <2>6. QED
    BY <2>2, <2>3, <2>4, <2>5 DEF IInv
<1>3. QED
  BY <1>1, <1>2

LEMMA AnswerHolds ==
    ASSUME IInv, NEW iv \in Ivs, NEW text \in Answers, Answer(iv, text)
    PROVE  IInv'
<1> DEFINE d == encrypt_str_AES(key, iv, text) \o <<EOT>>
<1>1. /\ pc = "answer" /\ data' = d /\ total_num' = Pieces(Len(d)) /\ current_num' = 1
      /\ said' = text /\ got' = NoText
      /\ pc' = IF 1 <= total_num' THEN "send" ELSE "idle"
      /\ wroteKey' = NoKey
      /\ UNCHANGED <<conn, spp_mtu_size, key, rx>>
  BY DEF Answer
<1>2. key \in Keys
  BY <1>1 DEF IInv, Keyed
<1>3. Len(d) \in 1 .. 254 * (DefaultMtu - 3) /\ d \in Seq(0 .. EOT)
  BY <1>2, AnswerShape
<1>4. /\ Size \in Nat /\ Pieces(Len(d)) \in 1 .. 254
      /\ (Pieces(Len(d)) - 1) * Size < Len(d)
      /\ Len(d) <= Pieces(Len(d)) * Size
  BY <1>3, PieceCount DEF IInv, Linked
<1> HIDE DEF d
<1>5. total_num' \in 1 .. 254 /\ 1 <= total_num' /\ 1 \in 1 .. total_num'
  <2> DEFINE p == Pieces(Len(d))
  <2>1. p \in 1 .. 254 /\ total_num' = p
    BY <1>1, <1>4
  <2> HIDE DEF p
  <2>2. 1 <= p /\ 1 \in 1 .. p
    BY <2>1
  <2>3. QED
    BY <2>1, <2>2
<1>6. pc' = "send"
  BY <1>1, <1>5
<1>7. Linked'
  BY <1>1 DEF IInv, Linked, conn
<1>8. Keyed'
  BY <1>1, <1>6 DEF IInv, Keyed, conn
<1>9. Asked'
  BY <1>1, <1>6 DEF Asked
<1>10. Sending'
  <2>1. InPieces'
    <3>1. \E j \in Ivs : data' = encrypt_str_AES(key', j, said') \o <<EOT>>
      BY <1>1 DEF d
    <3>2. Size' = Size
      BY <1>1 DEF Size
    <3>3. /\ said' \in Answers /\ current_num' \in 1 .. total_num'
          /\ (total_num' - 1) * Size' < Len(data') /\ Len(data') <= total_num' * Size'
      BY <1>1, <1>4, <1>5, <3>2
    <3>4. QED
      BY <1>5, <3>1, <3>3 DEF InPieces
  <2>2. Sent' = 0
    <3>1. Size' = Size
      BY <1>1 DEF Size
    <3>2. (1 - 1) * Size = 0
      BY <1>4
    <3>3. QED
      BY <1>1, <3>1, <3>2 DEF Sent
  <2>3. SubSeq(data', 1, 0) = <<>>
    BY SubSeqEmpty
  <2>4. there' => rx' = <<>>
    BY <1>1 DEF IInv, Sending, conn
  <2>5. QED
    BY <1>6, <2>1, <2>2, <2>3, <2>4 DEF Sending
<1>11. QED
  BY <1>7, <1>8, <1>9, <1>10 DEF IInv

LEMMA IndicateHolds == ASSUME IInv, Indicate PROVE IInv'
<1>1. /\ Linked /\ Keyed /\ pc = "send" /\ InPieces /\ Collect(Arrived)
      /\ there => rx = SubSeq(data, 1, Sent)
  BY DEF IInv, Indicate, Sending
<1>2. UNCHANGED <<conn, spp_mtu_size, key, asked, said>>
  BY DEF Indicate
<1>3. /\ total_num \in 1 .. 254 /\ current_num \in 1 .. total_num
      /\ (current_num + 1) % 256 = current_num + 1
  <2>1. total_num \in 1 .. 254 /\ current_num \in 1 .. total_num
    BY <1>1 DEF InPieces
  <2>2. current_num + 1 \in 0 .. 255
    BY <2>1
  <2>3. QED
    BY <2>1, <2>2
<1>4. Linked'
  BY <1>1, <1>2 DEF Linked, conn
<1>5. there => /\ current_num < total_num =>
                     rx' = SubSeq(data, 1, current_num * Size) /\ got' = got
               /\ ~ (current_num < total_num) => rx' = <<>> /\ got' = said
  BY <1>1, Collected
<1>6. there' = there /\ said' = said
  BY <1>2 DEF conn
<1>7. CASE current_num < total_num
  <2>1. current_num + 1 <= total_num
    BY <1>3, <1>7
  <2>2. current_num' = current_num + 1 /\ UNCHANGED <<pc, data, total_num>>
    BY <1>3, <2>1 DEF Indicate
  <2>3. Keyed'
    BY <1>1, <1>2, <2>2 DEF Keyed, conn
  <2>4. Asked'
    BY <1>1, <1>2, <2>2 DEF IInv, Asked, asked
  <2>5. InPieces'
    <3>1. current_num' \in 1 .. total_num'
      BY <1>3, <2>1, <2>2
    <3>2. Size' = Size
      BY <1>2 DEF Size
    <3>3. QED
      BY <1>1, <1>2, <2>2, <3>1, <3>2 DEF InPieces
  <2>6. Sent' = current_num * Size
    <3>1. Size' = Size
      BY <1>2 DEF Size
    <3>2. (current_num + 1) - 1 = current_num
      BY <1>3
    <3>3. QED
      BY <2>2, <3>1, <3>2 DEF Sent
  <2>7. Sending'
    BY <1>1, <1>5, <1>6, <1>7, <2>2, <2>5, <2>6 DEF Sending
  <2>8. QED
    BY <1>4, <2>3, <2>4, <2>7 DEF IInv
<1>8. CASE ~ (current_num < total_num)
  <2>1. ~ (current_num + 1 <= total_num)
    BY <1>3, <1>8
  <2>2. pc' = "idle"
    BY <1>3, <2>1 DEF Indicate
  <2>3. Keyed'
    BY <1>1, <1>2, <2>2 DEF Keyed, conn
  <2>4. Asked'
    BY <1>1, <1>2, <2>2 DEF IInv, Asked, asked
  <2>5. Sending'
    BY <1>5, <1>6, <1>8, <2>2 DEF Sending
  <2>6. QED
    BY <1>4, <2>3, <2>4, <2>5 DEF IInv
<1>9. QED
  BY <1>7, <1>8

LEMMA StutterHolds == ASSUME IInv, UNCHANGED vars PROVE IInv'
<1>1. Linked'
  BY DEF IInv, Linked, vars, conn
<1>2. Keyed'
  BY DEF IInv, Keyed, vars, conn
<1>3. Asked'
  BY DEF IInv, Asked, vars, asked
<1>4. Sending'
  <2>1. UNCHANGED <<sending, spp_mtu_size, key, said>>
    BY DEF vars
  <2>2. pc' = pc /\ there' = there /\ data' = data /\ rx' = rx /\ got' = got /\ said' = said
    BY DEF vars, conn, phone, sending
  <2>3. pc = "send" => InPieces' /\ Sent' = Sent
    BY <2>1, SameSending DEF IInv, Sending
  <2>4. QED
    BY <2>2, <2>3 DEF IInv, Sending
<1>5. QED
  BY <1>1, <1>2, <1>3, <1>4 DEF IInv

(* Every step keeps the invariant.                                         *)
THEOREM Invariant == Spec => []IInv
<1>1. Init => IInv
  BY InitHolds
<1>2. IInv /\ [Next]_vars => IInv'
  <2>1. SUFFICES ASSUME IInv, [Next]_vars PROVE IInv'
    OBVIOUS
  <2>2. CASE Connect
    BY <2>1, <2>2, ConnectHolds
  <2>3. CASE Leave
    BY <2>1, <2>3, LeaveHolds
  <2>4. CASE Disconnect
    BY <2>1, <2>4, DisconnectHolds
  <2>5. CASE \E m \in Mtus : Negotiate(m)
    BY <2>1, <2>5, NegotiateHolds
  <2>6. CASE \E k \in Keys : Install(k)
    BY <2>1, <2>6, InstallHolds
  <2>7. CASE \E k \in Keys, iv \in Ivs, text \in Texts, style \in Styles : Write(k, iv, text, style)
    BY <2>1, <2>7, WriteHolds
  <2>8. CASE Read
    BY <2>1, <2>8, ReadHolds
  <2>9. CASE \E iv \in Ivs, text \in Answers : Answer(iv, text)
    BY <2>1, <2>9, AnswerHolds
  <2>10. CASE Indicate
    BY <2>1, <2>10, IndicateHolds
  <2>11. CASE UNCHANGED vars
    BY <2>1, <2>11, StutterHolds
  <2>12. QED
    BY <2>1, <2>2, <2>3, <2>4, <2>5, <2>6, <2>7, <2>8, <2>9, <2>10, <2>11 DEF Next
<1>3. QED
  BY <1>1, <1>2, PTL DEF Spec
-----------------------------------------------------------------------------
(* What a phone writes under the key of the record is what the lock reads, *)
(* and what the lock answers is what the phone reads: the callback of      *)
(* ble_s3_server.c with send_data_ble_s3, encrypt_str_AES and              *)
(* decrypt_base64_AES, over any number of connections.                     *)
THEOREM MessagesUnderstood == Spec => []Understood
<1>1. IInv => Understood
  <2>1. SUFFICES ASSUME IInv PROVE Understood
    OBVIOUS
  <2>2. (pc = "answer" /\ wroteKey = key) => heard = wrote
    BY <2>1 DEF IInv, Asked
  <2>3. ASSUME pc = "read", wroteKey = key, wrote # <<>>
        PROVE  Unpaddable(Padded(key, message))
    <3>1. PICK k \in Keys, iv \in Ivs, text \in Texts, style \in Styles :
             message = Written(k, iv, text, style) /\ wrote = text /\ wroteKey = k
      BY <2>1, <2>3 DEF IInv, Asked
    <3>2. Padded(k, Written(k, iv, text, style)) = addPadding(text)
      BY WrittenIsRead
    <3>3. text \in Seq(Byte)
      BY ByteAssumption
    <3>4. Unpaddable(addPadding(text))
      BY <2>3, <3>1, <3>3, PaddingRoundTrip
    <3>5. QED
      BY <2>3, <3>1, <3>2, <3>4
  <2>4. (pc = "idle" /\ there /\ said # NoText) => got = said
    BY <2>1 DEF IInv, Sending
  <2>5. QED
    BY <2>2, <2>3, <2>4 DEF Understood
<1>2. QED
  BY <1>1, Invariant, PTL

(* The decoder writes no more than its buffer holds.                       *)
LEMMA DecoderRoom ==
    ASSUME NEW src \in Seq(Byte), NEW chars, chars = base64_encode(src)
    PROVE  3 * LastFour(chars) <= DecodeRoom(chars)
<1> DEFINE q == (Len(src) + 2) \div 3
<1>1. q \in Nat /\ Len(chars) = 4 * q
  BY EncodedLength
<1> HIDE DEF q
<1>2. DecodeRoom(chars) = 3 * q
  BY <1>1 DEF DecodeRoom
<1>3. CASE src # <<>>
  <2>1. LastFour(chars) = q
    BY <1>1, <1>3, EncodedLast DEF q
  <2>2. QED
    BY <1>1, <1>2, <2>1
<1>4. CASE src = <<>>
  <2>1. q = 0
    BY <1>4 DEF q
  <2>2. {i \in 1 .. Len(chars) : chars[i] = Pad} = {}
    BY <1>1, <2>1
  <2>3. LastFour(chars) = q
    BY <1>1, <2>1, <2>2 DEF LastFour
  <2>4. QED
    BY <1>1, <1>2, <2>3
<1>5. QED
  BY <1>3, <1>4

(* Nothing is written behind a buffer of base64_util.c, aes_util.c or      *)
(* send_data_ble_s3, and eight bits count the pieces.                      *)
THEOREM StaysInBuffers == Spec => []InBuffers
<1>1. IInv => InBuffers
  <2>1. SUFFICES ASSUME IInv PROVE InBuffers
    OBVIOUS
  <2>2. ASSUME pc = "read", NEW word \in {CipherWord(message), IvWord(message)}
        PROVE  3 * LastFour(Counted(word)) <= DecodeRoom(Counted(word))
    <3>1. PICK k \in Keys, iv \in Ivs, text \in Texts, style \in Styles :
             message = Written(k, iv, text, style)
      BY <2>1, <2>2 DEF IInv, Asked
    <3>2. \E src \in Seq(Byte) : Counted(word) = base64_encode(src)
      BY <2>2, <3>1, WrittenWords
    <3>3. QED
      BY <3>2, DecoderRoom
  <2>3. ASSUME pc = "send"
        PROVE  /\ \A iv \in Ivs : Len(base64_encode(iv)) + 1 <= EncodeRoom(Len(iv))
               /\ \E iv \in Ivs :
                     /\ data = encrypt_str_AES(key, iv, said) \o <<EOT>>
                     /\ Len(data) + 1 <= Granted(MessageRoom(key, iv, said))
               /\ current_num \in 1 .. total_num
               /\ Len(Piece) \in 1 .. (IF total_num = 1 THEN Len(data) ELSE Size)
    <3>1. Linked /\ Keyed /\ InPieces
      BY <2>1, <2>3 DEF IInv, Sending
    <3>2. \A iv \in Ivs : Len(base64_encode(iv)) + 1 <= EncodeRoom(Len(iv))
      BY ByteAssumption, EncodeRoomSuffices
    <3>3. \E iv \in Ivs : /\ data = encrypt_str_AES(key, iv, said) \o <<EOT>>
                          /\ Len(data) + 1 <= Granted(MessageRoom(key, iv, said))
      BY <2>3, <3>1, AnswerShape DEF Keyed, InPieces
    <3>4. current_num \in 1 .. total_num /\ total_num \in 1 .. 254
      BY <3>1 DEF InPieces
    <3>5. Len(Piece) \in 1 .. (IF total_num = 1 THEN Len(data) ELSE Size)
      <4> DEFINE end == IF current_num < total_num THEN current_num * Size ELSE Len(data)
      <4>1. /\ Sent \in Nat /\ end \in Nat
            /\ Sent < end /\ end <= Len(data) /\ end - Sent <= Size
            /\ Piece = SubSeq(data, Sent + 1, end)
            /\ data \in Seq(0 .. EOT)
        BY <2>3, <3>1, PieceIs
      <4> HIDE DEF end
      <4>2. Len(Piece) = end - Sent
        BY <4>1, Join
      <4>3. Len(data) \in Nat /\ Size \in Nat
        BY <3>1, <4>1 DEF Linked, Size, DefaultMtu
      <4> DEFINE n == Len(data)
      <4>4. n \in Nat /\ end <= n
        BY <4>1, <4>3
      <4> HIDE DEF n
      <4>5. end - Sent \in 1 .. n /\ end - Sent \in 1 .. Size
        BY <4>1, <4>3, <4>4
      <4>6. QED
        BY <4>2, <4>5 DEF n
    <3>6. QED
      BY <3>2, <3>3, <3>4, <3>5
  <2>4. QED
    BY <2>2, <2>3 DEF InBuffers
<1>2. QED
  BY <1>1, Invariant, PTL
=============================================================================
