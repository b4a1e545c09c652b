------------------------------- MODULE Codec -------------------------------
(***************************************************************************)
(* What the lock and a phone turn a text into before it is sent, and back: *)
(* PKCS7 padding, AES in CBC mode, Base64, and the two words of a message. *)
(*                                                                         *)
(* A byte is 0 .. 255.  A character is its value in the table of Base64,   *)
(* or one of the marks below.  esp_aes_crypt_cbc belongs to a library: all *)
(* that matters here is that one direction undoes the other.               *)
(***************************************************************************)
EXTENDS Integers, Sequences, SequencesExt

CONSTANTS Encrypt(_, _, _),  \* what it makes of a key, an iv and a text, and
          Decrypt(_, _, _)   \* back (external)

Byte  == 0 .. 255
Pad   == 64   \* '='
Skip  == 65   \* a line feed, or anything else that is not in the table
Space == 66
EOT   == 67

PADDING_BLOCK_SIZE == 16

-----------------------------------------------------------------------------
paddingBytesAmount(data) == PADDING_BLOCK_SIZE - (Len(data) % PADDING_BLOCK_SIZE)

addPadding(data) ==
    data \o [i \in 1 .. paddingBytesAmount(data) |-> paddingBytesAmount(data)]

(* The last byte says how much to remove.  When nothing or less is left,   *)
(* malloc has nothing to return and the program exits.                     *)
Unpaddable(data) == data[Len(data)] < Len(data)

removePadding(data) == SubSeq(data, 1, Len(data) - data[Len(data)])

-----------------------------------------------------------------------------
(* base64_encode: three bytes, the first of them at i, make four           *)
(* characters; what the last bytes do not fill is padding.                 *)
At(src, i) == IF i <= Len(src) THEN src[i] ELSE 0

Char(src, i, r) ==
    CASE r = 1 -> At(src, i) \div 4
      [] r = 2 -> (At(src, i) % 4) * 16 + (At(src, i + 1) \div 16)
      [] r = 3 -> IF i + 1 <= Len(src)
                  THEN (At(src, i + 1) % 16) * 4 + (At(src, i + 2) \div 64) ELSE Pad
      [] r = 4 -> IF i + 2 <= Len(src) THEN At(src, i + 2) % 64 ELSE Pad

base64_encode(src) ==
    [c \in 1 .. 4 * ((Len(src) + 2) \div 3) |->
        Char(src, 3 * ((c - 1) \div 4) + 1, ((c - 1) % 4) + 1)]

(* What it allocates for n bytes, the end of the string included.          *)
EncodeRoom(n) == LET olen == ((n * 4) \div 3) + 4 IN olen + (olen \div 72) + 1

(* The characters base64_decode does not skip.                             *)
Known(src) ==
    IF \A i \in 1 .. Len(src) : src[i] <= Pad THEN src
    ELSE SelectSeq(src, LAMBDA c : c <= Pad)

(* It makes up for missing padding.                                        *)
Counted(src) ==
    LET extra == (4 - (Len(Known(src)) % 4)) % 4
    IN  Known(src) \o [i \in 1 .. extra |-> Pad]

DecodeRoom(chars) == 3 * (Len(chars) \div 4)

(* Decoding ends with the first four characters that hold padding.         *)
LastFour(chars) ==
    LET pads == {i \in 1 .. Len(chars) : chars[i] = Pad}
    IN  IF pads = {} THEN Len(chars) \div 4 ELSE (Min(pads) + 3) \div 4

PadsIn(chars, j) ==
    LET Is(i) == IF chars[i] = Pad THEN 1 ELSE 0
    IN  Is(4 * j - 3) + Is(4 * j - 2) + Is(4 * j - 1) + Is(4 * j)

(* The bytes of the four characters that begin at i.                       *)
Val(chars, i) == IF chars[i] = Pad THEN 0 ELSE chars[i]

ByteOf(chars, i, r) ==
    CASE r = 1 -> ((Val(chars, i) * 4) % 256) + (Val(chars, i + 1) \div 16)
      [] r = 2 -> ((Val(chars, i + 1) * 16) % 256) + (Val(chars, i + 2) \div 4)
      [] r = 3 -> ((Val(chars, i + 2) * 64) % 256) + Val(chars, i + 3)

(* The main loop; NULL is <<>>.                                            *)
Decoded(chars) ==
    LET last == LastFour(chars)
        pads == IF last = 0 THEN 3 ELSE PadsIn(chars, last)
    IN  IF pads > 2 THEN <<>>
        ELSE [b \in 1 .. 3 * last - pads |->
                ByteOf(chars, 4 * ((b - 1) \div 3) + 1, ((b - 1) % 3) + 1)]

base64_decode(src) == Decoded(Counted(src))

-----------------------------------------------------------------------------
(* A message is the cipher text and the iv, each in Base64, with a space   *)
(* between them.                                                           *)
encrypt_str_AES(key, iv, text) ==
    base64_encode(Encrypt(key, iv, addPadding(text))) \o <<Space>> \o base64_encode(iv)

(* What it allocates: one byte short of both words, the space and the end. *)
MessageRoom(key, iv, text) ==
    Len(base64_encode(Encrypt(key, iv, addPadding(text)))) + Len(base64_encode(iv)) + 1

(* malloc hands out whole words of four bytes (external).                  *)
Granted(n) == 4 * ((n + 3) \div 4)

(* strtok at the space.                                                    *)
SpaceAt(message) == SelectInSeq(message, LAMBDA c : c = Space)
CipherWord(message) == SubSeq(message, 1, SpaceAt(message) - 1)
IvWord(message) == SubSeq(message, SpaceAt(message) + 1, Len(message))

(* The padded text, before removePadding.                                  *)
Padded(key, message) ==
    Decrypt(key, base64_decode(IvWord(message)), base64_decode(CipherWord(message)))

decrypt_base64_AES(key, message) == removePadding(Padded(key, message))
=============================================================================
