------------------------------ MODULE MCFrames ------------------------------
(* Texts with an incomplete last block, with whole blocks and with none;   *)
(* sizes of which one divides an answer into two (92), one into many (55), *)
(* and one is no larger than the default.  The key of RSA is a short one:  *)
(* with Credentials = 344 no answer would be sent in pieces.               *)
EXTENDS Frames

MCText(n) == [i \in 1 .. n |-> ((i * 37) % 255) + 1]

MCTexts   == {MCText(n) : n \in {0, 15, 16, 33}}
MCAnswers == {MCText(n) : n \in {7, 16, 40, 100}}
MCIvs     == {[i \in 1 .. 16 |-> (7 * i + x) % 256] : x \in {0, 250}}
MCMtus    == {23, 55, 73, 92, 120}

(* CBC chains each block with the one before it, the first with iv.  For   *)
(* the cipher of a block the key is added to every byte.                   *)
MCEncrypt(k, iv, plain) ==
    LET chained[i \in 1 .. Len(plain)] ==
            (plain[i] + k + (IF i <= 16 THEN iv[i] ELSE chained[i - 16])) % 256
    IN  [i \in 1 .. Len(plain) |-> chained[i]]

MCDecrypt(k, iv, cipher) ==
    [i \in 1 .. Len(cipher) |->
        (cipher[i] - k - (IF i <= 16 THEN iv[i] ELSE cipher[i - 16])) % 256]

(* A phone may leave the padding of Base64 out, or break its lines.        *)
MCStyled(s, style) ==
    CASE style = "padded" -> s
      [] style = "bare"   -> SelectSeq(s, LAMBDA c : c # Pad)
      [] style = "lines"  -> SubSeq(s, 1, 19) \o <<Skip>> \o SubSeq(s, 20, Len(s)) \o <<Skip>>
=============================================================================
