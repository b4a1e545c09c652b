------------------------------- MODULE Frames -------------------------------
(***************************************************************************)
(* Messages over Bluetooth: a phone writes a command, the GATT callback    *)
(* decrypts it, and send_data_ble_s3 sends the encrypted answer as         *)
(* indications that the phone puts together up to the EOT.  How long they  *)
(* are is settled by spp_mtu_size, which the MTU event sets and nothing    *)
(* else: it outlives the connection it was agreed for.                     *)
(*                                                                         *)
(* What is said and who may say it is the matter of Session; here a text   *)
(* is a sequence of bytes.                                                 *)
(***************************************************************************)
EXTENDS Codec

CONSTANTS Keys,     \* session keys
          Ivs,      \* what get_random_iv returns
          Texts,    \* what a phone may write
          Answers,  \* what the lock may answer
          Mtus,     \* what a phone may negotiate
          NoKey,
          Credentials,  \* the length of SSC under RSA: 344 for 2048 bits
          Styles,   \* how phones write Base64 (external):
          Styled(_, _)  \* with or without padding, in one line or several

DefaultMtu == 23   \* of a connection nobody negotiated about (external)

Cipher(k, iv, text) == Encrypt(k, iv, addPadding(text))

Written(k, iv, text, style) ==
    Styled(base64_encode(Cipher(k, iv, text)), style)
        \o <<Space>> \o Styled(base64_encode(iv), style)

ASSUME KeyAssumption == NoKey \notin Keys

(* Texts and initialisation vectors are bytes.                             *)
ASSUME ByteAssumption ==
    /\ \A text \in Texts \cup Answers : text \in Seq(Byte)
    /\ <<>> \notin Answers
    /\ \A iv \in Ivs : iv \in Seq(Byte) /\ iv # <<>>

(* What the cipher makes of a text has its length and can be undone.       *)
ASSUME CipherAssumption ==
    \A k \in Keys, iv \in Ivs, text \in Texts \cup Answers :
        /\ Cipher(k, iv, text) \in Seq(Byte)
        /\ Len(Cipher(k, iv, text)) = Len(addPadding(text))
        /\ Decrypt(k, iv, Cipher(k, iv, text)) = addPadding(text)

(* Phones differ in what the decoder skips or makes up for, no more.       *)
Readable(src, style) ==
    /\ Styled(base64_encode(src), style) \in Seq(0 .. Skip)
    /\ Counted(Styled(base64_encode(src), style)) = base64_encode(src)

ASSUME StyleAssumption ==
    \A iv \in Ivs, style \in Styles :
        /\ Readable(iv, style)
        /\ \A k \in Keys, text \in Texts : Readable(Cipher(k, iv, text), style)

(* The credentials do not fit a connection nobody negotiated about, and an *)
(* answer with its EOT takes no more pieces than eight bits count.         *)
ASSUME SizeAssumption ==
    /\ Credentials \in Nat /\ Credentials > DefaultMtu - 3
    /\ \A m \in Mtus : m \in Nat /\ m >= DefaultMtu
    /\ \A k \in Keys, iv \in Ivs, text \in Answers :
          Len(encrypt_str_AES(k, iv, text)) + 1 <= 254 * (DefaultMtu - 3)

NoText == <<-1>>

VARIABLES
    is_connected,
    link,          \* the MTU of the connection (external)
    spp_mtu_size,
    tuned,         \* history: it was negotiated on this connection
    there,         \* the phone still hears what is sent (external)
    key,           \* the session key of the record
    pc,            \* the callback: "idle", "read", "answer" or "send"
    message,       \* the value of the write event
    data,          \* the string being sent
    total_num, current_num,
    rx,            \* the phone: characters since the last EOT
    wrote, wroteKey, heard,  \* history: what was written, and understood
    said, got      \* history: what was answered, and understood

conn == <<is_connected, link, tuned, there>>
sending == <<data, total_num, current_num>>
phone == <<rx, got>>
asked == <<message, wrote, wroteKey, heard>>
vars == <<conn, spp_mtu_size, key, pc, sending, phone, asked, said>>

Init ==
    /\ is_connected = FALSE /\ link = DefaultMtu /\ tuned = FALSE /\ there = FALSE
    /\ spp_mtu_size = 123
    /\ key = NoKey /\ pc = "idle"
    /\ message = <<>> /\ wrote = NoText /\ wroteKey = NoKey /\ heard = NoText
    /\ data = <<>> /\ total_num = 0 /\ current_num = 0
    /\ rx = <<>> /\ said = NoText /\ got = NoText

(* exit: the memory is gone, and with it the connection.                   *)
Restart ==
    /\ is_connected' = FALSE /\ link' = DefaultMtu /\ tuned' = FALSE /\ there' = FALSE
    /\ spp_mtu_size' = 123
    /\ key' = NoKey /\ pc' = "idle"
    /\ message' = <<>> /\ wrote' = NoText /\ wroteKey' = NoKey /\ heard' = NoText
    /\ data' = <<>> /\ total_num' = 0 /\ current_num' = 0
    /\ rx' = <<>> /\ said' = NoText /\ got' = NoText

-----------------------------------------------------------------------------
(* ESP_GATTS_CONNECT_EVT: the record starts over without a key.            *)
Connect ==
    /\ pc = "idle" /\ ~ is_connected
    /\ is_connected' = TRUE /\ link' = DefaultMtu /\ tuned' = FALSE /\ there' = TRUE
    /\ key' = NoKey
    /\ rx' = <<>> /\ got' = NoText /\ said' = NoText
    /\ UNCHANGED <<spp_mtu_size, pc, sending, asked>>

(* Variant of Negotiate: the first size agreed on stays.                   *)
NegotiateOnce(m) ==
    /\ pc = "idle" /\ is_connected /\ there /\ ~ tuned
    /\ link' = m /\ tuned' = TRUE
    /\ spp_mtu_size' = IF spp_mtu_size = 123 THEN m ELSE spp_mtu_size
    /\ UNCHANGED <<is_connected, there, key, pc, sending, phone, asked, said>>

(* ESP_GATTS_MTU_EVT; a phone negotiates at most once.                     *)
Negotiate(m) ==
    /\ pc = "idle" /\ is_connected /\ there /\ ~ tuned
    /\ link' = m /\ tuned' = TRUE
    /\ spp_mtu_size' = m
    /\ UNCHANGED <<is_connected, there, key, pc, sending, phone, asked, said>>

(* The phone goes away, at any time; its event waits for the callback.     *)
Leave ==
    /\ there /\ there' = FALSE
    /\ UNCHANGED <<is_connected, link, tuned, spp_mtu_size, key, pc, sending, phone, asked, said>>

(* ESP_GATTS_DISCONNECT_EVT: spp_mtu_size is left as it is.                *)
Disconnect ==
    /\ pc = "idle" /\ is_connected /\ ~ there
    /\ is_connected' = FALSE /\ tuned' = FALSE
    /\ UNCHANGED <<link, there, spp_mtu_size, key, pc, sending, phone, asked, said>>

-----------------------------------------------------------------------------
(* ESP_GATTS_WRITE_EVT.  A message that does not fit one write arrives as  *)
(* prepared writes, which the callback logs and drops.                     *)
Fits(len) == len <= link - 3

(* The credentials: retrieve_session_credentials installs a key, and RAC   *)
(* is the answer.                                                          *)
Install(k) ==
    /\ pc = "idle" /\ is_connected /\ there /\ key = NoKey
    /\ Fits(Credentials)
    /\ key' = k
    /\ pc' = "answer"
    /\ UNCHANGED <<conn, spp_mtu_size, sending, phone, asked, said>>

(* A command, under the key of this session or of another.                 *)
Write(k, iv, text, style) ==
    /\ pc = "idle" /\ is_connected /\ there /\ key # NoKey
    /\ Fits(Len(Written(k, iv, text, style)))
    /\ message' = Written(k, iv, text, style)
    /\ wrote' = text /\ wroteKey' = k /\ heard' = NoText
    /\ said' = NoText /\ got' = NoText
    /\ pc' = "read"
    /\ UNCHANGED <<conn, spp_mtu_size, key, sending, rx>>

(* decrypt_base64_AES; exit in removePadding restarts the device.          *)
Read ==
    /\ pc = "read"
    /\ IF Unpaddable(Padded(key, message))
       THEN /\ heard' = decrypt_base64_AES(key, message)
            /\ pc' = "answer"
            /\ UNCHANGED <<conn, spp_mtu_size, key, sending, phone, message, wrote, wroteKey, said>>
       ELSE Restart

(* What is left of the MTU for data.                                       *)
Size == spp_mtu_size - 3

(* Variant of Pieces: as if something was always left.                     *)
PiecesOver(len) == ((len \div Size) + 1) % 256

(* A message of len characters takes this many pieces.                     *)
Pieces(len) == (IF len % Size = 0 THEN len \div Size ELSE (len \div Size) + 1) % 256

(* encrypt_str_AES and the beginning of send_data_ble_s3.                  *)
Answer(iv, text) ==
    /\ pc = "answer"
    /\ data' = encrypt_str_AES(key, iv, text) \o <<EOT>>
    /\ total_num' = Pieces(Len(data'))
    /\ current_num' = 1
    /\ said' = text /\ got' = NoText
    /\ pc' = IF 1 <= total_num' THEN "send" ELSE "idle"
    /\ message' = <<>> /\ wrote' = NoText /\ wroteKey' = NoKey /\ heard' = NoText
    /\ UNCHANGED <<conn, spp_mtu_size, key, rx>>

(* The piece that goes out next; one that is all of the data is sent as it *)
(* is.                                                                     *)
Piece == SubSeq(data, (current_num - 1) * Size + 1,
                      IF current_num < total_num THEN current_num * Size ELSE Len(data))

(* What arrives of it: the stack cuts it to what the link takes.           *)
Arrived == IF there THEN SubSeq(Piece, 1, Min({Len(Piece), link - 3})) ELSE <<>>

(* The phone puts pieces together and decrypts at the EOT.                 *)
Collect(piece) ==
    LET all == rx \o piece
    IN  IF all # <<>> /\ all[Len(all)] = EOT
        THEN rx' = <<>> /\ got' = decrypt_base64_AES(key, SubSeq(all, 1, Len(all) - 1))
        ELSE rx' = all /\ got' = got

(* Variant of Indicate: pieces are counted from nought, as offsets are.    *)
IndicateFromZero ==
    /\ pc = "send"
    /\ Collect(Arrived)
    /\ LET next == (current_num + 1) % 256
       IN  IF next < total_num
           THEN current_num' = next /\ UNCHANGED <<pc, data, total_num>>
           ELSE pc' = "idle" /\ data' = <<>> /\ total_num' = 0 /\ current_num' = 0
    /\ UNCHANGED <<conn, spp_mtu_size, key, asked, said>>

(* One indication; after 20 ms the next, while current_num <= total_num,   *)
(* both of eight bits.                                                     *)
Indicate ==
    /\ pc = "send"
    /\ Collect(Arrived)
    /\ LET next == (current_num + 1) % 256
       IN  IF next <= total_num
           THEN current_num' = next /\ UNCHANGED <<pc, data, total_num>>
           ELSE pc' = "idle" /\ data' = <<>> /\ total_num' = 0 /\ current_num' = 0
    /\ UNCHANGED <<conn, spp_mtu_size, key, asked, said>>

Next ==
    \/ Connect \/ Leave \/ Disconnect
    \/ \E m \in Mtus : Negotiate(m)
    \/ \E k \in Keys : Install(k)
    \/ \E k \in Keys, iv \in Ivs, text \in Texts, style \in Styles : Write(k, iv, text, style)
    \/ Read
    \/ \E iv \in Ivs, text \in Answers : Answer(iv, text)
    \/ Indicate

Spec == Init /\ [][Next]_vars
-----------------------------------------------------------------------------
(* What the phone writes under the key of the record is what the lock      *)
(* reads, and what the lock answers is what the phone reads, piece by      *)
(* piece, whatever was negotiated on earlier connections: a phone that     *)
(* has not negotiated on this one cannot have sent its credentials.        *)
Understood ==
    /\ (pc = "answer" /\ wroteKey = key) => heard = wrote
    /\ (pc = "read" /\ wroteKey = key /\ wrote # <<>>) => Unpaddable(Padded(key, message))
    /\ (pc = "idle" /\ there /\ said # NoText) => got = said

(* Nothing is written behind a buffer: by the Base64 decoder, by           *)
(* encrypt_str_AES and the EOT that send_data_ble_s3 puts behind its       *)
(* string, whose buffer is short by two but for malloc's rounding, and by  *)
(* the pieces; and the eight bits of the count are enough.                 *)
InBuffers ==
    /\ pc = "read" =>
        \A word \in {CipherWord(message), IvWord(message)} :
            3 * LastFour(Counted(word)) <= DecodeRoom(Counted(word))
    /\ pc = "send" =>
        /\ \A iv \in Ivs : Len(base64_encode(iv)) + 1 <= EncodeRoom(Len(iv))
        /\ \E iv \in Ivs :
              /\ data = encrypt_str_AES(key, iv, said) \o <<EOT>>
              /\ Len(data) + 1 <= Granted(MessageRoom(key, iv, said))
        /\ current_num \in 1 .. total_num
        /\ Len(Piece) \in 1 .. (IF total_num = 1 THEN Len(data) ELSE Size)
=============================================================================
