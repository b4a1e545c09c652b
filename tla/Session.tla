------------------------------- MODULE Session -------------------------------
(***************************************************************************)
(* The sessions of a registered lock (registration status COMPLETE): the   *)
(* table of user_info.c, the TCP task of tcp_server.c, the BLE callbacks   *)
(* of ble_s3_server.c, checkCommand of tcp_server_handler.c, the stored    *)
(* lock state and its LED (nvs_util.c, lock_status.c), and the end of      *)
(* app_main, which restores them at boot.                                  *)
(*                                                                         *)
(* The TCP task serves one connection at a time and the Bluetooth task one *)
(* callback at a time, so there is one handler in progress per channel;    *)
(* the two channels and app_main interleave at the steps below, which are  *)
(* the places where one task can be preempted or waits.  A refused window  *)
(* or nonce (NonceCache) and a refused permission (Authorization) are      *)
(* nondeterministic here.                                                  *)
(***************************************************************************)
EXTENDS Integers, FiniteSets

CONSTANTS
    TcpAddrs, BleAddrs,   \* the addresses clients connect from
    Keys,                 \* what the table is indexed by: 4 address bytes
    KeyOf,                \* [TcpAddrs \cup BleAddrs -> Keys]
    NvsFails,             \* whether a write to flash may fail
    Sent,                 \* bound of the model: commands sent, per channel
    MaxConn               \* bound of the model: connections between resets

Addrs == TcpAddrs \cup BleAddrs
Chan == {"tcp", "ble"}
AddrsOf(c) == IF c = "tcp" THEN TcpAddrs ELSE BleAddrs

(* The first four characters of a dotted address never are those of a      *)
(* Bluetooth address, whose third character is a colon.                    *)
ASSUME KeyOfAssumption ==
    /\ KeyOf \in [Addrs -> Keys]
    /\ \A a \in TcpAddrs, b \in BleAddrs : KeyOf[a] # KeyOf[b]

(* The commands checkCommand knows; OTHER is everything else.              *)
Uses      == {"RUD", "RLD"}
Invites   == {"RNI", "RUI"}
Commands  == {"SAC", "RFI", "SNT", "RDS", "OTHER"} \cup Uses \cup Invites
(* What unlock_lock and lock_lock store and show; RDS calls lock_lock when *)
(* there is no position yet.                                               *)
Lock == [k \in Uses \cup {"RDS"} |-> IF k = "RUD" THEN "unlocked" ELSE "locked"]

(* Variant of Resetting: the reset is forgotten for RLD.                   *)
ResettingButRLD == {"RDS", "OTHER", "RUD"} \cup Invites

(* The commands that end with set_BLE_user_state_to_connecting().          *)
Resetting == {"RDS", "OTHER"} \cup Uses \cup Invites

ASSUME BoundsAssumption ==
    /\ NvsFails \in BOOLEAN
    /\ Sent \in [Chan -> SUBSET Commands]
    /\ MaxConn \in Nat

States == {"disconnected", "connecting", "connected", "authorized"}

VARIABLES
    state,     \* users_info: the state in the record of a key
    sess,      \* and the connection its AES key and seed were made for
               \* (0: none yet)
    addr,      \* addr_str and ble_user_addr
    open,      \* the socket; for BLE also: current_BLE_addr is not empty
    conn,      \* number of the connection, to tell connections apart
    last,      \* connections made since the last reset
    pc, cmd,   \* where the handler of a channel is, and its command
    lockState, \* "lock_state" in NVS; "unset" until first stored
    led,       \* led_status
    main,      \* where app_main is
    saved,     \* the local lock_state of init_led_lock_state
    cause,     \* history: why the device last restarted
    view,      \* history: the state the client expects to be in
    bumped,    \* history: a TCP command reset the BLE record in use
    proof,     \* history: the connection whose seed the last SAC answered
    uses       \* history: locks, unlocks and invites since that SAC (<= 2)

ram  == <<state, sess, addr, open, conn, last>>
ctl  == <<pc, cmd>>
door == <<lockState, led>>
boot == <<main, saved, cause>>
hist == <<view, bumped, proof, uses>>
vars == <<ram, ctl, door, boot, hist>>

NoAddr == "none"

K(c) == KeyOf[addr[c]]
State(c) == state[K(c)]

SetState(k, s) == [state EXCEPT ![k] = s]

-----------------------------------------------------------------------------
(* After power-on: everything but the flash starts from these values.      *)
EachKey(x) == [k \in Keys |-> x]
Each(x)    == [c \in Chan |-> x]

Init ==
    /\ state = EachKey("disconnected") /\ sess = EachKey(0)
    /\ addr = Each(NoAddr) /\ open = Each(FALSE) /\ conn = Each(0) /\ last = 0
    /\ pc = Each("idle") /\ cmd = Each("OTHER")
    /\ lockState = "unset" /\ led = "idle"
    /\ main = "start" /\ saved = "unset" /\ cause = "none"
    /\ view = Each("disconnected") /\ bumped = FALSE
    /\ proof = Each(0) /\ uses = Each(0)

Restart(why) ==
    /\ state' = EachKey("disconnected") /\ sess' = EachKey(0)
    /\ addr' = Each(NoAddr) /\ open' = Each(FALSE) /\ conn' = Each(0) /\ last' = 0
    /\ pc' = Each("idle") /\ cmd' = Each("OTHER")
    /\ UNCHANGED lockState /\ led' = "idle"
    /\ main' = "start" /\ saved' = "unset" /\ cause' = why
    /\ view' = Each("disconnected") /\ bumped' = FALSE
    /\ proof' = Each(0) /\ uses' = Each(0)

(* A reset, a brownout or the deep sleep of power_util.c, at any moment.   *)
Reset == Restart("reset")

-----------------------------------------------------------------------------
(* app_main: TCP starts and BLE messages are accepted once Wi-Fi is up;    *)
(* init_led_lock_state runs after that, below both in priority.            *)
MainOnline ==
    /\ main = "start"
    /\ main' = "read"
    /\ led' = "idle"
    /\ cause' = "none"
    /\ UNCHANGED <<ram, ctl, lockState, saved, hist>>

(* The result of set_lock_state is ignored by its callers.                 *)
set_lock_state(s) == lockState' \in {s} \cup (IF NvsFails THEN {lockState} ELSE {})

(* Variant of MainRead: get_lock_state has no default for a first read.    *)
MainReadNoDefault ==
    /\ main = "read"
    /\ main' = "write"
    /\ saved' = lockState
    /\ UNCHANGED <<ram, ctl, door, cause, hist>>

(* get_lock_state reads the position and tests for NOT_FOUND; the default  *)
(* for a first read is stored by later steps, whatever happens meanwhile.  *)
(* When NVS does not open, it returns no position.                         *)
MainRead ==
    /\ main = "read"
    /\ \/ lockState # "unset" /\ main' = "write" /\ saved' = lockState
       \/ lockState = "unset" /\ main' = "default" /\ UNCHANGED saved
       \/ NvsFails /\ main' = "done" /\ UNCHANGED saved
    /\ UNCHANGED <<ram, ctl, door, cause, hist>>

(* The lock_lock inside get_lock_state: flash first, then LED.             *)
MainDefault ==
    /\ main = "default"
    /\ main' = "shown"
    /\ set_lock_state("locked")
    /\ UNCHANGED <<ram, ctl, led, saved, cause, hist>>

MainDefaultLed ==
    /\ main = "shown"
    /\ main' = "write"
    /\ led' = "locked"
    /\ saved' = "locked"
    /\ UNCHANGED <<ram, ctl, lockState, cause, hist>>

(* init_led_lock_state sets what it read, flash first, then LED.           *)

MainWrite ==
    /\ main = "write"
    /\ main' = "led"
    /\ set_lock_state(saved)
    /\ UNCHANGED <<ram, ctl, led, saved, cause, hist>>

MainLed ==
    /\ main = "led"
    /\ main' = "done"
    /\ led' = saved
    /\ saved' = "unset"
    /\ UNCHANGED <<ram, ctl, lockState, cause, hist>>

app_main ==
    MainOnline \/ MainRead \/ MainDefault \/ MainDefaultLed \/ MainWrite \/ MainLed

-----------------------------------------------------------------------------
(* Variant of Connect: a record is only set up when it is DISCONNECTED.    *)
ConnectKeeps(c, a) ==
    /\ ~ open[c] /\ pc[c] = "idle"
    /\ last < MaxConn
    /\ c = "tcp" => main # "start"
    /\ open' = [open EXCEPT ![c] = TRUE]
    /\ addr' = [addr EXCEPT ![c] = a]
    /\ last' = last + 1
    /\ conn' = [conn EXCEPT ![c] = last + 1]
    /\ state' = IF state[KeyOf[a]] = "disconnected"
                THEN SetState(KeyOf[a], "connecting") ELSE state
    /\ view' = [view EXCEPT ![c] = "connecting"]
    /\ bumped' = (bumped /\ c # "ble")
    /\ UNCHANGED <<sess, ctl, door, boot, proof, uses>>

(* accept() returned, or ESP_GATTS_CONNECT_EVT: the record starts over.    *)
Connect(c, a) ==
    /\ ~ open[c] /\ pc[c] = "idle"
    /\ last < MaxConn
    /\ c = "tcp" => main # "start"
    /\ open' = [open EXCEPT ![c] = TRUE]
    /\ addr' = [addr EXCEPT ![c] = a]
    /\ last' = last + 1
    /\ conn' = [conn EXCEPT ![c] = last + 1]
    /\ state' = SetState(KeyOf[a], "connecting")
    /\ view' = [view EXCEPT ![c] = "connecting"]
    /\ bumped' = (bumped /\ c # "ble")
    /\ UNCHANGED <<sess, ctl, door, boot, proof, uses>>

(* The peer closed the connection: recv returned 0 or an error.  The       *)
(* record keeps its state.                                                 *)
TcpPeerClosed ==
    /\ open["tcp"] /\ pc["tcp"] = "idle"
    /\ open' = [open EXCEPT !["tcp"] = FALSE]
    /\ view' = [view EXCEPT !["tcp"] = "disconnected"]
    /\ UNCHANGED <<state, sess, addr, conn, last, ctl, door, boot, bumped, proof, uses>>

(* ESP_GATTS_DISCONNECT_EVT, queued behind the callback in progress.       *)
BleDisconnect ==
    /\ open["ble"] /\ pc["ble"] = "idle"
    /\ open' = [open EXCEPT !["ble"] = FALSE]
    /\ state' = SetState(K("ble"), "disconnected")
    /\ led'  = "idle"
    /\ view' = [view EXCEPT !["ble"] = "disconnected"]
    /\ UNCHANGED <<sess, addr, conn, last, ctl, lockState, boot, bumped, proof, uses>>

(* disconnect_sock.                                                        *)
CloseSock(st) ==
    /\ state' = [st EXCEPT ![K("tcp")] = "disconnected"]
    /\ open' = [open EXCEPT !["tcp"] = FALSE]
    /\ led'  = "idle"
    /\ view' = [view EXCEPT !["tcp"] = "disconnected"]

(* A message can be handled: BLE messages are dropped until Wi-Fi is up.   *)
Ready(c) == open[c] /\ pc[c] = "idle" /\ (c = "ble" => main # "start")

(* The peer is gone: send returns -1, which is subtracted from what is     *)
(* left to write, so the loop around it never ends.                        *)
SendFails(c) ==
    /\ c = "tcp"
    /\ pc'   = [pc EXCEPT ![c] = "sending"]
    /\ cmd'  = [cmd EXCEPT ![c] = "OTHER"]
    /\ view' = [view EXCEPT ![c] = "disconnected"]

(* A client that wants a session key sends SSC <key>, RSA-encrypted.  In   *)
(* state CONNECTING retrieve_session_credentials installs the key and a    *)
(* new seed goes out in RAC; in a later state the message is taken for an  *)
(* AES one, has no second word, and strlen(NULL) ends the program.         *)
Credentials(c) ==
    /\ Ready(c)
    /\ \/ /\ State(c) = "connecting"
          /\ state' = SetState(K(c), "connected")
          /\ sess' = [sess EXCEPT ![K(c)] = conn[c]]
          /\ \/ view' = [view EXCEPT ![c] = "connected"] /\ UNCHANGED ctl
             \/ SendFails(c)
          /\ UNCHANGED <<addr, open, conn, last, door, boot, bumped, proof, uses>>
       \/ /\ State(c) \in {"connected", "authorized"}
          /\ Restart("mismatch")

(* Not an SSC message, or a record that is DISCONNECTED: TCP closes the    *)
(* socket; BLE asks the peer to leave, BleDisconnect follows.              *)
BadCredentials(c) ==
    /\ Ready(c)
    /\ State(c) \in {"connecting", "disconnected"}
    /\ IF c = "tcp"
       THEN CloseSock(state) /\ UNCHANGED <<sess, addr, conn, last, lockState>>
       ELSE /\ view' = [view EXCEPT ![c] = "disconnected"]
            /\ UNCHANGED <<ram, door>>
    /\ UNCHANGED <<ctl, boot, bumped, proof, uses>>

(* A client sends a command under a session key.  A record in CONNECTING   *)
(* takes it for credentials: RSA fails, and its NULL result is used.       *)
Command(c, k) ==
    /\ Ready(c)
    /\ \/ /\ State(c) \in {"connected", "authorized"}
          /\ pc'  = [pc EXCEPT ![c] = "parse"]
          /\ cmd' = [cmd EXCEPT ![c] = k]
          /\ UNCHANGED <<ram, door, boot, hist>>
       \/ /\ State(c) = "connecting"
          /\ Restart("mismatch")

-----------------------------------------------------------------------------
(* checkCommand                                                            *)

Goto(c, l) == pc' = [pc EXCEPT ![c] = l] /\ UNCHANGED cmd

(* What follows parsing and the verdict on window and nonce: refused, or   *)
(* the check of the command.  RUI looks at the state before the verdict.   *)
Parse(c) ==
    /\ pc[c] = "parse"
    /\ \/ cmd[c] \in {"OTHER", "RFI"} /\ Goto(c, "nak")
       \/ cmd[c] \notin {"OTHER", "RFI", "RUI"} /\ \E l \in {"check", "nak"} : Goto(c, l)
       \/ cmd[c] = "RUI" /\ State(c) = "authorized" /\ \E l \in {"check", "nak"} : Goto(c, l)
    /\ UNCHANGED <<ram, door, boot, hist>>

(* RUI answers an unauthorised client, or one whose authorisation cannot   *)
(* be read from flash, with the NULL that "return false" makes.            *)
NullReply(c) ==
    /\ pc[c] = "parse" /\ cmd[c] = "RUI"
    /\ State(c) # "authorized" \/ NvsFails
    /\ Restart("nullReply")

(* getArgs got too few words: its clean-up frees args[-1], whatever is     *)
(* there; if the program survives, it answers NAK, after a reset of the    *)
(* BLE record only for RDS.                                                *)
FewArgs(c) ==
    /\ pc[c] = "parse" /\ cmd[c] \notin {"OTHER", "RFI"}
    /\ \/ Restart("fewArgs")
       \/ /\ Goto(c, IF cmd[c] = "RDS" THEN "nak" ELSE "nakAsIs")
          /\ UNCHANGED <<ram, door, boot, hist>>

(* check_authorization_code compares the code with the HMAC of the seed in *)
(* the record; s is the connection whose seed the client signed.  The      *)
(* phone may be unknown and the server unreachable.                        *)
CheckCode(c, s) ==
    /\ pc[c] = "check" /\ cmd[c] = "SAC"
    /\ \/ /\ s = sess[K(c)]
          /\ state' = SetState(K(c), "authorized")
          /\ proof' = [proof EXCEPT ![c] = s]
          /\ uses'  = [uses EXCEPT ![c] = 0]
          /\ Goto(c, "ack")
       \/ /\ Goto(c, "nak")
          /\ UNCHANGED <<state, proof, uses>>
    /\ UNCHANGED <<sess, addr, open, conn, last, door, boot, view, bumped>>

(* Variant of Permit: canUseLock does not look at the state.               *)
PermitAnyState(c) ==
    /\ pc[c] = "check" /\ cmd[c] \in Uses \cup Invites
    /\ \/ Goto(c, IF cmd[c] \in Invites THEN "invite" ELSE "store")
       \/ Goto(c, "nak")
    /\ UNCHANGED <<ram, door, boot, hist>>

(* canUseLock, and canCreateInvite for invites: the state is read here,    *)
(* used by the next steps.                                                 *)
Permit(c) ==
    /\ pc[c] = "check" /\ cmd[c] \in Uses \cup Invites
    /\ \/ State(c) = "authorized" /\ Goto(c, IF cmd[c] \in Invites THEN "invite" ELSE "store")
       \/ Goto(c, "nak")
    /\ UNCHANGED <<ram, door, boot, hist>>

Used(c) == uses' = [uses EXCEPT ![c] = IF @ = 2 THEN 2 ELSE @ + 1]

(* unlock_lock and lock_lock: flash first, the result ignored, then LED.   *)
Store(c) ==
    /\ pc[c] = "store"
    /\ set_lock_state(Lock[cmd[c]])
    /\ Used(c)
    /\ Goto(c, "led")
    /\ UNCHANGED <<ram, led, boot, view, bumped, proof>>

Led(c) ==
    /\ pc[c] = "led"
    /\ led' = Lock[cmd[c]]
    /\ Goto(c, "ack")
    /\ UNCHANGED <<ram, lockState, boot, hist>>

(* create_invite returned an id, or NULL, whose strlen ends the program    *)
(* before the test for NULL.                                               *)
Invite(c) ==
    /\ pc[c] = "invite"
    /\ \/ /\ Used(c)
          /\ Goto(c, "ack")
          /\ UNCHANGED <<ram, door, boot, view, bumped, proof>>
       \/ Restart("noInvite")

(* Variant of Inform: an unauthorised client gets no answer.               *)
InformSilent(c) ==
    /\ pc[c] = "check" /\ cmd[c] \in {"SNT", "RDS"}
    /\ State(c) = "authorized"
    /\ Goto(c, "ack")
    /\ UNCHANGED <<ram, door, boot, hist>>

(* SNT sends the notification; RDS goes on to read the lock state.         *)
Inform(c) ==
    /\ pc[c] = "check" /\ cmd[c] \in {"SNT", "RDS"}
    /\ Goto(c, IF State(c) # "authorized" THEN "nak" ELSE IF cmd[c] = "RDS" THEN "read" ELSE "ack")
    /\ UNCHANGED <<ram, door, boot, hist>>

(* Variant of ReadState: any error counts as NOT_FOUND.                    *)
ReadStateAnyError(c) ==
    /\ pc[c] = "read"
    /\ \/ lockState # "unset" /\ Goto(c, "ack")
       \/ (lockState = "unset" \/ NvsFails) /\ Goto(c, "default")
    /\ UNCHANGED <<ram, door, boot, hist>>

(* get_lock_state of RDS, with the same test and default as at boot.       *)
ReadState(c) ==
    /\ pc[c] = "read"
    /\ \/ (lockState # "unset" \/ NvsFails) /\ Goto(c, "ack")
       \/ lockState = "unset" /\ Goto(c, "default")
    /\ UNCHANGED <<ram, door, boot, hist>>

(* Its lock_lock; the LED follows with Led.                                *)
Default(c) ==
    /\ pc[c] = "default"
    /\ set_lock_state("locked")
    /\ Goto(c, "led")
    /\ UNCHANGED <<ram, led, boot, hist>>

-----------------------------------------------------------------------------
Resets(c) == cmd[c] \in Resetting /\ pc[c] \in {"ack", "nak"}

(* Variant of AfterCommand: the record of the caller is reset.             *)
AfterCommandCaller(c) == IF Resets(c) THEN SetState(K(c), "connecting") ELSE state

(* set_BLE_user_state_to_connecting, whichever channel the command is from.*)
AfterCommand(c) ==
    IF Resets(c) /\ open["ble"] THEN SetState(K("ble"), "connecting") ELSE state

(* What the client concludes from the answer.                              *)
ViewAfter(c) ==
    IF cmd[c] = "SAC" /\ pc[c] = "ack" THEN "authorized"
    ELSE IF c = "ble" /\ Resets(c) THEN "connecting"
    ELSE view[c]

(* The reset, the answer, and for TCP the end of the connection on NAK.    *)
Reply(c) ==
    /\ pc[c] \in {"ack", "nak", "nakAsIs"}
    /\ \/ /\ pc'  = [pc EXCEPT ![c] = "idle"]
          /\ cmd' = [cmd EXCEPT ![c] = "OTHER"]
          /\ IF c = "tcp" /\ pc[c] # "ack"
             THEN CloseSock(AfterCommand(c))
             ELSE /\ state' = AfterCommand(c)
                  /\ view' = [view EXCEPT ![c] = ViewAfter(c)]
                  /\ UNCHANGED <<open, led>>
       \/ /\ SendFails(c)
          /\ state' = AfterCommand(c)
          /\ UNCHANGED <<open, led>>
    /\ bumped' = IF Resets(c) /\ open["ble"] THEN c = "tcp" ELSE bumped
    /\ UNCHANGED <<sess, addr, conn, last, lockState, boot, proof, uses>>

-----------------------------------------------------------------------------
Handler(c) ==
    \/ Parse(c) \/ NullReply(c) \/ FewArgs(c)
    \/ \E s \in 1 .. MaxConn : CheckCode(c, s)
    \/ Permit(c) \/ Store(c) \/ Led(c) \/ Invite(c)
    \/ Inform(c) \/ ReadState(c) \/ Default(c)
    \/ Reply(c)

Client(c) ==
    \/ \E a \in AddrsOf(c) : Connect(c, a)
    \/ Credentials(c) \/ BadCredentials(c)
    \/ \E k \in Sent[c] : Command(c, k)

Next == \/ app_main
        \/ \E c \in Chan : Client(c) \/ Handler(c)
        \/ TcpPeerClosed \/ BleDisconnect
        \/ Reset

(* The scheduler runs both tasks, and calls to HTTP and flash return.      *)
Fairness == \A c \in Chan : WF_vars(Handler(c))

Spec == Init /\ [][Next]_vars

FairSpec == Spec /\ Fairness
-----------------------------------------------------------------------------
Causes == {"reset", "mismatch", "nullReply", "fewArgs", "noInvite"}

Steps == {"idle", "parse", "check", "store", "read", "default", "led", "invite",
          "ack", "nak", "nakAsIs", "sending"}

TypeOK ==
    /\ state \in [Keys -> States]
    /\ sess \in [Keys -> 0 .. MaxConn]
    /\ addr \in [Chan -> Addrs \cup {NoAddr}]
    /\ \A c \in Chan : addr[c] \in AddrsOf(c) \cup {NoAddr}
    /\ open \in [Chan -> BOOLEAN]
    /\ conn \in [Chan -> 0 .. MaxConn]
    /\ last \in 0 .. MaxConn
    /\ pc \in [Chan -> Steps]
    /\ cmd \in [Chan -> Commands]
    /\ lockState \in {"unset", "locked", "unlocked"}
    /\ led \in {"idle", "locked", "unlocked"}
    /\ main \in {"start", "read", "default", "shown", "write", "led", "done"}
    /\ saved \in {"unset", "locked", "unlocked"}
    /\ cause \in {"none"} \cup Causes
    /\ view \in [Chan -> States]
    /\ bumped \in BOOLEAN
    /\ proof \in [Chan -> 0 .. MaxConn]
    /\ uses \in [Chan -> 0 .. 2]

(* A lock, an unlock or an invite is carried out only for a client that    *)
(* answered, with SAC, the seed generated on the connection it is still    *)
(* using: neither a record left AUTHORIZED by an earlier client of the     *)
(* address nor a code for an earlier seed is enough.                       *)
Proved ==
    [][ \A c \in Chan :
          (pc[c] \in {"store", "invite"} /\ pc'[c] \in {"led", "ack"})
              => open[c] /\ proof[c] = conn[c] ]_vars

(* One SAC over Bluetooth serves for one lock, unlock or invite: no path   *)
(* through checkCommand that carried one out leaves the record AUTHORIZED, *)
(* whatever the TCP task does meanwhile.                                   *)
BleOneShot == uses["ble"] <= 1

(* The state in the table is the one the answers so far have told the      *)
(* client, between its messages.  Only the reset at the end of a command   *)
(* on the TCP channel can put a Bluetooth client out of step; a TCP client *)
(* never is.                                                               *)
InStep ==
    \A c \in Chan :
        (open[c] /\ pc[c] = "idle" /\ view[c] # "disconnected")
            => State(c) = view[c] \/ (c = "ble" /\ bumped)

(* Every command taken up is answered, or the device restarts, or the peer *)
(* went away first: no handler stays in the middle of a command, and the   *)
(* Bluetooth handler does not even while the TCP task is stuck in send.    *)
Answered == \A c \in Chan :
    pc[c] # "idle" ~> (pc[c] = "idle" \/ (c = "tcp" /\ pc[c] = "sending"))

(* The lock keeps the promise of DoorLock.  A client holds an              *)
(* authorisation when it answered the seed of its connection and is        *)
(* AUTHORIZED, or was when canUseLock looked, until the state is stored.   *)
Held(c) == /\ proof[c] = conn[c]
           /\ (open[c] /\ State(c) = "authorized") \/ pc[c] = "store"
Token   == [c \in Chan |-> Held(c)]

(* The boot is about to store again what it read, or what it put there     *)
(* itself; and these are about to store a default, having read no value.   *)
Restore == CASE main = "write" -> saved
             [] main = "shown" -> "locked"
             [] OTHER -> "unset"

Unset == {c \in Chan : pc[c] = "default"} \cup {r \in {"boot"} : main = "default"}

Promise == INSTANCE DoorLock WITH
    door <- lockState, token <- Token, restore <- Restore, unset <- Unset

DoorPromise == Promise!Spec

(* "Led GPIO pin number for the door status simulation": when nothing is   *)
(* being changed, a LED that shows a door position shows the stored one.   *)
LedTells ==
    (led # "idle" /\ main \notin {"shown", "write", "led"} /\ \A c \in Chan : pc[c] # "led")
        => led = lockState
=============================================================================
