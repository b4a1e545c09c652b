---------------------------- MODULE SessionProofs ----------------------------
(***************************************************************************)
(* Theorems about Session, for every set of addresses, keys and commands,  *)
(* and any number of connections.                                          *)
(***************************************************************************)
EXTENDS Session, TLAPS

(* A handler at work has a connection, and a connection has an address.    *)
Wired == \A c \in Chan : /\ pc[c] # "idle" => open[c]
                         /\ open[c] => addr[c] \in AddrsOf(c)

(* The step a handler is at belongs to its command.                        *)
Planned == \A c \in Chan : /\ pc[c] = "store" => cmd[c] \in Uses
                           /\ pc[c] = "led" => cmd[c] \in Uses \cup {"RDS"}
                           /\ pc[c] \in {"read", "default"} => cmd[c] = "RDS"
                           /\ pc[c] = "invite" => cmd[c] \in Invites

(* Key and seed of a record in use were made on the present connection.    *)
Seeded == \A c \in Chan :
    (/\ open[c]
     /\ State(c) \in {"connected", "authorized"} \/ pc[c] \in {"parse", "check"})
        => sess[K(c)] = conn[c]

(* An authorisation, and a permission drawn from it, rest on the seed of   *)
(* the present connection.                                                 *)
Signed == \A c \in Chan :
    ((open[c] /\ State(c) = "authorized") \/ pc[c] \in {"store", "invite"})
        => proof[c] = conn[c]

(* Over Bluetooth an authorisation that was used is only still in the      *)
(* table while the handler that used it has not finished.                  *)
Spent ==
    /\ pc["ble"] \in {"store", "invite"} => uses["ble"] = 0
    /\ (open["ble"] /\ State("ble") = "authorized" /\ uses["ble"] # 0)
           => /\ pc["ble"] \in {"led", "ack"}
              /\ cmd["ble"] \in Uses \cup Invites
    /\ uses["ble"] \in {0, 1}

(* A client that is served has not been sent away.                         *)
Known == \A c \in Chan :
    (/\ open[c] /\ pc[c] # "sending"
     /\ State(c) \in {"connected", "authorized"} \/ pc[c] # "idle")
        => view[c] # "disconnected"

(* InStep while a command is handled: the client will hear of its SAC.     *)
Expected(c) == IF pc[c] = "ack" /\ cmd[c] = "SAC" THEN "authorized" ELSE view[c]

Agreed == \A c \in Chan :
    (open[c] /\ view[c] # "disconnected")
        => \/ pc[c] # "sending" /\ State(c) = Expected(c)
           \/ c = "ble" /\ bumped

(* A boot writes back a position.                                          *)
Restoring == main \in {"write", "led"} => saved \in {"locked", "unlocked"}

(* The inductive invariant.                                                *)
IInv == /\ TypeOK /\ Wired /\ Planned /\ Restoring
        /\ Seeded /\ Signed /\ Spent /\ Known /\ Agreed

-----------------------------------------------------------------------------

(* The two channels never use the same record.                             *)
LEMMA KeysApart ==
    ASSUME NEW a \in TcpAddrs, NEW b \in BleAddrs
    PROVE  /\ KeyOf[a] \in Keys /\ KeyOf[b] \in Keys
           /\ KeyOf[a] # KeyOf[b]
  BY KeyOfAssumption DEF Addrs

(* The records of two open connections are in the table and differ.        *)
LEMMA TwoKeys ==
    ASSUME Wired, NEW c \in Chan, NEW d \in Chan, c # d, open[c], open[d]
    PROVE  K(c) \in Keys /\ K(d) \in Keys /\ K(c) # K(d)
  BY KeysApart DEF Wired, AddrsOf, Chan, K

(* The record of an open connection is in the table.                       *)
LEMMA OwnKey ==
    ASSUME Wired, NEW c \in Chan, open[c]
    PROVE  K(c) \in Keys
  BY KeyOfAssumption DEF Wired, AddrsOf, Addrs, K

(* The invariant holds after power-on.                                     *)
LEMMA InitInv == Init => IInv
<1> SUFFICES ASSUME Init PROVE IInv
  OBVIOUS
<1>1. TypeOK
  <2>0. MaxConn \in Nat
    BY BoundsAssumption
  <2>1. state \in [Keys -> States] /\ view \in [Chan -> States]
    BY DEF Init, EachKey, Each, States, TypeOK
  <2>2. /\ sess \in [Keys -> 0 .. MaxConn]
        /\ last \in 0 .. MaxConn
        /\ conn \in [Chan -> 0 .. MaxConn]
        /\ proof \in [Chan -> 0 .. MaxConn]
        /\ uses \in [Chan -> 0 .. 2]
    BY <2>0 DEF Init, EachKey, Each, TypeOK
  <2>3. addr \in [Chan -> Addrs \cup {NoAddr}]
        /\ \A x \in Chan : addr[x] \in AddrsOf(x) \cup {NoAddr}
    BY DEF Init, EachKey, Each, TypeOK, AddrsOf, Addrs
  <2>4. open \in [Chan -> BOOLEAN] /\ bumped \in BOOLEAN
    BY DEF Init, EachKey, Each, TypeOK
  <2>5. /\ pc \in [Chan -> Steps] /\ cmd \in [Chan -> Commands]
        /\ lockState \in {"unset", "locked", "unlocked"}
        /\ led \in {"idle", "locked", "unlocked"}
        /\ main \in {"start", "read", "default", "shown", "write", "led", "done"}
        /\ saved \in {"unset", "locked", "unlocked"}
        /\ cause \in {"none"} \cup Causes
    BY DEF Init, EachKey, Each, ctl, door, boot, Steps, Commands, TypeOK
  <2> QED
    BY <2>1, <2>2, <2>3, <2>4, <2>5 DEF TypeOK
<1> QED
  BY <1>1 DEF Init, IInv, Wired, Planned, Seeded, Signed, Spent, Known, Agreed,
              Expected, Restoring, Each, EachKey, Chan

-----------------------------------------------------------------------------
(* Every action preserves it; a restart establishes it from any state.     *)

(* A connection starts with a record in CONNECTING.                        *)
LEMMA ConnectStep ==
    ASSUME IInv, NEW c \in Chan, NEW a \in AddrsOf(c), Connect(c, a)
    PROVE  IInv'
<1> USE DEF IInv, Connect, ctl, door, boot
<1>1. TypeOK'
  <2>0. MaxConn \in Nat
    BY BoundsAssumption
  <2>1. state' \in [Keys -> States] /\ view' \in [Chan -> States]
    BY DEF SetState, States, TypeOK
  <2>2. /\ sess' \in [Keys -> 0 .. MaxConn]
        /\ last' \in 0 .. MaxConn
        /\ conn' \in [Chan -> 0 .. MaxConn]
        /\ proof' \in [Chan -> 0 .. MaxConn]
        /\ uses' \in [Chan -> 0 .. 2]
    BY <2>0 DEF SetState, TypeOK
  <2>3. addr' \in [Chan -> Addrs \cup {NoAddr}]
        /\ \A x \in Chan : addr'[x] \in AddrsOf(x) \cup {NoAddr}
    BY DEF SetState, TypeOK, AddrsOf, Addrs
  <2>4. open' \in [Chan -> BOOLEAN] /\ bumped' \in BOOLEAN
    BY DEF SetState, TypeOK
  <2>5. /\ pc' \in [Chan -> Steps] /\ cmd' \in [Chan -> Commands]
        /\ lockState' \in {"unset", "locked", "unlocked"}
        /\ led' \in {"idle", "locked", "unlocked"}
        /\ main' \in {"start", "read", "default", "shown", "write", "led", "done"}
        /\ saved' \in {"unset", "locked", "unlocked"}
        /\ cause' \in {"none"} \cup Causes
    BY DEF SetState, Steps, Commands, TypeOK
  <2> QED
    BY <2>1, <2>2, <2>3, <2>4, <2>5 DEF TypeOK
<1>2. Wired' /\ Planned' /\ Restoring'
  BY <1>1 DEF Wired, Planned, Restoring, TypeOK
<1>3. Seeded' /\ Signed'
  BY <1>1, KeysApart DEF Wired, Seeded, Signed, TypeOK, State, K, SetState, AddrsOf, Chan
<1>4. Spent'
  BY <1>1, KeysApart DEF Wired, Spent, TypeOK, State, K, SetState, AddrsOf, Chan
<1>5. Agreed'
  BY <1>1, KeysApart DEF Wired, Agreed, Expected, TypeOK, State, K, SetState, AddrsOf, Chan
<1>6. Known'
  <2>1. view'[c] = "connecting" /\ pc' = pc
    BY DEF TypeOK
  <2>2. ASSUME NEW d \in Chan, d # c, open'[d]
        PROVE  /\ open[d] /\ view'[d] = view[d]
               /\ state'[K(d)'] = state[K(d)]
    BY <2>2, KeysApart DEF Wired, TypeOK, K, SetState, AddrsOf, Chan
  <2> QED
    BY <2>1, <2>2 DEF Known, State
<1> QED
  BY <1>1, <1>2, <1>3, <1>4, <1>5, <1>6

(* A restart loses every connection and record.                            *)
LEMMA RestartStep ==
    ASSUME IInv, NEW w \in Causes, Restart(w)
    PROVE  IInv'
<1> USE DEF IInv, Restart, EachKey, Each, NoAddr, Commands, Causes
<1>1. TypeOK'
  <2>0. MaxConn \in Nat
    BY BoundsAssumption
  <2>1. state' \in [Keys -> States] /\ view' \in [Chan -> States]
    BY DEF States, TypeOK
  <2>2. /\ sess' \in [Keys -> 0 .. MaxConn]
        /\ last' \in 0 .. MaxConn
        /\ conn' \in [Chan -> 0 .. MaxConn]
        /\ proof' \in [Chan -> 0 .. MaxConn]
        /\ uses' \in [Chan -> 0 .. 2]
    BY <2>0 DEF TypeOK
  <2>3. addr' \in [Chan -> Addrs \cup {NoAddr}]
        /\ \A x \in Chan : addr'[x] \in AddrsOf(x) \cup {NoAddr}
    BY DEF TypeOK, Addrs
  <2>4. open' \in [Chan -> BOOLEAN] /\ bumped' \in BOOLEAN
    BY DEF TypeOK
  <2>5. /\ pc' \in [Chan -> Steps] /\ cmd' \in [Chan -> Commands]
        /\ lockState' \in {"unset", "locked", "unlocked"}
        /\ led' \in {"idle", "locked", "unlocked"}
        /\ main' \in {"start", "read", "default", "shown", "write", "led", "done"}
        /\ saved' \in {"unset", "locked", "unlocked"}
        /\ cause' \in {"none"} \cup Causes
    BY DEF Steps, TypeOK
  <2> QED
    BY <2>1, <2>2, <2>3, <2>4, <2>5 DEF TypeOK
<1>2. Wired' /\ Planned' /\ Restoring'
  BY <1>1 DEF Wired, Planned, Restoring, TypeOK
<1>3. Seeded' /\ Signed'
  BY <1>1 DEF Wired, Seeded, Signed, TypeOK, State, K
<1>4. Spent'
  BY <1>1 DEF Wired, Planned, Spent, TypeOK, State, K, Chan
<1>5. Agreed'
  BY <1>1 DEF Wired, Agreed, Expected, TypeOK, State, K
<1>6. Known'
  BY <1>1 DEF Wired, Known, TypeOK, State, K
<1> QED
  BY <1>1, <1>2, <1>3, <1>4, <1>5, <1>6

(* app_main: Wi-Fi is up.                                                  *)
LEMMA MainOnlineStep ==
    ASSUME IInv, MainOnline
    PROVE  IInv'
<1> USE DEF IInv, MainOnline, ram, ctl, hist
<1>1. TypeOK'
  BY BoundsAssumption DEF TypeOK, States, Steps
<1>2. Wired' /\ Planned' /\ Restoring'
  BY <1>1 DEF Wired, Planned, Restoring, TypeOK
<1>3. Seeded' /\ Signed'
  BY <1>1 DEF Wired, Seeded, Signed, TypeOK, State, K
<1>4. Spent'
  BY <1>1 DEF Wired, Planned, Spent, TypeOK, State, K, Chan
<1>5. Agreed'
  BY <1>1 DEF Wired, Agreed, Expected, TypeOK, State, K
<1>6. Known'
  BY <1>1 DEF Wired, Known, TypeOK, State, K
<1> QED
  BY <1>1, <1>2, <1>3, <1>4, <1>5, <1>6

(* app_main: get_lock_state reads.                                         *)
LEMMA MainReadStep ==
    ASSUME IInv, MainRead
    PROVE  IInv'
<1> USE DEF IInv, MainRead, ram, ctl, door, hist
<1>1. TypeOK'
  BY BoundsAssumption DEF TypeOK, States, Steps
<1>2. Wired' /\ Planned' /\ Restoring'
  BY <1>1 DEF Wired, Planned, Restoring, TypeOK
<1>3. Seeded' /\ Signed'
  BY <1>1 DEF Wired, Seeded, Signed, TypeOK, State, K
<1>4. Spent'
  BY <1>1 DEF Wired, Planned, Spent, TypeOK, State, K, Chan
<1>5. Agreed'
  BY <1>1 DEF Wired, Agreed, Expected, TypeOK, State, K
<1>6. Known'
  BY <1>1 DEF Wired, Known, TypeOK, State, K
<1> QED
  BY <1>1, <1>2, <1>3, <1>4, <1>5, <1>6

(* app_main: get_lock_state stores its default.                            *)
LEMMA MainDefaultStep ==
    ASSUME IInv, MainDefault
    PROVE  IInv'
<1> USE DEF IInv, MainDefault, set_lock_state, ram, ctl, hist
<1>1. TypeOK'
  BY BoundsAssumption DEF TypeOK, States, Steps
<1>2. Wired' /\ Planned' /\ Restoring'
  BY <1>1 DEF Wired, Planned, Restoring, TypeOK
<1>3. Seeded' /\ Signed'
  BY <1>1 DEF Wired, Seeded, Signed, TypeOK, State, K
<1>4. Spent'
  BY <1>1 DEF Wired, Planned, Spent, TypeOK, State, K, Chan
<1>5. Agreed'
  BY <1>1 DEF Wired, Agreed, Expected, TypeOK, State, K
<1>6. Known'
  BY <1>1 DEF Wired, Known, TypeOK, State, K
<1> QED
  BY <1>1, <1>2, <1>3, <1>4, <1>5, <1>6

(* app_main: the default's LED; it is what get_lock_state returns.         *)
LEMMA MainDefaultLedStep ==
    ASSUME IInv, MainDefaultLed
    PROVE  IInv'
<1> USE DEF IInv, MainDefaultLed, ram, ctl, hist
<1>1. TypeOK'
  BY BoundsAssumption DEF TypeOK, States, Steps
<1>2. Wired' /\ Planned' /\ Restoring'
  BY <1>1 DEF Wired, Planned, Restoring, TypeOK
<1>3. Seeded' /\ Signed'
  BY <1>1 DEF Wired, Seeded, Signed, TypeOK, State, K
<1>4. Spent'
  BY <1>1 DEF Wired, Planned, Spent, TypeOK, State, K, Chan
<1>5. Agreed'
  BY <1>1 DEF Wired, Agreed, Expected, TypeOK, State, K
<1>6. Known'
  BY <1>1 DEF Wired, Known, TypeOK, State, K
<1> QED
  BY <1>1, <1>2, <1>3, <1>4, <1>5, <1>6

(* app_main: set_lock_state.                                               *)
LEMMA MainWriteStep ==
    ASSUME IInv, MainWrite
    PROVE  IInv'
<1> USE DEF IInv, MainWrite, set_lock_state, ram, ctl, hist
<1>1. TypeOK'
  BY BoundsAssumption DEF TypeOK, States, Steps
<1>2. Wired' /\ Planned' /\ Restoring'
  BY <1>1 DEF Wired, Planned, Restoring, TypeOK
<1>3. Seeded' /\ Signed'
  BY <1>1 DEF Wired, Seeded, Signed, TypeOK, State, K
<1>4. Spent'
  BY <1>1 DEF Wired, Planned, Spent, TypeOK, State, K, Chan
<1>5. Agreed'
  BY <1>1 DEF Wired, Agreed, Expected, TypeOK, State, K
<1>6. Known'
  BY <1>1 DEF Wired, Known, TypeOK, State, K
<1> QED
  BY <1>1, <1>2, <1>3, <1>4, <1>5, <1>6

(* app_main: set_led_status.                                               *)
LEMMA MainLedStep ==
    ASSUME IInv, MainLed
    PROVE  IInv'
<1> USE DEF IInv, MainLed, ram, ctl, hist
<1>1. TypeOK'
  BY BoundsAssumption DEF TypeOK, Restoring, States, Steps
<1>2. Wired' /\ Planned' /\ Restoring'
  BY <1>1 DEF Wired, Planned, Restoring, TypeOK
<1>3. Seeded' /\ Signed'
  BY <1>1 DEF Wired, Seeded, Signed, TypeOK, State, K
<1>4. Spent'
  BY <1>1 DEF Wired, Planned, Spent, TypeOK, State, K, Chan
<1>5. Agreed'
  BY <1>1 DEF Wired, Agreed, Expected, TypeOK, State, K
<1>6. Known'
  BY <1>1 DEF Wired, Known, TypeOK, State, K
<1> QED
  BY <1>1, <1>2, <1>3, <1>4, <1>5, <1>6

(* The TCP peer leaves; its record stays.                                  *)
LEMMA TcpPeerClosedStep ==
    ASSUME IInv, TcpPeerClosed
    PROVE  IInv'
<1> USE DEF IInv, TcpPeerClosed, ctl, door, boot
<1>1. TypeOK'
  BY BoundsAssumption DEF TypeOK, States, Steps
<1>2. Wired' /\ Planned' /\ Restoring'
  BY <1>1 DEF Wired, Planned, Restoring, TypeOK
<1>3. Seeded' /\ Signed'
  BY <1>1, KeysApart DEF Wired, Seeded, Signed, TypeOK, State, K, AddrsOf, Chan
<1>4. Spent'
  BY <1>1, KeysApart DEF Wired, Planned, Spent, TypeOK, State, K, AddrsOf, Chan
<1>5. Agreed'
  BY <1>1, KeysApart DEF Wired, Agreed, Expected, TypeOK, State, K, AddrsOf, Chan
<1>6. Known'
  BY <1>1, KeysApart DEF Wired, Known, TypeOK, State, K, AddrsOf, Chan
<1> QED
  BY <1>1, <1>2, <1>3, <1>4, <1>5, <1>6

(* The Bluetooth peer leaves; its record is DISCONNECTED.                  *)
LEMMA BleDisconnectStep ==
    ASSUME IInv, BleDisconnect
    PROVE  IInv'
<1> USE DEF IInv, BleDisconnect, SetState, ctl, boot
<1>1. TypeOK'
  BY BoundsAssumption DEF TypeOK, States, Steps
<1>2. Wired' /\ Planned' /\ Restoring'
  BY <1>1 DEF Wired, Planned, Restoring, TypeOK
<1>3. Seeded' /\ Signed'
  BY <1>1, KeysApart DEF Wired, Seeded, Signed, TypeOK, State, K, AddrsOf, Chan
<1>4. Spent'
  BY <1>1, KeysApart DEF Wired, Planned, Spent, TypeOK, State, K, AddrsOf, Chan
<1>5. Agreed'
  BY <1>1, KeysApart DEF Wired, Agreed, Expected, TypeOK, State, K, AddrsOf, Chan
<1>6. Known'
  BY <1>1, KeysApart DEF Wired, Known, TypeOK, State, K, AddrsOf, Chan
<1> QED
  BY <1>1, <1>2, <1>3, <1>4, <1>5, <1>6

(* A session key and a seed for the present connection.                    *)
LEMMA CredentialsStep ==
    ASSUME IInv, NEW c \in Chan, Credentials(c), ~ \E w \in Causes : Restart(w)
    PROVE  IInv'
<1> USE DEF IInv, Credentials, Ready, SendFails, SetState, Commands, Causes,
            ctl, door, boot
<1>1. TypeOK'
  BY BoundsAssumption DEF TypeOK, States, Steps
<1>2. Wired' /\ Planned' /\ Restoring'
  BY <1>1 DEF Wired, Planned, Restoring, TypeOK
<1>3. Seeded' /\ Signed'
  BY <1>1, KeysApart DEF Wired, Seeded, Signed, TypeOK, State, K, AddrsOf, Chan
<1>4. Spent'
  BY <1>1, KeysApart DEF Wired, Planned, Spent, TypeOK, State, K, AddrsOf, Chan
<1>5. Agreed'
  <2> SUFFICES ASSUME NEW d \in Chan, open[d], view'[d] # "disconnected",
                      ~ (d = "ble" /\ bumped)
               PROVE  pc'[d] # "sending" /\ State(d)' = Expected(d)'
    BY DEF Agreed
  <2>1. /\ open[c] /\ pc[c] = "idle"
        /\ K(c) \in Keys
        /\ state' = [state EXCEPT ![K(c)] = "connected"]
        /\ K(d)' = K(d)
    BY OwnKey DEF K
  <2>2. CASE d # c
    <3>1. K(d) # K(c)
      BY <2>1, <2>2, TwoKeys
    <3>2. /\ state'[K(d)] = state[K(d)] /\ view'[d] = view[d]
          /\ pc'[d] = pc[d] /\ cmd'[d] = cmd[d]
      BY <2>1, <2>2, <3>1 DEF TypeOK
    <3>3. pc[d] # "sending" /\ State(d) = Expected(d)
      BY <3>2 DEF Agreed
    <3> QED
      BY <2>1, <3>2, <3>3 DEF State, Expected
  <2>3. CASE d = c
    <3>1. view' = [view EXCEPT ![c] = "connected"] /\ UNCHANGED ctl
      BY <2>3 DEF TypeOK
    <3> QED
      BY <2>1, <2>3, <3>1 DEF State, Expected, TypeOK
  <2> QED
    BY <2>2, <2>3
<1>6. Known'
  BY <1>1, KeysApart DEF Wired, Known, TypeOK, State, K, AddrsOf, Chan
<1> QED
  BY <1>1, <1>2, <1>3, <1>4, <1>5, <1>6

(* The client is sent away.                                                *)
LEMMA BadCredentialsStep ==
    ASSUME IInv, NEW c \in Chan, BadCredentials(c)
    PROVE  IInv'
<1> USE DEF IInv, BadCredentials, Ready, CloseSock, ram, ctl, door, boot
<1>1. TypeOK'
  BY BoundsAssumption DEF TypeOK, States, Steps
<1>2. Wired' /\ Planned' /\ Restoring'
  BY <1>1 DEF Wired, Planned, Restoring, TypeOK
<1>3. Seeded' /\ Signed'
  BY <1>1, KeysApart DEF Wired, Seeded, Signed, TypeOK, State, K, AddrsOf, Chan
<1>4. Spent'
  BY <1>1, KeysApart DEF Wired, Planned, Spent, TypeOK, State, K, AddrsOf, Chan
<1>5. Agreed'
  BY <1>1, KeysApart DEF Wired, Agreed, Expected, TypeOK, State, K, AddrsOf, Chan
<1>6. Known'
  BY <1>1, KeysApart DEF Wired, Known, TypeOK, State, K, AddrsOf, Chan
<1> QED
  BY <1>1, <1>2, <1>3, <1>4, <1>5, <1>6

(* A command is taken up.                                                  *)
LEMMA CommandStep ==
    ASSUME IInv, NEW c \in Chan, NEW k \in Sent[c], Command(c, k),
           ~ \E w \in Causes : Restart(w)
    PROVE  IInv'
<1> USE DEF IInv, Command, Ready, Causes, ram, door, boot, hist
<1>1. TypeOK'
  BY BoundsAssumption DEF TypeOK, States, Steps
<1>2. Wired' /\ Planned' /\ Restoring'
  BY <1>1 DEF Wired, Planned, Restoring, TypeOK
<1>3. Seeded' /\ Signed'
  BY <1>1 DEF Wired, Seeded, Signed, TypeOK, State, K
<1>4. Spent'
  BY <1>1 DEF Wired, Planned, Spent, TypeOK, State, K, Chan
<1>5. Agreed'
  BY <1>1 DEF Wired, Agreed, Expected, TypeOK, State, K
<1>6. Known'
  BY <1>1 DEF Wired, Known, TypeOK, State, K
<1> QED
  BY <1>1, <1>2, <1>3, <1>4, <1>5, <1>6

(* A command is parsed.                                                    *)
LEMMA ParseStep ==
    ASSUME IInv, NEW c \in Chan, Parse(c)
    PROVE  IInv'
<1> USE DEF IInv, Parse, Goto, ram, door, boot, hist
<1>1. TypeOK'
  BY BoundsAssumption DEF TypeOK, States, Steps
<1>2. Wired' /\ Planned' /\ Restoring'
  BY <1>1 DEF Wired, Planned, Restoring, TypeOK
<1>3. Seeded' /\ Signed'
  BY <1>1 DEF Wired, Seeded, Signed, TypeOK, State, K
<1>4. Spent'
  BY <1>1 DEF Wired, Planned, Spent, TypeOK, State, K, Chan
<1>5. Agreed'
  BY <1>1 DEF Wired, Agreed, Expected, TypeOK, State, K
<1>6. Known'
  BY <1>1 DEF Wired, Known, TypeOK, State, K
<1> QED
  BY <1>1, <1>2, <1>3, <1>4, <1>5, <1>6

(* A command with too few words is refused.                                *)
LEMMA FewArgsStep ==
    ASSUME IInv, NEW c \in Chan, FewArgs(c), ~ \E w \in Causes : Restart(w)
    PROVE  IInv'
<1> USE DEF IInv, FewArgs, Goto, Causes, ram, door, boot, hist
<1>1. TypeOK'
  BY BoundsAssumption DEF TypeOK, States, Steps
<1>2. Wired' /\ Planned' /\ Restoring'
  BY <1>1 DEF Wired, Planned, Restoring, TypeOK
<1>3. Seeded' /\ Signed'
  BY <1>1 DEF Wired, Seeded, Signed, TypeOK, State, K
<1>4. Spent'
  BY <1>1 DEF Wired, Planned, Spent, TypeOK, State, K, Chan
<1>5. Agreed'
  BY <1>1 DEF Wired, Agreed, Expected, TypeOK, State, K
<1>6. Known'
  BY <1>1 DEF Wired, Known, TypeOK, State, K
<1> QED
  BY <1>1, <1>2, <1>3, <1>4, <1>5, <1>6

(* SAC ties the authorisation to the seed of the record.                   *)
LEMMA CheckCodeStep ==
    ASSUME IInv, NEW c \in Chan, NEW s \in 1 .. MaxConn, CheckCode(c, s)
    PROVE  IInv'
<1> USE DEF IInv, CheckCode, Goto, SetState, door, boot
<1>1. TypeOK'
  BY BoundsAssumption DEF TypeOK, States, Steps
<1>2. Wired' /\ Planned' /\ Restoring'
  BY <1>1 DEF Wired, Planned, Restoring, TypeOK
<1>3. Seeded' /\ Signed'
  BY <1>1, KeysApart DEF Wired, Seeded, Signed, TypeOK, State, K, AddrsOf, Chan
<1>4. Spent'
  BY <1>1, KeysApart DEF Wired, Planned, Spent, TypeOK, State, K, AddrsOf, Chan
<1>5. Agreed'
  <2> SUFFICES ASSUME NEW d \in Chan, open[d], view[d] # "disconnected",
                      ~ (d = "ble" /\ bumped)
               PROVE  pc'[d] # "sending" /\ State(d)' = Expected(d)'
    BY DEF Agreed
  <2>1. pc[d] # "sending" /\ State(d) = Expected(d)
    BY DEF Agreed
  <2>2. open[c] /\ K(c) \in Keys
    BY OwnKey DEF Wired
  <2>3. K(d)' = K(d) /\ view'[d] = view[d] /\ cmd'[d] = cmd[d]
    BY DEF K
  <2>4. CASE d # c
    <3>1. K(d) \in Keys /\ K(d) # K(c)
      BY <2>2, <2>4, OwnKey, TwoKeys
    <3>2. state'[K(d)] = state[K(d)] /\ pc'[d] = pc[d]
      BY <2>2, <2>4, <3>1 DEF TypeOK
    <3> QED
      BY <2>1, <2>3, <3>2 DEF State, Expected
  <2>5. CASE d = c /\ pc'[c] = "ack"
    BY <2>2, <2>3, <2>5 DEF State, Expected, TypeOK
  <2>6. CASE d = c /\ pc'[c] # "ack"
    BY <2>1, <2>3, <2>6 DEF State, Expected, TypeOK
  <2> QED
    BY <2>4, <2>5, <2>6
<1>6. Known'
  BY <1>1, KeysApart DEF Wired, Known, TypeOK, State, K, AddrsOf, Chan
<1> QED
  BY <1>1, <1>2, <1>3, <1>4, <1>5, <1>6

(* canUseLock passes only an AUTHORIZED record.                            *)
LEMMA PermitStep ==
    ASSUME IInv, NEW c \in Chan, Permit(c)
    PROVE  IInv'
<1> USE DEF IInv, Permit, Goto, Uses, Invites, ram, door, boot, hist
<1>1. TypeOK'
  BY BoundsAssumption DEF TypeOK, States, Steps
<1>2. Wired' /\ Planned' /\ Restoring'
  BY <1>1 DEF Wired, Planned, Restoring, TypeOK
<1>3. Seeded' /\ Signed'
  BY <1>1 DEF Wired, Seeded, Signed, TypeOK, State, K
<1>4. Spent'
  BY <1>1 DEF Wired, Planned, Spent, TypeOK, State, K, Chan
<1>5. Agreed'
  BY <1>1 DEF Wired, Agreed, Expected, TypeOK, State, K
<1>6. Known'
  BY <1>1 DEF Wired, Known, TypeOK, State, K
<1> QED
  BY <1>1, <1>2, <1>3, <1>4, <1>5, <1>6

(* The position is stored: the authorisation is used.                      *)
LEMMA StoreStep ==
    ASSUME IInv, NEW c \in Chan, Store(c)
    PROVE  IInv'
<1> USE DEF IInv, Store, Goto, Used, set_lock_state, Lock, Uses, ram, boot
<1>1. TypeOK'
  BY BoundsAssumption DEF TypeOK, Planned, States, Steps
<1>2. Wired' /\ Planned' /\ Restoring'
  BY <1>1 DEF Wired, Planned, Restoring, TypeOK
<1>3. Seeded' /\ Signed'
  BY <1>1 DEF Wired, Seeded, Signed, TypeOK, State, K
<1>4. Spent'
  BY <1>1 DEF Wired, Planned, Spent, TypeOK, State, K, Chan
<1>5. Agreed'
  BY <1>1 DEF Wired, Agreed, Expected, TypeOK, State, K
<1>6. Known'
  BY <1>1 DEF Wired, Known, TypeOK, State, K
<1> QED
  BY <1>1, <1>2, <1>3, <1>4, <1>5, <1>6

(* The LED follows.                                                        *)
LEMMA LedStep ==
    ASSUME IInv, NEW c \in Chan, Led(c)
    PROVE  IInv'
<1> USE DEF IInv, Led, Goto, Lock, Uses, ram, boot, hist
<1>1. TypeOK'
  BY BoundsAssumption DEF TypeOK, Planned, States, Steps
<1>2. Wired' /\ Planned' /\ Restoring'
  BY <1>1 DEF Wired, Planned, Restoring, TypeOK
<1>3. Seeded' /\ Signed'
  BY <1>1 DEF Wired, Seeded, Signed, TypeOK, State, K
<1>4. Spent'
  BY <1>1 DEF Wired, Planned, Spent, TypeOK, State, K, Chan
<1>5. Agreed'
  BY <1>1 DEF Wired, Agreed, Expected, Planned, TypeOK, State, K
<1>6. Known'
  BY <1>1 DEF Wired, Known, TypeOK, State, K
<1> QED
  BY <1>1, <1>2, <1>3, <1>4, <1>5, <1>6

(* An invite is made: the authorisation is used.                           *)
LEMMA InviteStep ==
    ASSUME IInv, NEW c \in Chan, Invite(c), ~ \E w \in Causes : Restart(w)
    PROVE  IInv'
<1> USE DEF IInv, Invite, Goto, Used, Causes, ram, door, boot
<1>1. TypeOK'
  BY BoundsAssumption DEF TypeOK, States, Steps
<1>2. Wired' /\ Planned' /\ Restoring'
  BY <1>1 DEF Wired, Planned, Restoring, TypeOK
<1>3. Seeded' /\ Signed'
  BY <1>1 DEF Wired, Seeded, Signed, TypeOK, Invites, State, K
<1>4. Spent'
  BY <1>1 DEF Wired, Planned, Spent, TypeOK, Invites, State, K, Chan
<1>5. Agreed'
  BY <1>1 DEF Wired, Agreed, Expected, Planned, TypeOK, Invites, State, K
<1>6. Known'
  BY <1>1 DEF Wired, Known, TypeOK, State, K
<1> QED
  BY <1>1, <1>2, <1>3, <1>4, <1>5, <1>6

(* RDS reads the position, and leaves the sessions alone.                  *)
LEMMA ReadStateStep ==
    ASSUME IInv, NEW c \in Chan, ReadState(c)
    PROVE  IInv'
<1> USE DEF IInv, ReadState, Goto, ram, door, boot, hist
<1>1. TypeOK'
  BY BoundsAssumption DEF TypeOK, States, Steps
<1>2. Wired' /\ Planned' /\ Restoring'
  BY <1>1 DEF Wired, Planned, Restoring, TypeOK
<1>3. Seeded' /\ Signed'
  BY <1>1 DEF Wired, Seeded, Signed, TypeOK, State, K
<1>4. Spent'
  BY <1>1 DEF Wired, Planned, Spent, TypeOK, State, K, Chan
<1>5. Agreed'
  BY <1>1 DEF Wired, Agreed, Expected, Planned, TypeOK, State, K
<1>6. Known'
  BY <1>1 DEF Wired, Known, TypeOK, State, K
<1> QED
  BY <1>1, <1>2, <1>3, <1>4, <1>5, <1>6

(* RDS stores the default: no authorisation is used.                       *)
LEMMA DefaultStep ==
    ASSUME IInv, NEW c \in Chan, Default(c)
    PROVE  IInv'
<1> USE DEF IInv, Default, Goto, set_lock_state, ram, boot, hist
<1>1. TypeOK'
  BY BoundsAssumption DEF TypeOK, States, Steps
<1>2. Wired' /\ Planned' /\ Restoring'
  BY <1>1 DEF Wired, Planned, Restoring, TypeOK
<1>3. Seeded' /\ Signed'
  BY <1>1 DEF Wired, Seeded, Signed, TypeOK, State, K
<1>4. Spent'
  BY <1>1 DEF Wired, Planned, Spent, TypeOK, State, K, Chan
<1>5. Agreed'
  BY <1>1 DEF Wired, Agreed, Expected, Planned, TypeOK, State, K
<1>6. Known'
  BY <1>1 DEF Wired, Known, TypeOK, State, K
<1> QED
  BY <1>1, <1>2, <1>3, <1>4, <1>5, <1>6

(* SNT and RDS look at the state only.                                     *)
LEMMA InformStep ==
    ASSUME IInv, NEW c \in Chan, Inform(c)
    PROVE  IInv'
<1> USE DEF IInv, Inform, Goto, ram, door, boot, hist
<1>1. TypeOK'
  BY BoundsAssumption DEF TypeOK, States, Steps
<1>2. Wired' /\ Planned' /\ Restoring'
  BY <1>1 DEF Wired, Planned, Restoring, TypeOK
<1>3. Seeded' /\ Signed'
  BY <1>1 DEF Wired, Seeded, Signed, TypeOK, State, K
<1>4. Spent'
  BY <1>1 DEF Wired, Planned, Spent, TypeOK, State, K, Chan
<1>5. Agreed'
  BY <1>1 DEF Wired, Agreed, Expected, TypeOK, State, K
<1>6. Known'
  BY <1>1 DEF Wired, Known, TypeOK, State, K
<1> QED
  BY <1>1, <1>2, <1>3, <1>4, <1>5, <1>6

(* A reply changes the record of the Bluetooth client only by the reset,   *)
(* and that of a TCP client only by closing its connection.                *)
LEMMA ReplyRecords ==
    ASSUME IInv, NEW c \in Chan, Reply(c)
    PROVE  /\ open'["ble"] = open["ble"] /\ UNCHANGED addr
           /\ open["ble"] => state'[K("ble")] = IF Resets(c) THEN "connecting"
                                                ELSE state[K("ble")]
           /\ open'["tcp"] => open["tcp"] /\ state'[K("tcp")] = state[K("tcp")]
<1> USE DEF IInv
<1>1. open'["ble"] = open["ble"] /\ UNCHANGED addr
  BY DEF Reply, CloseSock, SendFails, TypeOK, Chan
<1>2. CASE c = "tcp" /\ pc'[c] = "idle" /\ pc[c] # "ack"
  <2>1. open["tcp"] /\ K("tcp") \in Keys
    BY <1>2, OwnKey DEF Wired, Reply, Chan
  <2>2. open' = [open EXCEPT !["tcp"] = FALSE]
    BY <1>2 DEF Reply, CloseSock, SendFails, TypeOK
  <2>3. state' = [AfterCommand(c) EXCEPT ![K("tcp")] = "disconnected"]
    BY <1>2 DEF Reply, CloseSock, SendFails, TypeOK
  <2>4. ASSUME open["ble"] PROVE K("ble") \in Keys /\ K("ble") # K("tcp")
    BY <2>1, <2>4, TwoKeys DEF Chan
  <2> QED
    BY <1>1, <2>1, <2>2, <2>3, <2>4 DEF AfterCommand, SetState, TypeOK, Chan
<1>3. CASE ~ (c = "tcp" /\ pc'[c] = "idle" /\ pc[c] # "ack")
  <2>1. state' = AfterCommand(c) /\ UNCHANGED open
    BY <1>3 DEF Reply, SendFails, TypeOK, CloseSock
  <2>2. ASSUME open["ble"] PROVE K("ble") \in Keys
    BY <2>2, OwnKey DEF Chan
  <2>3. ASSUME open["ble"], open["tcp"] PROVE K("ble") # K("tcp")
    BY <2>3, TwoKeys DEF Chan
  <2> QED
    BY <1>1, <2>1, <2>2, <2>3 DEF AfterCommand, SetState, TypeOK
<1> QED
  BY <1>2, <1>3

(* The reset and the answer.                                               *)
LEMMA ReplyStep ==
    ASSUME IInv, NEW c \in Chan, Reply(c)
    PROVE  IInv'
<1> USE DEF IInv, Reply, SendFails, CloseSock, AfterCommand, ViewAfter,
            Resets, Resetting, SetState, Commands, Uses, Invites, boot
<1>1. TypeOK'
  <2>0. MaxConn \in Nat
    BY BoundsAssumption
  <2>1. state' \in [Keys -> States] /\ view' \in [Chan -> States]
    BY DEF States, TypeOK
  <2>2. /\ sess' \in [Keys -> 0 .. MaxConn]
        /\ last' \in 0 .. MaxConn
        /\ conn' \in [Chan -> 0 .. MaxConn]
        /\ proof' \in [Chan -> 0 .. MaxConn]
        /\ uses' \in [Chan -> 0 .. 2]
    BY <2>0 DEF TypeOK
  <2>3. addr' \in [Chan -> Addrs \cup {NoAddr}]
        /\ \A x \in Chan : addr'[x] \in AddrsOf(x) \cup {NoAddr}
    BY DEF TypeOK, AddrsOf, Addrs
  <2>4. open' \in [Chan -> BOOLEAN] /\ bumped' \in BOOLEAN
    BY DEF TypeOK
  <2>5. /\ pc' \in [Chan -> Steps] /\ cmd' \in [Chan -> Commands]
        /\ lockState' \in {"unset", "locked", "unlocked"}
        /\ led' \in {"idle", "locked", "unlocked"}
        /\ main' \in {"start", "read", "default", "shown", "write", "led", "done"}
        /\ saved' \in {"unset", "locked", "unlocked"}
        /\ cause' \in {"none"} \cup Causes
    BY DEF Steps, TypeOK
  <2> QED
    BY <2>1, <2>2, <2>3, <2>4, <2>5 DEF TypeOK
<1>2. Wired' /\ Planned' /\ Restoring'
  BY <1>1 DEF Wired, Planned, Restoring, TypeOK
<1>3. Seeded' /\ Signed'
  BY <1>1, KeysApart DEF Wired, Seeded, Signed, TypeOK, State, K, AddrsOf, Chan
<1>4. Spent'
  <2>1. UNCHANGED uses /\ \A d \in Chan : d # c => pc'[d] = pc[d] /\ cmd'[d] = cmd[d]
    BY DEF TypeOK
  <2>2. pc[c] \in {"ack", "nak", "nakAsIs"} /\ pc'[c] \in {"idle", "sending"}
    BY DEF TypeOK
  <2>3. pc'["ble"] \in {"store", "invite"} => uses'["ble"] = 0
    BY <2>1, <2>2 DEF Spent, Chan
  <2>4. ASSUME open'["ble"], State("ble")' = "authorized", uses'["ble"] # 0
        PROVE  pc'["ble"] \in {"led", "ack"} /\ cmd'["ble"] \in Uses \cup Invites
    <3>1. ~ Resets(c) /\ open["ble"] /\ State("ble") = "authorized"
      BY <2>4, ReplyRecords DEF State, K
    <3>2. pc["ble"] \in {"led", "ack"} /\ cmd["ble"] \in Uses \cup Invites
      BY <2>1, <2>4, <3>1 DEF Spent
    <3>3. c # "ble"
      BY <2>2, <3>1, <3>2
    <3> QED
      BY <2>1, <3>2, <3>3 DEF Chan
  <2> QED
    BY <2>1, <2>3, <2>4 DEF Spent
<1>5. Agreed'
  <2> SUFFICES ASSUME NEW d \in Chan, open'[d], view'[d] # "disconnected",
                      ~ (d = "ble" /\ bumped')
               PROVE  pc'[d] # "sending" /\ State(d)' = Expected(d)'
    BY DEF Agreed
  <2>1. open[d] /\ K(d)' = K(d)
    BY ReplyRecords DEF K, Chan
  <2>2. pc[c] \in {"ack", "nak", "nakAsIs"}
  OBVIOUS
  <2>3. CASE d # c
    <3>1. pc'[d] = pc[d] /\ cmd'[d] = cmd[d] /\ view'[d] = view[d]
      BY <2>3 DEF TypeOK
    <3>2. d = "ble" => ~ Resets(c) /\ ~ bumped
      BY <2>1, <2>3 DEF Chan
    <3>3. State(d)' = State(d)
      BY <2>1, <3>2, ReplyRecords DEF State, Chan
    <3> QED
      BY <2>1, <3>1, <3>2, <3>3 DEF Agreed, Expected
  <2>4. CASE d = c
    <3>1. /\ pc'[c] = "idle" /\ cmd'[c] = "OTHER"
          /\ view'[c] = ViewAfter(c)
          /\ c = "tcp" => pc[c] = "ack"
      BY <2>4 DEF TypeOK, Chan
    <3>2. CASE c = "ble" /\ Resets(c)
      BY <2>1, <2>4, <3>1, <3>2, ReplyRecords DEF State, Expected
    <3>3. CASE ~ (c = "ble" /\ Resets(c))
      <4>1. State(c)' = State(c)
        BY <2>1, <2>4, <3>3, ReplyRecords DEF State, Chan
      <4>2. ~ (c = "ble" /\ bumped)
        BY <2>4, <3>3
      <4>3. view[c] # "disconnected"
        BY <2>1, <2>2, <2>4 DEF Known
      <4> QED
        BY <2>1, <2>4, <3>1, <3>3, <4>1, <4>2, <4>3 DEF Agreed, Expected
    <3> QED
      BY <3>2, <3>3
  <2> QED
    BY <2>3, <2>4
<1>6. Known'
  BY <1>1, KeysApart DEF Wired, Known, TypeOK, State, K, AddrsOf, Chan
<1> QED
  BY <1>1, <1>2, <1>3, <1>4, <1>5, <1>6
(* The invariant is inductive: one lemma above for each action.            *)
LEMMA InvStep == IInv /\ [Next]_vars => IInv'
<1> SUFFICES ASSUME IInv, [Next]_vars PROVE IInv'
  OBVIOUS
<1>1. CASE \E w \in Causes : Restart(w)
  BY <1>1, RestartStep
<1>2. CASE ~ \E w \in Causes : Restart(w)
  <2>1. CASE app_main
    BY <2>1, MainOnlineStep, MainReadStep, MainDefaultStep, MainDefaultLedStep,
       MainWriteStep, MainLedStep DEF app_main
  <2>2. ASSUME NEW c \in Chan, Client(c) PROVE IInv'
    BY <1>2, <2>2, ConnectStep, CredentialsStep, BadCredentialsStep, CommandStep DEF Client
  <2>3. ASSUME NEW c \in Chan, Handler(c) PROVE IInv'
    <3>1. ~ NullReply(c)
      BY <1>2 DEF NullReply, Causes
    <3>2. CASE Parse(c) \/ FewArgs(c) \/ \E s \in 1 .. MaxConn : CheckCode(c, s)
      BY <1>2, <3>2, ParseStep, FewArgsStep, CheckCodeStep
    <3>3. CASE Permit(c) \/ Store(c) \/ Led(c)
      BY <3>3, PermitStep, StoreStep, LedStep
    <3>4. CASE Invite(c) \/ Reply(c)
      BY <1>2, <3>4, InviteStep, ReplyStep
    <3>5. CASE Inform(c) \/ ReadState(c) \/ Default(c)
      BY <3>5, InformStep, ReadStateStep, DefaultStep
    <3> QED
      BY <2>3, <3>1, <3>2, <3>3, <3>4, <3>5 DEF Handler
  <2>4. CASE TcpPeerClosed \/ BleDisconnect
    BY <2>4, TcpPeerClosedStep, BleDisconnectStep
  <2>5. CASE UNCHANGED vars
    <3>1. UNCHANGED <<state, sess, addr, open, conn, last, pc, cmd, lockState, led,
                      main, saved, cause, view, bumped, proof, uses>>
      BY <2>5 DEF vars, ram, ctl, door, boot, hist
    <3> QED
      BY <3>1 DEF IInv, TypeOK, Wired, Planned, Seeded, Signed, Spent, Known, Agreed,
                  Expected, Restoring, State, K
  <2>6. ~ Reset
    BY <1>2 DEF Reset, Causes
  <2> QED
    BY <2>1, <2>2, <2>3, <2>4, <2>5, <2>6 DEF Next
<1> QED
  BY <1>1, <1>2

(* The inductive invariant holds throughout.                              *)
THEOREM Invariant == Spec => []IInv
  BY InitInv, InvStep, PTL DEF Spec

(* The variables keep their types.                                         *)
THEOREM TypeCorrect == Spec => []TypeOK
  BY Invariant, PTL DEF IInv

(* One authorisation over Bluetooth serves for at most one lock, unlock or *)
(* invite, for any interleaving with the TCP task.                         *)
THEOREM OneShot == Spec => []BleOneShot
<1>1. IInv => BleOneShot
  BY DEF IInv, Spent, BleOneShot
<1> QED
  BY <1>1, Invariant, PTL

(* Between messages the table holds the state the client was told, unless  *)
(* a TCP command reset the record of the Bluetooth client.                 *)
THEOREM ClientsInStep == Spec => []InStep
<1>1. IInv => InStep
  BY DEF IInv, Agreed, Expected, InStep
<1> QED
  BY <1>1, Invariant, PTL

(* Only a client that answered the seed of its present connection makes    *)
(* the lock act.                                                           *)
THEOREM ActsAreProved == Spec => Proved
<1>1. IInv /\ [Next]_vars =>
        [ \A c \in Chan :
            (pc[c] \in {"store", "invite"} /\ pc'[c] \in {"led", "ack"})
                => open[c] /\ proof[c] = conn[c] ]_vars
  BY DEF IInv, Wired, Signed
<1> QED
  BY <1>1, Invariant, PTL DEF Spec, Proved

-----------------------------------------------------------------------------
(* Session implements DoorLock.                                            *)

(* By the invariant the proof is always there: holding an authorisation is *)
(* being AUTHORIZED, or about to store.                                    *)
Acts(c) == (open[c] /\ State(c) = "authorized") \/ pc[c] = "store"

LEMMA TokenActs ==
    ASSUME IInv, IInv'
    PROVE  /\ Token = [c \in Chan |-> Acts(c)]
           /\ Token' = [c \in Chan |-> Acts(c)']
<1>1. \A c \in Chan : Held(c) = Acts(c)
  BY Zenon DEF IInv, Signed, Held, Acts
<1>2. \A c \in Chan : Held(c)' = Acts(c)'
  BY Zenon DEF IInv, Signed, Held, Acts
<1> QED
  BY <1>1, <1>2, Zenon DEF Token

(* What leaves the stored state alone and authorises nobody is a Drop.     *)
LEMMA Weaker ==
    ASSUME IInv, IInv',
           \A c \in Chan : Acts(c)' => Acts(c),
           UNCHANGED <<lockState, Restore, Unset>>
    PROVE  Promise!Drop
<1> DEFINE S == {c \in Chan : Acts(c) /\ ~ Acts(c)'}
<1>1. \A c \in Chan : Acts(c)' = (Acts(c) /\ c \notin S)
  BY Zenon DEF Acts, IInv, TypeOK
<1>2. Token' = [c \in Chan |-> Token[c] /\ c \notin S]
  BY <1>1, TokenActs, Zenon
<1>3. S \in SUBSET Chan
  OBVIOUS
<1> QED
  BY <1>2, <1>3, Zenon DEF Promise!Drop

(* Initial states map to initial states.                                   *)
LEMMA RefInit == Init => Promise!Init
<1> SUFFICES ASSUME Init PROVE Promise!Init
  OBVIOUS
<1>1. \A c \in Chan : Held(c) = FALSE
  BY DEF Init, Held, Each
<1>2. Token = [c \in Chan |-> FALSE]
  BY <1>1, Zenon DEF Token
<1>3. Unset = {}
  BY DEF Init, Unset, Each
<1> QED
  BY <1>2, <1>3 DEF Init, Promise!Init, Restore

(* A restart is a Restart.                                                 *)
LEMMA RestartRef ==
    ASSUME NEW w \in Causes, Restart(w)
    PROVE  Promise!Restart
<1>1. \A c \in Chan : Held(c)' = FALSE
  BY DEF Restart, Held, Each
<1>2. Token' = [c \in Chan |-> FALSE]
  BY <1>1, Zenon DEF Token
<1>3. Unset' = {}
  BY DEF Restart, Unset, Each
<1> QED
  BY <1>2, <1>3 DEF Restart, Promise!Restart, Restore

(* The end of app_main is BootRead and BootWrite, after a first boot's     *)
(* SeeNone and Default.                                                    *)
LEMMA BootRef ==
    ASSUME IInv, IInv', app_main
    PROVE  Promise!Next
<1> USE DEF IInv
<1>0. "boot" \in Promise!Readers /\ UNCHANGED pc
  BY DEF Promise!Readers, app_main, MainOnline, MainRead, MainDefault, MainDefaultLed,
         MainWrite, MainLed, ctl
<1>1. \A c \in Chan : Acts(c)' = Acts(c)
  BY DEF app_main, MainOnline, MainRead, MainDefault, MainDefaultLed, MainWrite, MainLed,
         ram, ctl, Acts, State, K
<1>2. Token' = Token
  BY <1>1, TokenActs, Zenon
<1>3. CASE MainOnline \/ MainLed \/ MainDefaultLed
  <2>1. UNCHANGED <<lockState, Restore, Unset>>
    BY <1>0, <1>3 DEF MainOnline, MainLed, MainDefaultLed, Restore, Unset
  <2> QED
    BY <1>1, <2>1, Weaker DEF Promise!Next
<1>4. CASE MainRead
  <2>1. CASE main' = "done"
    <3>1. UNCHANGED <<lockState, Restore, Unset>>
      BY <1>0, <1>4, <2>1 DEF MainRead, Restore, Unset, door
    <3> QED
      BY <1>1, <3>1, Weaker DEF Promise!Next
  <2>2. CASE main' = "default"
    <3>1. UNCHANGED <<lockState, Restore>> /\ lockState = "unset"
      BY <1>4, <2>2 DEF MainRead, Restore, door
    <3>2. Unset' = Unset \cup {"boot"}
      BY <1>0, <1>4, <2>2 DEF MainRead, Unset
    <3> QED
      BY <1>0, <1>2, <3>1, <3>2 DEF Promise!Next, Promise!SeeNone
  <2>3. CASE main' = "write"
    <3>1. lockState' = lockState /\ Restore' = lockState /\ lockState # "unset"
      BY <1>4, <2>3 DEF MainRead, Restore, door
    <3>2. Unset' = Unset
      BY <1>0, <1>4, <2>3 DEF MainRead, Unset
    <3> QED
      BY <1>2, <3>1, <3>2 DEF Promise!Next, Promise!BootRead
  <2> QED
    BY <1>4, <2>1, <2>2, <2>3 DEF MainRead
<1>5. CASE MainDefault
  <2>1. /\ lockState' \in {lockState, "locked"} /\ Restore' = "locked"
        /\ main = "default" /\ main' = "shown"
    BY <1>5 DEF MainDefault, set_lock_state, Restore
  <2>2. "boot" \in Unset /\ Unset' = Unset \ {"boot"}
    BY <1>0, <2>1 DEF Unset, Chan
  <2> QED
    BY <1>0, <1>2, <2>1, <2>2 DEF Promise!Next, Promise!Default
<1>6. CASE MainWrite
  <2>1. /\ Restore # "unset" /\ Restore' = "unset"
        /\ lockState' \in {lockState, Restore}
    BY <1>6 DEF MainWrite, Restoring, Restore, set_lock_state
  <2>2. Unset' = Unset
    BY <1>0, <1>6 DEF MainWrite, Unset
  <2> QED
    BY <1>2, <2>1, <2>2 DEF Promise!Next, Promise!BootWrite
<1> QED
  BY <1>3, <1>4, <1>5, <1>6 DEF app_main

(* Connections come and go without authorising anybody.                    *)
LEMMA LinkRef ==
    ASSUME IInv, IInv',
           ~ \E w \in Causes : Restart(w),
           \/ \E c \in Chan : Client(c)
           \/ TcpPeerClosed \/ BleDisconnect
    PROVE  Promise!Drop
<1> USE DEF IInv
<1>1. ASSUME NEW c \in Chan, NEW a \in AddrsOf(c), Connect(c, a)
      PROVE  \A d \in Chan : Acts(d)' => Acts(d)
  BY <1>1, KeysApart DEF Connect, Acts, State, K, SetState, TypeOK, Wired,
                         AddrsOf, Chan, ctl
<1>2. ASSUME NEW c \in Chan, Credentials(c)
      PROVE  \A d \in Chan : Acts(d)' => Acts(d)
  BY <1>2, KeysApart DEF Credentials, Causes, Ready, SendFails, Acts, State, K,
                         SetState, TypeOK, Wired, AddrsOf, Chan, ctl
<1>3. ASSUME NEW c \in Chan, BadCredentials(c)
      PROVE  \A d \in Chan : Acts(d)' => Acts(d)
  BY <1>3, KeysApart DEF BadCredentials, Ready, CloseSock, Acts, State, K, TypeOK,
                         Wired, AddrsOf, Chan, ctl, ram
<1>4. ASSUME NEW c \in Chan, NEW k \in Sent[c], Command(c, k)
      PROVE  \A d \in Chan : Acts(d)' => Acts(d)
  BY <1>4 DEF Command, Causes, Ready, Acts, State, K, TypeOK, ram
<1>5. CASE TcpPeerClosed
  <2>1. \A d \in Chan : Acts(d)' => Acts(d)
    BY <1>5 DEF TcpPeerClosed, Acts, State, K, TypeOK, ctl, Chan
  <2> QED
    BY <1>5, <2>1, Weaker DEF TcpPeerClosed, ctl, door, boot, Restore, Unset
<1>6. CASE BleDisconnect
  <2>1. \A d \in Chan : Acts(d)' => Acts(d)
    BY <1>6, KeysApart DEF BleDisconnect, Acts, State, K, SetState, TypeOK, Wired,
                           AddrsOf, Chan, ctl
  <2> QED
    BY <1>6, <2>1, Weaker DEF BleDisconnect, ctl, boot, Restore, Unset
<1>7. ASSUME NEW c \in Chan, Client(c) PROVE Promise!Drop
  <2>1. \A d \in Chan : Acts(d)' => Acts(d)
    BY <1>1, <1>2, <1>3, <1>4, <1>7 DEF Client
  <2>2. UNCHANGED <<lockState, Restore>>
    BY <1>7 DEF Client, Connect, Credentials, BadCredentials, Command, Causes,
                door, boot, Restore
  <2>3. main' = main /\ \A d \in Chan : pc'[d] = "default" <=> pc[d] = "default"
    BY <1>7 DEF Client, Connect, Credentials, BadCredentials, Command, Causes, Ready,
                SendFails, TypeOK, boot, ctl
  <2>4. Unset' = Unset
    BY <2>3 DEF Unset
  <2> QED
    BY <2>1, <2>2, <2>4, Weaker
<1> QED
  BY <1>5, <1>6, <1>7

(* What keeps a handler away from the default keeps the set of readers     *)
(* that are about to store it.                                             *)
LEMMA UnsetStays ==
    ASSUME IInv, NEW c \in Chan, pc[c] # "default", pc'[c] # "default",
           \A d \in Chan : d # c => pc'[d] = pc[d], main' = main
    PROVE  Unset' = Unset
  BY DEF Unset

(* SAC is Grant, storing a position is Operate, and no other step of a     *)
(* command touches the promise, save a first read by RDS.                  *)
LEMMA CheckCodeRef ==
    ASSUME IInv, IInv', NEW c \in Chan, NEW s \in 1 .. MaxConn, CheckCode(c, s)
    PROVE  Promise!Next
<1> USE DEF IInv
<1>0. Unset' = Unset
  <2>1. pc[c] = "check" /\ pc'[c] \in {"ack", "nak"} /\ main' = main
        /\ \A d \in Chan : d # c => pc'[d] = pc[d]
    BY DEF CheckCode, Goto, TypeOK, boot
  <2> QED
    BY <2>1, UnsetStays
<1>1. UNCHANGED <<lockState, Restore, Unset>>
  BY <1>0 DEF CheckCode, door, boot, Restore
<1>2. open[c] /\ K(c) \in Keys
  BY OwnKey DEF Wired, CheckCode
<1>3. ASSUME NEW d \in Chan, d # c PROVE Acts(d)' = Acts(d)
  BY <1>2, <1>3, TwoKeys DEF CheckCode, Goto, SetState, Acts, State, K, TypeOK
<1>4. CASE pc'[c] = "ack"
  <2>1. Acts(c)' = TRUE
    BY <1>2, <1>4 DEF CheckCode, Goto, SetState, Acts, State, K, TypeOK
  <2>2. Token' = [Token EXCEPT ![c] = TRUE]
    BY <1>3, <2>1, TokenActs, Zenon
  <2> QED
    BY <1>1, <2>2 DEF Promise!Next, Promise!Grant
<1>5. CASE pc'[c] # "ack"
  <2>1. \A d \in Chan : Acts(d)' => Acts(d)
    BY <1>5 DEF CheckCode, Goto, Acts, State, K, TypeOK
  <2> QED
    BY <1>1, <2>1, Weaker DEF Promise!Next
<1> QED
  BY <1>4, <1>5

(* Storing a position is Operate, or nothing when flash fails.             *)
LEMMA StoreRef ==
    ASSUME IInv, IInv', NEW c \in Chan, Store(c)
    PROVE  Promise!Next
<1> USE DEF IInv
<1>0. pc[c] = "store" /\ pc'[c] = "led" /\ main' = main
      /\ \A d \in Chan : d # c => pc'[d] = pc[d]
  BY DEF Store, Goto, TypeOK, boot
<1>1. Restore' = Restore /\ Unset' = Unset /\ UNCHANGED ram
  BY <1>0, UnsetStays DEF Store, boot, Restore
<1>2. Acts(c) = TRUE
  BY DEF Store, Acts
<1>3. ASSUME NEW d \in Chan, d # c PROVE Acts(d)' = Acts(d)
  BY <1>1, <1>3 DEF Store, Goto, Acts, State, K, ram, TypeOK
<1>4. CASE lockState' = lockState
  BY <1>1, <1>2, <1>3, <1>4, Weaker DEF Promise!Next
<1>5. CASE lockState' # lockState
  <2>1. lockState' \in Promise!Positions
    BY <1>5 DEF Store, set_lock_state, Planned, Lock, Uses, Promise!Positions
  <2>2. Token[c]
    BY <1>2, TokenActs
  <2>3. Acts(c)' \in BOOLEAN
    BY DEF Acts, TypeOK
  <2>4. CASE Acts(c)' = TRUE
    <3>1. Token' = Token
      BY <1>2, <1>3, <2>4, TokenActs, Zenon
    <3> QED
      BY <1>1, <2>1, <2>2, <3>1 DEF Promise!Next, Promise!Operate
  <2>5. CASE Acts(c)' = FALSE
    <3>1. Token' = [Token EXCEPT ![c] = FALSE]
      BY <1>3, <2>5, TokenActs, Zenon
    <3> QED
      BY <1>1, <2>1, <2>2, <3>1 DEF Promise!Next, Promise!Operate
  <2> QED
    BY <2>3, <2>4, <2>5
<1> QED
  BY <1>4, <1>5

(* A read by RDS is SeeNone, or nothing.                                   *)
LEMMA ReadStateRef ==
    ASSUME IInv, IInv', NEW c \in Chan, ReadState(c)
    PROVE  Promise!Next
<1> USE DEF IInv
<1>1. /\ UNCHANGED <<ram, lockState>> /\ Restore' = Restore
      /\ pc[c] = "read" /\ main' = main
      /\ \A d \in Chan : d # c => pc'[d] = pc[d]
  BY DEF ReadState, Goto, door, boot, Restore, TypeOK
<1>2. \A d \in Chan : Acts(d)' = Acts(d)
  BY <1>1 DEF ReadState, Goto, Acts, State, K, ram, TypeOK
<1>3. CASE pc'[c] = "default"
  <2>1. lockState = "unset"
    BY <1>3 DEF ReadState, Goto, TypeOK
  <2>2. Unset' = Unset \cup {c} /\ c \in Promise!Readers
    BY <1>1, <1>3 DEF Unset, Chan, Promise!Readers
  <2>3. Token' = Token
    BY <1>2, TokenActs, Zenon
  <2> QED
    BY <1>1, <2>1, <2>2, <2>3 DEF Promise!Next, Promise!SeeNone
<1>4. CASE pc'[c] # "default"
  BY <1>1, <1>2, <1>4, UnsetStays, Weaker DEF Promise!Next
<1> QED
  BY <1>3, <1>4

(* Its default is Default.                                                 *)
LEMMA DefaultRef ==
    ASSUME IInv, IInv', NEW c \in Chan, Default(c)
    PROVE  Promise!Next
<1> USE DEF IInv
<1>1. /\ UNCHANGED ram /\ Restore' = Restore /\ lockState' \in {lockState, "locked"}
      /\ pc[c] = "default" /\ pc'[c] = "led" /\ main' = main
      /\ \A d \in Chan : d # c => pc'[d] = pc[d]
  BY DEF Default, set_lock_state, Goto, boot, Restore, TypeOK
<1>2. \A d \in Chan : Acts(d)' = Acts(d)
  BY <1>1 DEF Acts, State, K, ram
<1>3. Token' = Token
  BY <1>2, TokenActs, Zenon
<1>4. c \in Unset /\ Unset' = Unset \ {c} /\ c \in Promise!Readers /\ c # "boot"
  BY <1>1 DEF Unset, Chan, Promise!Readers
<1> QED
  BY <1>1, <1>3, <1>4 DEF Promise!Next, Promise!Default

(* The other steps of a command.                                           *)
LEMMA HandlerRef ==
    ASSUME IInv, IInv',
           ~ \E w \in Causes : Restart(w),
           NEW c \in Chan, Handler(c)
    PROVE  Promise!Next
<1> USE DEF IInv
<1>1. ~ NullReply(c)
  BY DEF NullReply, Causes
<1>2. CASE Parse(c) \/ FewArgs(c) \/ Permit(c) \/ Led(c) \/ Invite(c) \/ Inform(c)
  <2>1. UNCHANGED ram /\ UNCHANGED lockState /\ Restore' = Restore
    BY <1>2 DEF Parse, FewArgs, Permit, Led, Invite, Inform, Causes, door, boot, Restore
  <2>2. \A d \in Chan : Acts(d)' => Acts(d)
    BY <1>2, <2>1 DEF Parse, FewArgs, Permit, Led, Invite, Inform, Wired, Causes, Goto,
                      Acts, State, K, ram, TypeOK
  <2>3. pc[c] # "default" /\ pc'[c] # "default" /\ main' = main
        /\ \A d \in Chan : d # c => pc'[d] = pc[d]
    BY <1>2 DEF Parse, FewArgs, Permit, Led, Invite, Inform, Causes, Goto, TypeOK, boot
  <2> QED
    BY <2>1, <2>2, <2>3, UnsetStays, Weaker DEF Promise!Next
<1>3. CASE ReadState(c) \/ Default(c)
  BY <1>3, ReadStateRef, DefaultRef
<1>4. CASE Reply(c)
  <2>1. UNCHANGED lockState /\ Restore' = Restore
    BY <1>4 DEF Reply, boot, Restore
  <2>2. \A d \in Chan : Acts(d)' => Acts(d)
    BY <1>4, ReplyRecords DEF Reply, SendFails, Acts, State, K, TypeOK, Chan
  <2>3. pc[c] # "default" /\ pc'[c] # "default" /\ main' = main
        /\ \A d \in Chan : d # c => pc'[d] = pc[d]
    BY <1>4 DEF Reply, SendFails, TypeOK, boot
  <2> QED
    BY <2>1, <2>2, <2>3, UnsetStays, Weaker DEF Promise!Next
<1> QED
  BY <1>1, <1>2, <1>3, <1>4, CheckCodeRef, StoreRef DEF Handler

(* The stored state of the lock changes only on behalf of a client that    *)
(* holds an authorisation, or as the device's own boot does.               *)
THEOREM KeepsPromise == Spec => DoorPromise
<1>1. IInv /\ IInv' /\ [Next]_vars => [Promise!Next]_(Promise!vars)
  <2> SUFFICES ASSUME IInv, IInv', [Next]_vars
               PROVE  [Promise!Next]_(Promise!vars)
    OBVIOUS
  <2>1. CASE \E w \in Causes : Restart(w)
    BY <2>1, RestartRef DEF Promise!Next
  <2>2. CASE UNCHANGED vars
    <3>1. UNCHANGED <<state, addr, open, conn, proof, pc, lockState, main, saved>>
      BY <2>2 DEF vars, ram, ctl, door, boot, hist
    <3>2. \A c \in Chan : Held(c)' = Held(c)
      BY <3>1 DEF Held, State, K
    <3>3. Token' = Token /\ Restore' = Restore /\ Unset' = Unset
      BY <3>1, <3>2, Zenon DEF Token, Restore, Unset
    <3> QED
      BY <3>1, <3>3 DEF Promise!vars
  <2>3. CASE Next /\ ~ \E w \in Causes : Restart(w)
    <3>1. ~ Reset
      BY <2>3 DEF Reset, Causes
    <3> QED
      BY <2>3, <3>1, BootRef, LinkRef, HandlerRef DEF Next, Promise!Next
  <2> QED
    BY <2>1, <2>2, <2>3
<1> QED
  BY <1>1, RefInit, Invariant, PTL DEF Spec, DoorPromise, Promise!Spec
-----------------------------------------------------------------------------
(* Who is between storing a position and showing it: the handlers in       *)
(* lock_lock or unlock_lock, and the boot from the position it has read,   *)
(* or stored itself, to the end of its write-back.                         *)
AtDoor == {c \in Chan : pc[c] = "led"}
              \cup (IF main \in {"shown", "write", "led"} THEN {"app_main"} ELSE {})

(* At most one at a time, as a lock around these calls would have it.      *)
Alone == \A t, u \in AtDoor : t = u

(* The LED and the flash agree but for the task that is at the door, which *)
(* is about to show what is stored.                                        *)
Shown ==
    /\ led # "idle" /\ main # "shown" /\ (\A c \in Chan : pc[c] # "led") => led = lockState
    /\ \A c \in Chan : pc[c] = "led" => lockState = Lock[cmd[c]]
    /\ main \in {"write", "led"} => saved = lockState
    /\ main = "shown" => lockState = "locked"

(* A step that changes neither position nor boot, sends no task to the     *)
(* door or away from it, and may put out the LED.                          *)
LEMMA ShownStays ==
    ASSUME Shown, UNCHANGED <<lockState, main, saved>>, led' \in {led, "idle"},
           \A d \in Chan : (pc[d] = "led" <=> pc'[d] = "led") /\ (pc'[d] = "led" => cmd'[d] = cmd[d])
    PROVE  Shown'
  BY DEF Shown

LEMMA ShownAtBoot ==
    ASSUME IInv, Shown, Alone', ~ NvsFails, app_main
    PROVE  Shown'
<1>1. UNCHANGED <<pc, cmd>>
  BY DEF app_main, MainOnline, MainRead, MainDefault, MainDefaultLed, MainWrite, MainLed, ctl
<1>2. CASE MainOnline
  BY <1>1, <1>2 DEF MainOnline, Shown
<1>3. CASE MainRead
  BY <1>1, <1>3 DEF MainRead, Shown, door
<1>4. CASE MainDefault
  <2>1. lockState' = "locked" /\ main' = "shown" /\ UNCHANGED <<led, saved>>
    BY <1>4 DEF MainDefault, set_lock_state
  <2>2. \A c \in Chan : pc'[c] # "led"
    BY <2>1 DEF Alone, AtDoor, Chan
  <2> QED
    BY <1>1, <2>1, <2>2 DEF Shown
<1>5. CASE MainDefaultLed
  BY <1>1, <1>5 DEF MainDefaultLed, Shown
<1>6. CASE MainWrite
  <2>1. lockState' = lockState /\ UNCHANGED <<led, saved>>
    BY <1>6 DEF MainWrite, set_lock_state, Shown
  <2> QED
    BY <1>1, <1>6, <2>1 DEF MainWrite, Shown
<1>7. CASE MainLed
  <2>1. led' = lockState' /\ main' = "done" /\ lockState' = lockState
    BY <1>7 DEF MainLed, Shown
  <2> QED
    BY <1>1, <2>1 DEF Shown
<1> QED
  BY <1>2, <1>3, <1>4, <1>5, <1>6, <1>7 DEF app_main

(* Storing makes the task the one at the door; then it shows the position. *)
LEMMA ShownByHandler ==
    ASSUME IInv, Shown, Alone', ~ NvsFails, NEW c \in Chan,
           ~ \E w \in Causes : Restart(w), Handler(c)
    PROVE  Shown'
<1> USE DEF IInv
<1>1. pc \in [Chan -> Steps] /\ cmd \in [Chan -> Commands]
  BY DEF TypeOK
<1>2. CASE Store(c)
  <2>1. lockState' = Lock[cmd[c]] /\ pc' = [pc EXCEPT ![c] = "led"] /\ cmd' = cmd
        /\ UNCHANGED <<led, main, saved>>
    BY <1>2 DEF Store, set_lock_state, Goto, boot
  <2>2. pc'[c] = "led"
    BY <1>1, <2>1
  <2>3. \A d \in Chan : pc'[d] = "led" => d = c
    BY <2>2 DEF Alone, AtDoor
  <2>4. main' \notin {"shown", "write", "led"}
    <3>1. c # "app_main"
      BY DEF Chan
    <3> QED
      BY <2>2, <3>1 DEF Alone, AtDoor
  <2> QED
    BY <2>1, <2>2, <2>3, <2>4 DEF Shown
<1>3. CASE Default(c)
  <2>1. lockState' = "locked" /\ pc' = [pc EXCEPT ![c] = "led"] /\ cmd' = cmd
        /\ cmd[c] = "RDS" /\ UNCHANGED <<led, main, saved>>
    BY <1>3 DEF Default, set_lock_state, Goto, boot, Planned
  <2>2. pc'[c] = "led" /\ Lock["RDS"] = "locked"
    BY <1>1, <2>1 DEF Lock, Uses
  <2>3. \A d \in Chan : pc'[d] = "led" => d = c
    BY <2>2 DEF Alone, AtDoor
  <2>4. main' \notin {"shown", "write", "led"}
    <3>1. c # "app_main"
      BY DEF Chan
    <3> QED
      BY <2>2, <3>1 DEF Alone, AtDoor
  <2> QED
    BY <2>1, <2>2, <2>3, <2>4 DEF Shown
<1>4. CASE Led(c)
  <2>1. led' = Lock[cmd[c]] /\ pc' = [pc EXCEPT ![c] = "ack"] /\ cmd' = cmd
        /\ UNCHANGED <<lockState, main, saved>> /\ pc[c] = "led"
    BY <1>4 DEF Led, Goto, boot
  <2>2. led' = lockState'
    BY <2>1 DEF Shown
  <2>3. \A d \in Chan : pc'[d] = "led" => pc[d] = "led"
    BY <1>1, <2>1
  <2> QED
    BY <2>1, <2>2, <2>3 DEF Shown
<1>5. CASE Inform(c) \/ ReadState(c)
  <2>1. UNCHANGED <<lockState, led, main, saved, cmd>>
        /\ \A d \in Chan : pc[d] = "led" <=> pc'[d] = "led"
    BY <1>1, <1>5 DEF Inform, ReadState, Goto, door, boot
  <2> QED
    BY <2>1, ShownStays
<1>6. CASE Parse(c) \/ FewArgs(c) \/ Permit(c) \/ Invite(c) \/ \E s \in 1 .. MaxConn : CheckCode(c, s)
  <2>1. UNCHANGED <<lockState, led, main, saved, cmd>>
        /\ \A d \in Chan : pc[d] = "led" <=> pc'[d] = "led"
    BY <1>1, <1>6 DEF Parse, FewArgs, Permit, Invite, CheckCode, Causes, Goto, door, boot
  <2> QED
    BY <2>1, ShownStays
<1>7. CASE Reply(c)
  <2>1. UNCHANGED <<lockState, main, saved>> /\ led' \in {led, "idle"}
    BY <1>7 DEF Reply, CloseSock, boot
  <2>2. \A d \in Chan : (pc[d] = "led" <=> pc'[d] = "led") /\ (pc'[d] = "led" => cmd'[d] = cmd[d])
    BY <1>1, <1>7 DEF Reply, SendFails
  <2> QED
    BY <2>1, <2>2, ShownStays
<1>8. ~ NullReply(c)
  BY DEF NullReply, Causes
<1> QED
  BY <1>2, <1>3, <1>4, <1>5, <1>6, <1>7, <1>8 DEF Handler

LEMMA ShownByClient ==
    ASSUME IInv, Shown, NEW c \in Chan, ~ \E w \in Causes : Restart(w),
           Client(c) \/ TcpPeerClosed \/ BleDisconnect
    PROVE  Shown'
<1>1. pc \in [Chan -> Steps] /\ cmd \in [Chan -> Commands]
  BY DEF IInv, TypeOK
<1>2. UNCHANGED <<lockState, main, saved>> /\ led' \in {led, "idle"}
  BY DEF Client, Connect, Credentials, BadCredentials, CloseSock, Command, Causes,
         TcpPeerClosed, BleDisconnect, door, boot
<1>3. \A d \in Chan : (pc[d] = "led" <=> pc'[d] = "led") /\ (pc'[d] = "led" => cmd'[d] = cmd[d])
  BY <1>1 DEF Client, Connect, Credentials, BadCredentials, Command, Causes, Ready, SendFails,
              TcpPeerClosed, BleDisconnect, ctl
<1> QED
  BY <1>2, <1>3, ShownStays

(* The only cause of a LED that shows another position than the stored one *)
(* is that two tasks are at the door at once: as long as writes to flash   *)
(* succeed and nobody comes between another's store and its LED, and as    *)
(* long as no command falls between the boot's read, or its default, and   *)
(* the end of its write-back, it shows the stored one.  (Without that it   *)
(* need not: see the run session_led.)                                     *)
THEOREM LedTellsAlone ==
    ASSUME ~ NvsFails
    PROVE  Spec /\ []Alone => []LedTells
<1>1. Init => Shown
  BY DEF Init, Shown, Each
<1>2. IInv /\ Shown /\ Alone' /\ [Next]_vars => Shown'
  <2> SUFFICES ASSUME IInv, Shown, Alone', [Next]_vars
               PROVE  Shown'
    OBVIOUS
  <2>1. CASE \E w \in Causes : Restart(w)
    BY <2>1 DEF Restart, Shown, Each
  <2>2. CASE UNCHANGED vars
    BY <2>2, ShownStays DEF vars, ctl, door, boot
  <2>3. CASE Next /\ ~ \E w \in Causes : Restart(w)
    <3>1. ~ Reset
      BY <2>3 DEF Reset, Causes
    <3>2. "tcp" \in Chan
      BY DEF Chan
    <3> QED
      BY <2>3, <3>1, <3>2, ShownAtBoot, ShownByHandler, ShownByClient DEF Next
  <2> QED
    BY <2>1, <2>2, <2>3
<1>3. Shown => LedTells
  BY DEF Shown, LedTells
<1> QED
  BY <1>1, <1>2, <1>3, Invariant, PTL DEF Spec
=============================================================================
