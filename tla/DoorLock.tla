------------------------------ MODULE DoorLock ------------------------------
(***************************************************************************)
(* What a user is promised about the stored state of the lock: it changes  *)
(* only on behalf of a client that holds an authorisation at that moment,  *)
(* with two exceptions made by the device itself.  Who reads the state     *)
(* before it was ever stored stores "locked", once; and each boot writes   *)
(* back, once, the value it has read.  Both undo a command that comes      *)
(* between the read and the write.  No other write is covered: none by a   *)
(* handler whose read found a value or failed, and no second one.          *)
(***************************************************************************)
CONSTANTS Chan   \* the channels a client can be authorised on

Positions == {"locked", "unlocked"}
Readers   == Chan \cup {"boot"}

VARIABLES
    door,     \* the stored state, "unset" on a new device
    token,    \* per channel: whether its client holds an authorisation
    restore,  \* the value a boot is about to write back, or "unset"
    unset     \* readers that found no value and have not stored one yet

vars == <<door, token, restore, unset>>

Init ==
    /\ door = "unset"
    /\ token = [c \in Chan |-> FALSE]
    /\ restore = "unset"
    /\ unset = {}

(* The client of a channel proves who it is.                               *)
Grant(c) ==
    /\ token' = [token EXCEPT ![c] = TRUE]
    /\ UNCHANGED <<door, restore, unset>>

(* Authorisations end: by use, by disconnecting, by a command elsewhere.   *)
Drop ==
    /\ \E S \in SUBSET Chan : token' = [c \in Chan |-> token[c] /\ c \notin S]
    /\ UNCHANGED <<door, restore, unset>>

(* A lock or unlock command, which may use the authorisation up.           *)
Operate(c) ==
    /\ token[c]
    /\ door' \in Positions
    /\ token' \in {token, [token EXCEPT ![c] = FALSE]}
    /\ UNCHANGED <<restore, unset>>

(* The state is read and was never stored.                                 *)
SeeNone(r) ==
    /\ door = "unset"
    /\ unset' = unset \cup {r}
    /\ UNCHANGED <<door, token, restore>>

(* Who saw none stores the default; a boot goes on to write it once more.  *)
Default(r) ==
    /\ r \in unset
    /\ unset' = unset \ {r}
    /\ door' \in {door, "locked"}
    /\ restore' = IF r = "boot" THEN "locked" ELSE restore
    /\ UNCHANGED token

BootRead ==
    /\ door # "unset"
    /\ restore' = door
    /\ UNCHANGED <<door, token, unset>>

BootWrite ==
    /\ restore # "unset"
    /\ door' \in {door, restore}
    /\ restore' = "unset"
    /\ UNCHANGED <<token, unset>>

(* Authorisations do not survive a restart; the stored state does.         *)
Restart ==
    /\ token' = [c \in Chan |-> FALSE]
    /\ restore' = "unset"
    /\ unset' = {}
    /\ UNCHANGED door

Next == \/ \E c \in Chan : Grant(c) \/ Operate(c)
        \/ \E r \in Readers : SeeNone(r) \/ Default(r)
        \/ Drop \/ BootRead \/ BootWrite \/ Restart

Spec == Init /\ [][Next]_vars
=============================================================================
