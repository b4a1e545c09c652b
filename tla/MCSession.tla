------------------------------ MODULE MCSession ------------------------------
(* Instances of Session.                                                   *)
EXTENDS Session

(* TCP addresses that share their first four characters, but for "t3".     *)
MCKeyOf == [a \in Addrs |-> IF a \in BleAddrs THEN "ble" ELSE
                            IF a = "t3" THEN "10.0" ELSE "192."]

(* One command of each kind: RDS reads the position, RUD acts, RUI acts    *)
(* and looks at the state early; RLD sets the other position.              *)
MCSentBoth == [c \in Chan |-> IF c = "tcp" THEN {"SAC", "RUD", "RDS"}
                                           ELSE {"SAC", "RLD", "RUI"}]

MCSentBle == [c \in Chan |-> IF c = "tcp" THEN {"RDS"} ELSE Commands]

MCSentTcp == [c \in Chan |-> IF c = "tcp" THEN Commands ELSE {"SAC"}]
=============================================================================
