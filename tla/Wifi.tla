-------------------------------- MODULE Wifi --------------------------------
(***************************************************************************)
(* How the lock gets on a network: get_saved_wifi and connect_to_wifi of   *)
(* the boot, ESP-Touch when that fails, and the two event handlers.        *)
(*                                                                         *)
(* app_main waits on the bits of one event group for the saved network and *)
(* of another for ESP-Touch, where the smartconfig task waits as well.     *)
(* The handlers run in the task of the default event loop, above all       *)
(* others in priority: an event of the driver and its handling are one     *)
(* step.  xEventGroupSetBits wakes everyone whose bits are there and only  *)
(* then clears what they asked to be cleared.                              *)
(***************************************************************************)
EXTENDS Naturals

CONSTANTS MaximumRetry,  \* EXAMPLE_ESP_MAXIMUM_RETRY
          MaxMishaps     \* bound of the model: faults of the surroundings

ASSUME RetryAssumption == MaximumRetry \in Nat /\ MaxMishaps \in Nat

VARIABLES
    air,       \* the network is in reach (external)
    mishaps,   \* faults so far
    saved,     \* flash: the credentials in saved_wifi
    net,       \* where app_main is in this part of the boot
    mode,      \* whose event_handler is registered: "off", "sta", "touch"
    sta,       \* the station: "off", "idle", "joining", "up" (external)
    cred,      \* the credentials it was configured with
    retry,     \* s_retry_num
    bits,      \* s_wifi_event_group of wifi_connect_util.c
    touch,     \* s_wifi_event_group of esp_touch_util.c
    sc,        \* smartconfig_example_task
    acked,     \* the phone has had its acknowledgement (external)
    online,    \* isConnected
    failures   \* history: attempts on the saved network that failed since
               \* the last address

wifi == <<saved, net, mode, sta, cred, retry, bits, touch, sc, acked, online, failures>>
radio == <<mode, sta, cred, acked>>

Mishap == mishaps < MaxMishaps /\ mishaps' = mishaps + 1

(* As after a reset: everything but flash starts over.                     *)
WifiInit ==
    /\ net = "get" /\ mode = "off" /\ sta = "off" /\ cred = "none"
    /\ retry = 0 /\ bits = {} /\ touch = {} /\ sc = "none" /\ acked = FALSE
    /\ online = FALSE /\ failures = 0

WifiDown ==
    /\ net' = "get" /\ mode' = "off" /\ sta' = "off" /\ cred' = "none"
    /\ retry' = 0 /\ bits' = {} /\ touch' = {} /\ sc' = "none" /\ acked' = FALSE
    /\ online' = FALSE /\ failures' = 0
    /\ UNCHANGED saved

-----------------------------------------------------------------------------
(* app_main                                                                *)

(* get_saved_wifi, which may fail.                                         *)
GetSaved ==
    /\ net = "get"
    /\ \/ saved # "none" /\ net' = "sta" /\ UNCHANGED mishaps
       \/ saved = "none" /\ net' = "touch" /\ UNCHANGED mishaps
       \/ Mishap /\ net' = "touch"
    /\ UNCHANGED <<saved, radio, retry, bits, touch, sc, online, failures>>

(* wifi_init_sta up to its wait; STA_START has the station connect.        *)
InitSta ==
    /\ net = "sta"
    /\ net' = "started" /\ mode' = "sta" /\ sta' = "joining" /\ cred' = saved
    /\ UNCHANGED <<mishaps, saved, retry, bits, touch, sc, acked, online, failures>>

Found(b) == IF "CONNECTED" \in b THEN "joined" ELSE "ending"

(* xEventGroupWaitBits for either bit, which stays set.                    *)
WaitSta ==
    /\ net = "started"
    /\ net' = IF bits = {} THEN "waiting" ELSE Found(bits)
    /\ UNCHANGED <<mishaps, saved, radio, retry, bits, touch, sc, online, failures>>

(* isConnected = wifi_init_sta(...)                                        *)
Joined ==
    /\ net = "joined"
    /\ net' = "up" /\ online' = TRUE
    /\ UNCHANGED <<mishaps, saved, radio, retry, bits, touch, sc, failures>>

(* terminate_wifi, when the handlers are unregistered: the event loop goes *)
(* as well.  Boot has the other outcome.                                   *)
Terminate ==
    /\ net = "ending"
    /\ net' = "touch" /\ mode' = "off" /\ sta' = "off" /\ cred' = "none" /\ online' = FALSE
    /\ failures' = 0
    /\ UNCHANGED <<mishaps, saved, retry, bits, touch, sc, acked>>

(* initialise_wifi_esp_touch; STA_START creates the smartconfig task.      *)
InitTouch ==
    /\ net = "touch"
    /\ net' = "begun" /\ mode' = "touch" /\ sta' = "idle" /\ sc' = "new"
    /\ UNCHANGED <<mishaps, saved, cred, retry, bits, touch, acked, online, failures>>

(* xEventGroupWaitBits for ESPTOUCH_DONE_BIT, clear on exit.               *)
WaitTouch ==
    /\ net = "begun"
    /\ net' = IF "DONE" \in touch THEN "up" ELSE "await"
    /\ touch' = touch \ {"DONE"}
    /\ UNCHANGED <<mishaps, saved, radio, retry, bits, sc, online, failures>>

-----------------------------------------------------------------------------
(* The smartconfig task waits for both bits, clear on exit.                *)
Sees(b) == IF "DONE" \in b THEN "over" ELSE "saw"

Smartconfig ==
    /\ sc \in {"new", "saw"}
    /\ sc' = IF touch = {} THEN "wait" ELSE Sees(touch)
    /\ touch' = {}
    /\ UNCHANGED <<mishaps, saved, net, radio, retry, bits, online, failures>>

(* xEventGroupSetBits(.., b) in ESP-Touch                                  *)
SetTouch(b) ==
    LET wakesMain == b = "DONE" /\ net = "await"
        wakesTask == sc = "wait"
    IN  /\ net' = IF wakesMain THEN "up" ELSE net
        /\ sc' = IF wakesTask THEN Sees({b}) ELSE sc
        /\ touch' = IF wakesMain \/ wakesTask THEN touch \ {b} ELSE touch \cup {b}

(* xEventGroupSetBits(.., b) for the saved network                         *)
SetSta(b) ==
    /\ bits' = bits \cup {b}
    /\ net' = IF net = "waiting" THEN Found(bits') ELSE net

-----------------------------------------------------------------------------
(* Events of the driver with their handlers.                               *)

(* Variant of GotIp: s_retry_num is not reset.                             *)
GotIpCounts ==
    /\ sta = "joining" /\ air /\ cred = "right"
    /\ sta' = "up" /\ failures' = 0
    /\ \/ mode = "sta" /\ SetSta("CONNECTED") /\ UNCHANGED <<retry, touch, sc>>
       \/ mode = "touch" /\ SetTouch("CONNECTED") /\ UNCHANGED <<retry, bits>>
    /\ UNCHANGED <<mishaps, saved, mode, cred, acked, online>>

(* IP_EVENT_STA_GOT_IP                                                     *)
GotIp ==
    /\ sta = "joining" /\ air /\ cred = "right"
    /\ sta' = "up" /\ failures' = 0
    /\ \/ mode = "sta" /\ retry' = 0 /\ SetSta("CONNECTED") /\ UNCHANGED <<touch, sc>>
       \/ mode = "touch" /\ SetTouch("CONNECTED") /\ UNCHANGED <<retry, bits>>
    /\ UNCHANGED <<mishaps, saved, mode, cred, acked, online>>

(* Variant of Disconnected: the last retry sets no bit.                    *)
DisconnectedMute ==
    /\ \/ /\ mode = "sta" /\ retry < MaximumRetry
          /\ sta' = "joining" /\ retry' = retry + 1 /\ failures' = failures + 1
          /\ UNCHANGED <<net, bits, touch>>
       \/ /\ mode = "sta" /\ retry >= MaximumRetry
          /\ sta' = "idle" /\ failures' = failures + 1
          /\ UNCHANGED <<net, bits, retry, touch>>
       \/ /\ mode = "touch"
          /\ sta' = "joining" /\ touch' = touch \ {"CONNECTED"}
          /\ UNCHANGED <<net, retry, bits, failures>>
    /\ UNCHANGED <<saved, mode, cred, sc, acked, online>>

(* Variant of Disconnected: one retry too many.                            *)
DisconnectedMore ==
    /\ \/ /\ mode = "sta" /\ retry <= MaximumRetry
          /\ sta' = "joining" /\ retry' = retry + 1 /\ failures' = failures + 1
          /\ UNCHANGED <<net, bits, touch>>
       \/ /\ mode = "sta" /\ retry > MaximumRetry
          /\ sta' = "idle" /\ failures' = failures + 1 /\ SetSta("FAIL")
          /\ UNCHANGED <<retry, touch>>
       \/ /\ mode = "touch"
          /\ sta' = "joining" /\ touch' = touch \ {"CONNECTED"}
          /\ UNCHANGED <<net, retry, bits, failures>>
    /\ UNCHANGED <<saved, mode, cred, sc, acked, online>>

(* WIFI_EVENT_STA_DISCONNECTED                                             *)
Disconnected ==
    /\ \/ /\ mode = "sta" /\ retry < MaximumRetry
          /\ sta' = "joining" /\ retry' = retry + 1 /\ failures' = failures + 1
          /\ UNCHANGED <<net, bits, touch>>
       \/ /\ mode = "sta" /\ retry >= MaximumRetry
          /\ sta' = "idle" /\ failures' = failures + 1 /\ SetSta("FAIL")
          /\ UNCHANGED <<retry, touch>>
       \/ /\ mode = "touch"
          /\ sta' = "joining" /\ touch' = touch \ {"CONNECTED"}
          /\ UNCHANGED <<net, retry, bits, failures>>
    /\ UNCHANGED <<saved, mode, cred, sc, acked, online>>

(* An attempt fails, for want of the network, on the wrong credentials, or *)
(* by bad luck.                                                            *)
JoinFails ==
    /\ sta = "joining"
    /\ IF ~ air \/ cred # "right" THEN UNCHANGED mishaps ELSE Mishap
    /\ Disconnected

Dropped == sta = "up" /\ ~ air /\ Disconnected /\ UNCHANGED mishaps

(* SC_EVENT_GOT_SSID_PSWD: a phone sends credentials, once per boot; to    *)
(* save them may fail, which nobody looks at.                              *)
Provision(c) ==
    /\ mode = "touch" /\ net = "await" /\ sc \notin {"none", "new"} /\ cred = "none"
    /\ cred' = c /\ sta' = "joining"
    /\ \/ saved' = c
       \/ saved' = saved
    /\ UNCHANGED <<net, mode, retry, bits, touch, sc, acked, online, failures>>

ProvisionRight == Provision("right") /\ saved' = "right" /\ UNCHANGED mishaps
ProvisionAmiss == \E c \in {"right", "wrong"} : Provision(c) /\ Mishap

(* SC_EVENT_SEND_ACK_DONE                                                  *)
AckDone ==
    /\ mode = "touch" /\ sta = "up" /\ ~ acked
    /\ acked' = TRUE
    /\ SetTouch("DONE")
    /\ UNCHANGED <<mishaps, saved, mode, sta, cred, retry, bits, online, failures>>

-----------------------------------------------------------------------------
Network == GetSaved \/ InitSta \/ WaitSta \/ Joined \/ Terminate \/ InitTouch \/ WaitTouch

Attempt == GotIp \/ JoinFails

Driver == Attempt \/ Dropped \/ ProvisionRight \/ ProvisionAmiss \/ AckDone

WifiTypeOK ==
    /\ air \in BOOLEAN /\ mishaps \in 0..MaxMishaps
    /\ saved \in {"none", "right", "wrong"} /\ cred \in {"none", "right", "wrong"}
    /\ net \in {"get", "sta", "started", "waiting", "joined", "ending", "touch", "begun", "await",
                "up"}
    /\ mode \in {"off", "sta", "touch"} /\ sta \in {"off", "idle", "joining", "up"}
    /\ retry \in 0..MaximumRetry /\ failures \in 0..(MaximumRetry + 1)
    /\ bits \subseteq {"CONNECTED", "FAIL"} /\ touch \subseteq {"CONNECTED", "DONE"}
    /\ sc \in {"none", "new", "wait", "saw", "over"}
    /\ acked \in BOOLEAN /\ online \in BOOLEAN

(* The station gives up only on the saved network, only after one attempt  *)
(* and MaximumRetry retries that failed in a row, and not without saying   *)
(* so: whenever it has credentials and is neither joined nor joining,      *)
(* WIFI_FAIL_BIT is set and that many attempts have failed.                *)
GivesUpLate ==
    cred # "none" /\ sta = "idle" => "FAIL" \in bits /\ failures > MaximumRetry

(* What is said of the network is so: the station gives up late, app_main  *)
(* passes a network by only when the station gave up on it, and takes it   *)
(* for joined only when there was an address.                              *)
VerdictIsTrue ==
    /\ GivesUpLate
    /\ net = "ending" => failures > MaximumRetry
    /\ online /\ mode = "sta" => "CONNECTED" \in bits
=============================================================================
