-------------------------------- MODULE Boot --------------------------------
(***************************************************************************)
(* app_main from reset or wake-up to "All components initialized", with    *)
(* the network of Wifi, and with Bluetooth: on the ESP32-S3 the callbacks  *)
(* of ble_s3_server.c, which start while the lock is still looking for its *)
(* network, and on the ESP32-S2 the task of ble_server.c, which reads a    *)
(* module on a UART.                                                       *)
(***************************************************************************)
EXTENDS Wifi

CONSTANTS Targets,    \* IDF_TARGET, one of them
          RetryCount  \* retry_count of obtain_time

ASSUME BootAssumption == Targets \subseteq {"S2", "S3"} /\ RetryCount \in Nat \ {0}

VARIABLES
    target,    \* IDF_TARGET
    complete,  \* get_registration_status() == COMPLETE (external)
    woken,     \* wakeup_from_deep_sleep
    pc,        \* where app_main is
    tries,     \* retry of obtain_time
    clock,     \* RTC: isTimeValid()
    key,       \* RTC: the RSA key is set
    keyless,   \* history: its files could not be read, or the lock slept
               \* before they were
    tcp,       \* tcp_server_task runs
    lok,       \* server_online
    timer,     \* the deep sleep timer runs
    gap,       \* advertising: "off", then the event it waits for, then "on",
               \* "ended", or "dead" when the stack failed
    table,     \* spp_handle_table is filled and the service started
    link,      \* is_connected
    view,      \* what the peer was told: "none", "LNO", "LOK"
    uart,      \* where echo_task is
    data       \* its buffer

boot == <<pc, woken, tries, key, keyless, tcp, lok>>
s3   == <<gap, table, link, view>>
s2   == <<uart, data>>
vars == <<air, mishaps, wifi, target, complete, boot, clock, timer, s3, s2>>

Init ==
    /\ air \in BOOLEAN /\ mishaps = 0 /\ saved \in {"none", "right", "wrong"} /\ WifiInit
    /\ target \in Targets /\ complete \in BOOLEAN
    /\ woken = FALSE /\ pc = "start" /\ tries = 0 /\ clock = FALSE
    /\ key = FALSE /\ keyless = FALSE /\ tcp = FALSE /\ lok = FALSE /\ timer = FALSE
    /\ gap = "off" /\ table = FALSE /\ link = FALSE /\ view = "none"
    /\ uart = "off" /\ data = ""

(* RAM starts over; the RTC keeps clock and key in deep sleep.             *)
Down(wake) ==
    /\ WifiDown /\ UNCHANGED <<air, target, complete>>
    /\ woken' = wake /\ pc' = "start" /\ tries' = 0
    /\ key' = (key /\ wake) /\ keyless' = (wake /\ ~ key)
    /\ tcp' = FALSE /\ lok' = FALSE /\ timer' = FALSE
    /\ gap' = "off" /\ table' = FALSE /\ link' = FALSE /\ view' = "none"
    /\ uart' = "off" /\ data' = ""

(* A reset: after an exception the clock is kept, without power it is not. *)
Restart == Down(FALSE) /\ clock' \in {clock, FALSE} /\ UNCHANGED mishaps
PowerCut == Down(FALSE) /\ clock' = FALSE /\ Mishap

(* A user who gave the wrong credentials starts over.                      *)
StartOver == net = "await" /\ cred = "wrong" /\ Restart

(* deep_sleep_for_n_seconds, when the timer fires.                         *)
Sleep == timer /\ Down(TRUE) /\ UNCHANGED <<clock, mishaps>>

Goto(place) == pc' = place

-----------------------------------------------------------------------------
(* app_main                                                                *)

(* ble_s3_main: any step of it may fail, and it returns.                   *)
StartBle ==
    \/ gap' = "registering" /\ UNCHANGED <<mishaps, table, link, view>>
    \/ Mishap /\ gap' = "dead" /\ UNCHANGED <<table, link, view>>

Start ==
    /\ pc = "start" /\ Goto("net")
    /\ IF ~ woken /\ target = "S3" THEN StartBle ELSE UNCHANGED <<mishaps, s3>>
    /\ UNCHANGED <<air, wifi, target, complete, woken, tries, key, keyless, tcp, lok, clock, timer,
                   s2>>

(* connect_to_wifi and try_to_connect_to_wifi_esp_touch                    *)
Connecting ==
    /\ pc = "net" /\ Network
    /\ UNCHANGED <<air, target, complete, boot, clock, timer, s3, s2>>

(* terminate_wifi hands esp_event_handler_instance_unregister the address  *)
(* of the handler for that of its registration, and asserts that this      *)
(* succeeds.  The library decides: Terminate, or the assertion fails.      *)
TerminateAborts == pc = "net" /\ net = "ending" /\ Restart

(* obtain_time and the return from the network.                            *)
Connected ==
    /\ pc = "net" /\ net = "up" /\ Goto("time")
    /\ tries' = 0
    /\ UNCHANGED <<air, mishaps, wifi, target, complete, woken, key, keyless, tcp, lok, clock,
                   timer, s3, s2>>

ObtainTime ==
    /\ pc = "time"
    /\ IF clock \/ tries + 1 >= RetryCount
       THEN Goto("key") /\ UNCHANGED tries
       ELSE tries' = tries + 1 /\ UNCHANGED pc
    /\ UNCHANGED <<air, mishaps, wifi, target, complete, woken, key, keyless, tcp, lok, clock,
                   timer, s3, s2>>

(* init_rsa_key, but not after deep sleep; Registration has what it does   *)
(* with the server.                                                        *)
InitRsaKey ==
    /\ pc = "key" /\ Goto("tcp")
    /\ \/ woken /\ UNCHANGED <<key, keyless, mishaps>>
       \/ ~ woken /\ key' = TRUE /\ UNCHANGED <<keyless, mishaps>>
       \/ ~ woken /\ Mishap /\ keyless' = TRUE /\ UNCHANGED key
    /\ UNCHANGED <<air, wifi, target, complete, woken, tries, tcp, lok, clock, timer, s3, s2>>

TcpMain ==
    /\ pc = "tcp" /\ Goto("flag") /\ tcp' = TRUE
    /\ UNCHANGED <<air, mishaps, wifi, target, complete, woken, tries, key, keyless, lok, clock,
                   timer, s3, s2>>

(* Variant of SetConnected: it is left to connect_to_wifi.                 *)
SetConnectedNot ==
    /\ pc = "flag" /\ Goto("online")
    /\ UNCHANGED <<air, mishaps, wifi, target, complete, woken, tries, key, keyless, tcp, lok,
                   clock, timer, s3, s2>>

(* setWifiConnected(true)                                                  *)
SetConnected ==
    /\ pc = "flag" /\ Goto("online") /\ online' = TRUE
    /\ UNCHANGED <<air, mishaps, saved, net, radio, retry, bits, touch, sc, failures, target,
                   complete, woken, tries, key, keyless, tcp, lok, clock, timer, s3, s2>>

(* server_online = true, or ble_main().                                    *)
Online ==
    /\ pc = "online"
    /\ \/ target = "S3" /\ Goto("tell") /\ lok' = TRUE /\ UNCHANGED <<s3, s2>>
       \/ target = "S2" /\ Goto("last") /\ uart' = "loop" /\ UNCHANGED <<lok, s3, data>>
    /\ UNCHANGED <<air, mishaps, wifi, target, complete, woken, tries, key, keyless, tcp, clock,
                   timer>>

(* send_data_ble_s3("LOK"), or Bluetooth after deep sleep.  strncat to the *)
(* constant "LOK" has no defined outcome: it goes through, or faults.      *)
Tell ==
    /\ pc = "tell" /\ Goto("last")
    /\ \/ woken /\ StartBle
       \/ ~ woken /\ ~ link /\ UNCHANGED <<mishaps, s3>>
       \/ ~ woken /\ link /\ view' = "LOK" /\ UNCHANGED <<mishaps, gap, table, link>>
    /\ UNCHANGED <<air, wifi, target, complete, woken, tries, key, keyless, tcp, lok, clock, timer,
                   s2>>

TellFaults == pc = "tell" /\ ~ woken /\ link /\ Restart

(* The LED, the status, and the timer if the lock is complete.             *)
Last ==
    /\ pc = "last" /\ Goto("done")
    /\ timer' = (timer \/ complete)
    /\ UNCHANGED <<air, mishaps, wifi, target, complete, woken, tries, key, keyless, tcp, lok,
                   clock, s3, s2>>

-----------------------------------------------------------------------------
(* gap_event_handler and gatts_profile_event_handler.                      *)

(* ESP_GATTS_REG_EVT, unless it failed; then each completion asks for what *)
(* is next: privacy, parameters, data, start.                              *)
Gap ==
    /\ \/ gap = "registering" /\ gap' = "privacy" /\ UNCHANGED mishaps
       \/ gap = "registering" /\ Mishap /\ gap' = "dead"
       \/ gap = "privacy" /\ gap' = "params" /\ UNCHANGED mishaps
       \/ gap = "params" /\ gap' = "data" /\ UNCHANGED mishaps
       \/ gap = "data" /\ gap' = "starting" /\ UNCHANGED mishaps
       \/ gap = "starting" /\ gap' = "on" /\ UNCHANGED mishaps
    /\ UNCHANGED <<air, wifi, target, complete, boot, clock, timer, table, link, view, s2>>

(* ESP_GATTS_CREAT_ATTR_TAB_EVT; a table that failed is only logged.       *)
AttrTab ==
    /\ gap \notin {"off", "registering", "dead"} /\ ~ table
    /\ table' = TRUE
    /\ UNCHANGED <<air, mishaps, wifi, target, complete, boot, clock, timer, gap, link, view, s2>>

(* ESP_GATTS_CONNECT_EVT: a connection ends advertising.                   *)
Connect ==
    /\ gap = "on"
    /\ gap' = "ended" /\ link' = TRUE /\ view' = "none" /\ timer' = FALSE
    /\ UNCHANGED <<air, mishaps, wifi, target, complete, boot, clock, table, s2>>

(* Variant of Disconnect: advertising is not started again.                *)
DisconnectSilent ==
    /\ link
    /\ link' = FALSE /\ view' = "none" /\ timer' = TRUE
    /\ UNCHANGED <<air, mishaps, wifi, target, complete, boot, clock, gap, table, s2>>

(* ESP_GATTS_DISCONNECT_EVT                                                *)
Disconnect ==
    /\ link
    /\ gap' = "starting" /\ link' = FALSE /\ view' = "none" /\ timer' = TRUE
    /\ UNCHANGED <<air, mishaps, wifi, target, complete, boot, clock, table, s2>>

(* PNG in the data characteristic.                                         *)
Ping ==
    /\ link /\ table
    /\ view' = IF lok THEN "LOK" ELSE "LNO"
    /\ UNCHANGED <<air, mishaps, wifi, target, complete, boot, clock, timer, gap, table, link, s2>>

(* A write to the command characteristic goes to cmd_cmd_queue, which      *)
(* spp_task_init never made: the queue is NULL, and that is asserted.      *)
WriteCommand == link /\ table /\ mishaps < MaxMishaps /\ mishaps' = mishaps + 1
                /\ Down(FALSE) /\ clock' = clock

-----------------------------------------------------------------------------
(* echo_task of the ESP32-S2.                                              *)

EchoFrame == UNCHANGED <<air, mishaps, wifi, target, complete, boot, clock, s3>>

(* "PNG" in the buffer is answered at once and stays there; the answer is  *)
(* a constant that is written to, as in Tell.                              *)
Pong ==
    /\ uart = "loop" /\ data = "PNG"
    /\ UNCHANGED <<uart, data, timer>> /\ EchoFrame

PongFaults == uart = "loop" /\ data = "PNG" /\ Restart

(* while (1): the next line, or none within a quarter of a second.         *)
ToRead ==
    /\ uart = "loop" /\ data # "PNG" /\ online
    /\ uart' = "read" /\ UNCHANGED <<data, timer>> /\ EchoFrame

(* "text" is everything else.  A "+DISCONNECT" with its line end is part of *)
(* that: thirteen characters are compared, the end of the string included. *)
Lines == {"+CONNECTED", "+DISCONNECT", "PNG", "text"}

Read ==
    /\ uart = "read"
    /\ \/ \E x \in Lines : data' = x /\ uart' = "line"
       \/ uart' = "loop" /\ UNCHANGED data
    /\ UNCHANGED timer /\ EchoFrame

(* Variant of Line: a line of the radio module ends the loop.              *)
LineBreaks ==
    /\ uart = "line"
    /\ uart' = IF data \in {"+CONNECTED", "+DISCONNECT"} THEN "off" ELSE "loop"
    /\ timer' = CASE data = "+CONNECTED" -> FALSE
                  [] data = "+DISCONNECT" -> TRUE
                  [] OTHER -> timer
    /\ UNCHANGED data /\ EchoFrame

(* The radio module's own lines end here; the rest is handled as on the    *)
(* S3, which Session and Registration have, and may use a NULL pointer.    *)
Line ==
    /\ uart = "line"
    /\ uart' = "loop"
    /\ timer' = CASE data = "+CONNECTED" -> FALSE
                  [] data = "+DISCONNECT" -> TRUE
                  [] OTHER -> timer
    /\ UNCHANGED data /\ EchoFrame

-----------------------------------------------------------------------------
(* The surroundings                                                        *)

Surroundings == UNCHANGED <<target, complete, boot, clock, timer, s3, s2>>

AirOut  == air /\ air' = FALSE /\ Mishap /\ UNCHANGED wifi /\ Surroundings
AirBack == ~ air /\ air' = TRUE /\ UNCHANGED <<mishaps, wifi>> /\ Surroundings

Events == Driver /\ UNCHANGED air /\ Surroundings

(* SNTP, once obtain_time has started it.                                  *)
Sync ==
    /\ pc \notin {"start", "net"} /\ sta = "up" /\ ~ clock
    /\ clock' = TRUE
    /\ UNCHANGED <<air, mishaps, wifi, target, complete, boot, timer, s3, s2>>

-----------------------------------------------------------------------------
app_main == \/ Start \/ Connecting \/ TerminateAborts \/ Connected \/ ObtainTime \/ InitRsaKey
            \/ TcpMain \/ SetConnected \/ Online \/ Tell \/ TellFaults \/ Last

smartconfig_task == Smartconfig /\ UNCHANGED air /\ Surroundings

echo_task == Pong \/ PongFaults \/ ToRead \/ Read \/ Line

Next ==
    \/ app_main \/ smartconfig_task \/ echo_task \/ Events \/ Gap \/ AttrTab
    \/ Connect \/ Disconnect \/ Ping \/ WriteCommand
    \/ AirOut \/ AirBack \/ Sync \/ Sleep \/ PowerCut \/ StartOver

Spec == Init /\ [][Next]_vars

(* Tasks run, attempts to join end, faults pass, and a user stands by with *)
(* the right credentials.                                                  *)
FairSpec ==
    /\ Spec
    /\ WF_vars(app_main) /\ WF_vars(smartconfig_task) /\ WF_vars(echo_task)
    /\ WF_vars(Gap) /\ WF_vars(AirBack) /\ WF_vars(StartOver)
    /\ WF_vars(Attempt /\ UNCHANGED air /\ Surroundings)
    /\ WF_vars(ProvisionRight /\ UNCHANGED air /\ Surroundings)
    /\ WF_vars(AckDone /\ UNCHANGED air /\ Surroundings)
-----------------------------------------------------------------------------
TypeOK ==
    /\ WifiTypeOK
    /\ target \in Targets /\ complete \in BOOLEAN /\ woken \in BOOLEAN
    /\ pc \in {"start", "net", "time", "key", "tcp", "flag", "online", "tell", "last", "done"}
    /\ tries \in 0..(RetryCount - 1)
    /\ clock \in BOOLEAN /\ key \in BOOLEAN /\ keyless \in BOOLEAN /\ tcp \in BOOLEAN
    /\ lok \in BOOLEAN /\ timer \in BOOLEAN
    /\ gap \in {"off", "registering", "privacy", "params", "data", "starting", "on", "ended",
                "dead"}
    /\ table \in BOOLEAN /\ link \in BOOLEAN /\ view \in {"none", "LNO", "LOK"}
    /\ uart \in {"off", "loop", "read", "line"} /\ data \in Lines \cup {""}

(* A phone that was told LOK, in answer to PNG or at the end of the boot,  *)
(* finds what it means: the TCP server runs, messages are no longer        *)
(* rejected, and the RSA key is there, unless its files could not be read  *)
(* or the lock slept before it had read them and skips that after waking.  *)
LokMeansReady == view = "LOK" => tcp /\ online /\ (key \/ keyless)

(* Whatever becomes of the network, app_main gets to the end: five retries *)
(* on the saved network, then ESP-Touch with a user at hand, who may have  *)
(* to start over, then the clock or not.  Neither the smartconfig task's   *)
(* wait for the same bits nor a bit set before anyone waits stops it.      *)
(* Only these can put it off boot after boot: a peer that is connected     *)
(* when LOK is sent, says PNG on the UART, or leaves, which arms the       *)
(* timer; and, where the saved network is given up, terminate_wifi's       *)
(* assertion, if the library fails it.                                     *)
PutOff == pc # "done" /\ ((pc = "tell" /\ link) \/ data = "PNG" \/ timer \/ net = "ending")

BootCompletes == TRUE ~> pc = "done" \/ PutOff

(* Once ble_s3_main was called the lock is discoverable again whenever it  *)
(* has no connection, with or without a network, unless the stack failed.  *)
Discoverable ==
    gap \notin {"off", "dead"} ~> gap \in {"on", "off", "dead"} \/ link

(* After the boot the station is on the network again after every outage,  *)
(* or has given up after MaximumRetry: nothing else keeps it off.          *)
StaysOnline ==
    pc = "done" ~> sta = "up" \/ "FAIL" \in bits \/ pc # "done"

(* echo_task reads the UART again and again, until it has read PNG.        *)
Listens == uart = "line" /\ data # "PNG" ~> uart = "read" \/ pc = "start"
=============================================================================
