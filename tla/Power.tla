------------------------------- MODULE Power -------------------------------
(***************************************************************************)
(* The deep sleep timer of power_util.c and the three tasks that start and *)
(* cancel it without a lock: app_main once at the end of the boot, the TCP *)
(* task and the Bluetooth task around each connection.  A call is split at *)
(* every read of deep_sleep_timer and at every call of esp_timer.  With it *)
(* goes the end of a TCP connection, whose descriptor is closed twice when *)
(* the lock itself ends it.                                                *)
(*                                                                         *)
(* Seconds are left out: a timer may fire at any moment once it is armed,  *)
(* and a poll may take any time.  Timers that were replaced are never      *)
(* deleted by the code; here the number of one that can no longer fire is  *)
(* used again.                                                             *)
(***************************************************************************)
EXTENDS Naturals

CONSTANTS Timers,  \* handles esp_timer_create may return
          Sockets, \* descriptor numbers lwIP gives out
          Polls,   \* how often cancel_deep_sleep_timer sleeps: i = 3
          None     \* NULL, and nobody

Chan  == {"tcp", "ble"}
Tasks == Chan \cup {"main"}

ASSUME NoneAssumption  == None \notin Timers /\ None \notin Sockets /\ None \notin Tasks
ASSUME PollsAssumption == Polls \in Nat

VARIABLES
    mode,     \* "up", "asleep", or "abort" when ESP_ERROR_CHECK failed
    handle,   \* deep_sleep_timer
    armed,    \* the task that started a timer that is active, or None
    firing,   \* a timer has expired and its callback not yet slept
    pc,       \* where each task is
    tries,    \* i in cancel_deep_sleep_timer
    refused,  \* the TCP task is in disconnect_sock
    sock,     \* sock of tcp_server_task
    http,     \* descriptor of a request the Bluetooth task makes
    owner,    \* to whom each descriptor was given
    due,      \* history: start_deep_sleep_timer was called since boot
    lost,     \* history: active timers deep_sleep_timer no longer names
    overlap,  \* history: another task acted between a read and its use
    ended     \* history: disconnect_sock has ended a connection since boot

timer == <<handle, armed, firing>>
calls == <<pc, tries, refused>>
socks == <<sock, http, owner>>
hist  == <<due, lost, overlap, ended>>
vars  == <<mode, timer, calls, socks, hist>>

(* Places between a read of the handle and the call that rests on it.      *)
Midway == {"stop", "create", "arm"}
Places == Midway \cup {"boot", "idle", "poll", "halt", "serve", "check", "shut", "close", "done"}

Active(t)  == t # None /\ armed[t] # None

(* A client is connected, from its accept or connect event to its end.     *)
Served(c) == pc[c] \in {"poll", "halt", "stop", "serve"}

-----------------------------------------------------------------------------
Init ==
    /\ mode = "up"
    /\ handle = None /\ armed = [t \in Timers |-> None] /\ firing = FALSE
    /\ pc = [t \in Tasks |-> IF t = "main" THEN "boot" ELSE "idle"]
    /\ tries = [c \in Chan |-> Polls] /\ refused = FALSE
    /\ sock = None /\ http = None /\ owner = [s \in Sockets |-> "free"]
    /\ due = FALSE /\ lost = {} /\ overlap = [t \in Tasks |-> FALSE]
    /\ ended = FALSE

(* Sleep and abort both forget all of this: it is in RAM.                  *)
Down(m) ==
    /\ mode' = m
    /\ handle' = None /\ armed' = [t \in Timers |-> None] /\ firing' = FALSE
    /\ pc' = [t \in Tasks |-> IF t = "main" THEN "boot" ELSE "idle"]
    /\ tries' = [c \in Chan |-> Polls] /\ refused' = FALSE
    /\ sock' = None /\ http' = None /\ owner' = [s \in Sockets |-> "free"]
    /\ due' = FALSE /\ lost' = {} /\ overlap' = [t \in Tasks |-> FALSE]
    /\ ended' = FALSE

(* Twenty seconds later, or after the abort, the device starts again.      *)
Boot ==
    /\ mode # "up" /\ mode' = "up"
    /\ UNCHANGED <<timer, calls, socks, hist>>

Goto(t, place) == pc' = [pc EXCEPT ![t] = place]

(* Others that are midway now act on what they read before this step.      *)
Overlaps(t) ==
    overlap' = [u \in Tasks |-> u # t /\ pc[u] \in Midway]

-----------------------------------------------------------------------------
(* cancel_deep_sleep_timer(), called by tcp_server_task and on             *)
(* ESP_GATTS_CONNECT_EVT.                                                  *)

(* Variant of Poll: the count has no end.                                  *)
PollForever(c) ==
    /\ pc[c] = "poll"
    /\ IF Active(handle) THEN Goto(c, "halt") /\ UNCHANGED tries
       ELSE tries' = [tries EXCEPT ![c] = @ - 1] /\ UNCHANGED pc
    /\ UNCHANGED <<mode, timer, refused, socks, hist>>

(* while ((deep_sleep_timer == NULL || !active) && i--) usleep(1000000);   *)
Poll(c) ==
    /\ pc[c] = "poll"
    /\ IF Active(handle) \/ tries[c] = 0
       THEN Goto(c, "halt") /\ tries' = [tries EXCEPT ![c] = Polls]
       ELSE tries' = [tries EXCEPT ![c] = @ - 1] /\ UNCHANGED pc
    /\ UNCHANGED <<mode, timer, refused, socks, hist>>

(* if (deep_sleep_timer != NULL && esp_timer_is_active(deep_sleep_timer))  *)
Halt(c) ==
    /\ pc[c] = "halt"
    /\ Goto(c, IF Active(handle) THEN "stop" ELSE "serve")
    /\ overlap' = [overlap EXCEPT ![c] = FALSE]
    /\ UNCHANGED <<mode, timer, tries, refused, socks, due, lost, ended>>

(* Variant of Stop: the timer is left to run.                              *)
StopNothing(c) ==
    /\ pc[c] = "stop"
    /\ Goto(c, "serve")
    /\ UNCHANGED <<mode, timer, tries, refused, socks, hist>>

(* esp_timer_stop(deep_sleep_timer), which fails on a timer that is not    *)
(* active.                                                                 *)
Stop(c) ==
    /\ pc[c] = "stop"
    /\ IF ~ Active(handle) THEN Down("abort")
       ELSE /\ armed' = [armed EXCEPT ![handle] = None]
            /\ Goto(c, "serve")
            /\ Overlaps(c)
            /\ UNCHANGED <<mode, handle, firing, tries, refused, socks,
                           due, lost, ended>>

-----------------------------------------------------------------------------
(* start_deep_sleep_timer().                                               *)

(* Where a task goes when start_deep_sleep_timer returns.                  *)
Started(t) == CASE t = "main" -> "done"
                [] t = "ble"  -> "idle"
                [] t = "tcp"  -> IF refused THEN "shut" ELSE "close"

(* Variant of Check: the early return is missing.                          *)
CheckNothing(t) ==
    /\ pc[t] = "check"
    /\ Goto(t, "create")
    /\ overlap' = [overlap EXCEPT ![t] = FALSE]
    /\ UNCHANGED <<mode, timer, tries, refused, socks, due, lost, ended>>

(* The early return when the timer runs already.                           *)
Check(t) ==
    /\ pc[t] = "check"
    /\ Goto(t, IF Active(handle) THEN Started(t) ELSE "create")
    /\ overlap' = [overlap EXCEPT ![t] = FALSE]
    /\ refused' = (refused /\ ~ (t = "tcp" /\ Active(handle)))
    /\ UNCHANGED <<mode, timer, tries, socks, due, lost, ended>>

(* Timers the application still holds, or that can still fire.             *)
Held == {t \in Timers : t = handle \/ Active(t)}

(* esp_timer_create(&args, &deep_sleep_timer): the old handle is lost.     *)
Create(t) ==
    /\ pc[t] = "create"
    /\ Timers \ Held # {}
    /\ handle' = CHOOSE new \in Timers \ Held : TRUE
    /\ lost' = (lost \cup {handle}) \cap {x \in Timers : Active(x)}
    /\ Goto(t, "arm")
    /\ Overlaps(t)
    /\ UNCHANGED <<mode, armed, firing, tries, refused, socks, due, ended>>

(* esp_timer_start_once(deep_sleep_timer, ...), which fails when active.   *)
Arm(t) ==
    /\ pc[t] = "arm"
    /\ IF Active(handle) THEN Down("abort")
       ELSE /\ armed' = [armed EXCEPT ![handle] = t]
            /\ Goto(t, Started(t))
            /\ refused' = (refused /\ t # "tcp")
            /\ Overlaps(t)
            /\ UNCHANGED <<mode, handle, firing, tries, socks, due, lost,
                           ended>>

(* An active timer expires: esp_timer takes it off its list, ...           *)
Fire(t) ==
    /\ Active(t)
    /\ armed' = [armed EXCEPT ![t] = None]
    /\ firing' = TRUE
    /\ lost' = lost \ {t}
    /\ Overlaps(None)
    /\ UNCHANGED <<mode, handle, calls, socks, due, ended>>

(* ... and runs deep_sleep_timer_callback.                                 *)
Sleep ==
    /\ firing
    /\ Down("asleep")

-----------------------------------------------------------------------------
(* tcp_server_task: one connection after the other.                        *)

(* lwIP gives out a number that is free.                                   *)
Unused == {s \in Sockets : owner[s] = "free"}

Owned(s, who) == owner' = [owner EXCEPT ![s] = who]

Accept ==
    /\ pc["tcp"] = "idle"
    /\ \E s \in Unused : sock' = s /\ Owned(s, "tcp")
    /\ Goto("tcp", "poll")
    /\ UNCHANGED <<mode, timer, tries, refused, http, hist>>

(* Variant of PeerLeft: the socket is closed here and by the caller.       *)
PeerLeftCloses ==
    /\ pc["tcp"] = "serve"
    /\ Goto("tcp", "shut")
    /\ due' = TRUE
    /\ Owned(sock, "free")
    /\ UNCHANGED <<mode, timer, tries, refused, sock, http, lost, overlap, ended>>

(* recv returned 0 or -1, and do_retransmit returns.                       *)
PeerLeft ==
    /\ pc["tcp"] = "serve"
    /\ Goto("tcp", "shut")
    /\ due' = TRUE
    /\ UNCHANGED <<mode, timer, tries, refused, socks, lost, overlap, ended>>

(* Bad credentials, a message that does not fit the state, or an answer    *)
(* NAK: disconnect_sock closes the socket and starts the timer, and        *)
(* do_retransmit returns.                                                  *)
Refuse ==
    /\ pc["tcp"] = "serve"
    /\ Goto("tcp", "check")
    /\ refused' = TRUE
    /\ Owned(sock, "free")
    /\ due' = TRUE
    /\ ended' = TRUE
    /\ UNCHANGED <<mode, timer, tries, sock, http, lost, overlap>>

(* shutdown(sock, 0), then start_deep_sleep_timer.                         *)
Shutdown ==
    /\ pc["tcp"] = "shut"
    /\ Goto("tcp", "check")
    /\ UNCHANGED <<mode, timer, tries, refused, socks, due, lost, overlap, ended>>

(* close(sock), the second one of a connection disconnect_sock has closed. *)
Close ==
    /\ pc["tcp"] = "close"
    /\ Goto("tcp", "idle")
    /\ Owned(sock, "free")
    /\ sock' = None
    /\ UNCHANGED <<mode, timer, tries, refused, http, due, lost, overlap, ended>>

-----------------------------------------------------------------------------
(* The Bluetooth task: events, and the requests its commands make.         *)

BleConnect ==
    /\ pc["ble"] = "idle"
    /\ Goto("ble", "poll")
    /\ UNCHANGED <<mode, timer, tries, refused, socks, hist>>

(* Variant of BleDisconnect: the timer is not started.                     *)
BleDisconnectAwake ==
    /\ pc["ble"] = "serve" /\ http = None
    /\ Goto("ble", "idle")
    /\ due' = TRUE
    /\ UNCHANGED <<mode, timer, tries, refused, socks, lost, overlap, ended>>

BleDisconnect ==
    /\ pc["ble"] = "serve" /\ http = None
    /\ Goto("ble", "check")
    /\ due' = TRUE
    /\ UNCHANGED <<mode, timer, tries, refused, socks, lost, overlap, ended>>

HttpOpen ==
    /\ pc["ble"] = "serve" /\ http = None
    /\ \E s \in Unused : http' = s /\ Owned(s, "http")
    /\ UNCHANGED <<mode, timer, calls, sock, hist>>

HttpClose ==
    /\ http # None
    /\ Owned(http, "free")
    /\ http' = None
    /\ UNCHANGED <<mode, timer, calls, sock, due, lost, overlap, ended>>

(* The last lines of app_main: get_registration_status() == COMPLETE, as   *)
(* the server says.                                                        *)
MainStart ==
    /\ pc["main"] = "boot"
    /\ \E complete \in BOOLEAN :
          /\ Goto("main", IF complete THEN "check" ELSE "done")
          /\ due' = (due \/ complete)
    /\ UNCHANGED <<mode, timer, tries, refused, socks, lost, overlap, ended>>

-----------------------------------------------------------------------------
Cancel(c) == Poll(c) \/ Halt(c) \/ Stop(c)
Start(t)  == Check(t) \/ Create(t) \/ Arm(t)

(* What the tasks and the timer do by themselves.                          *)
Task(t) ==
    /\ mode = "up"
    /\ \/ Start(t)
       \/ t \in Chan /\ Cancel(t)
       \/ t = "tcp" /\ (Shutdown \/ Close)
       \/ t = "main" /\ MainStart

Expire == mode = "up" /\ (Sleep \/ \E t \in Timers : Fire(t))

(* What peers and the server make them do.                                 *)
Peers ==
    /\ mode = "up"
    /\ Accept \/ PeerLeft \/ Refuse \/ BleConnect \/ BleDisconnect \/ HttpOpen \/ HttpClose

Next == (\E t \in Tasks : Task(t)) \/ Expire \/ Peers \/ Boot

Spec     == Init /\ [][Next]_vars
FairSpec == Spec /\ WF_vars(Expire) /\ \A t \in Tasks : WF_vars(Task(t))

-----------------------------------------------------------------------------
(* Every variable has its type.                                            *)
TypeOK ==
    /\ mode \in {"up", "asleep", "abort"}
    /\ handle \in Timers \cup {None}
    /\ armed \in [Timers -> Tasks \cup {None}] /\ firing \in BOOLEAN
    /\ pc \in [Tasks -> Places]
    /\ tries \in [Chan -> 0..Polls] /\ refused \in BOOLEAN
    /\ sock \in Sockets \cup {None} /\ http \in Sockets \cup {None}
    /\ owner \in [Sockets -> {"free", "tcp", "http"}]
    /\ due \in BOOLEAN
    /\ lost \subseteq Timers /\ overlap \in [Tasks -> BOOLEAN]
    /\ ended \in BOOLEAN

(* While a client is served, no timer runs that its own channel started    *)
(* and deep_sleep_timer still names: cancel_deep_sleep_timer, polls and    *)
(* all, has stopped it.  What may still put the lock to sleep under a      *)
(* client is the other channel or app_main, or a handle lost in a race.    *)
OwnTimerStopped ==
    \A c \in Chan, t \in Timers : pc[c] = "serve" /\ armed[t] = c => t \in lost

(* A call no other task's call came into the middle of neither fails an    *)
(* ESP_ERROR_CHECK nor loses a running timer: what stop, create and start  *)
(* rest on still holds when they are made.                                 *)
SoloIsSafe ==
    \A t \in Tasks : ~ overlap[t] =>
       /\ pc[t] = "stop" => Active(handle)
       /\ pc[t] \in {"create", "arm"} => ~ Active(handle)

(* Until disconnect_sock has closed a descriptor that its caller shuts and *)
(* closes again, the TCP task and the requests of the Bluetooth task shut  *)
(* and close only descriptors that are theirs.                             *)
OwnSockets ==
    ~ ended => /\ pc["tcp"] # "idle" => sock # None /\ owner[sock] = "tcp"
               /\ http # None => owner[http] = "http"

(* When the last client has left, or the boot ends with the registration   *)
(* COMPLETE, the lock goes to sleep, or restarts, or serves a new client:  *)
(* no interleaving of starts and cancels leaves it awake with no timer.    *)
GoesToSleep ==
    due /\ (\A c \in Chan : ~ Served(c))
       ~> (mode # "up" \/ \E c \in Chan : Served(c))
=============================================================================
