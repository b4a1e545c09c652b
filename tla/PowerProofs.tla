---------------------------- MODULE PowerProofs ----------------------------
(***************************************************************************)
(* Theorems about Power, for any number of timers, sockets and polls.      *)
(***************************************************************************)
EXTENDS Power, TLAPS

(* A timer that can fire is deep_sleep_timer, or was lost when it was.     *)
Named == \A t \in Timers : Active(t) => t = handle \/ t \in lost

IInv == TypeOK /\ Named /\ OwnTimerStopped /\ SoloIsSafe /\ OwnSockets

USE NoneAssumption, PollsAssumption DEF NoneAssumption, PollsAssumption, Chan, Tasks

LEMMA InitHolds == Init => IInv
  <1> SUFFICES ASSUME Init PROVE IInv
    OBVIOUS
  <1> USE DEF Init, Places, Midway, Active
  <1>1. TypeOK
    <2>1. (armed \in [Timers -> Tasks \cup {None}])
      OBVIOUS
    <2>2. (pc \in [Tasks -> Places])
      OBVIOUS
    <2>3. (tries \in [Chan -> 0..Polls])
      OBVIOUS
    <2>4. (owner \in [Sockets -> {"free", "tcp", "http"}] /\ overlap \in [Tasks -> BOOLEAN])
      OBVIOUS
    <2> QED
      BY <2>1, <2>2, <2>3, <2>4 DEF TypeOK
  <1>2. Named
    BY DEF Named
  <1>3. OwnTimerStopped /\ SoloIsSafe
    BY DEF OwnTimerStopped, SoloIsSafe
  <1>4. OwnSockets
    BY DEF OwnSockets
  <1> QED
    BY <1>1, <1>2, <1>3, <1>4 DEF IInv

LEMMA DownHolds == ASSUME NEW m \in {"asleep", "abort"}, Down(m) PROVE IInv'
  <1> USE DEF Down, Places, Midway, Active
  <1>1. TypeOK'
    <2>1. (armed \in [Timers -> Tasks \cup {None}])'
      OBVIOUS
    <2>2. (pc \in [Tasks -> Places])'
      OBVIOUS
    <2>3. (tries \in [Chan -> 0..Polls])'
      OBVIOUS
    <2>4. (owner \in [Sockets -> {"free", "tcp", "http"}] /\ overlap \in [Tasks -> BOOLEAN])'
      OBVIOUS
    <2> QED
      BY <2>1, <2>2, <2>3, <2>4 DEF TypeOK
  <1>2. Named'
    BY DEF Named
  <1>3. OwnTimerStopped' /\ SoloIsSafe'
    BY DEF OwnTimerStopped, SoloIsSafe
  <1>4. OwnSockets'
    BY DEF OwnSockets
  <1> QED
    BY <1>1, <1>2, <1>3, <1>4 DEF IInv

(* Where start_deep_sleep_timer returns to, nobody is served nor midway.   *)
LEMMA StartedFacts ==
    ASSUME NEW t \in Tasks
    PROVE  /\ Started(t) \in Places
           /\ Started(t) \notin Midway \cup {"serve", "idle"} \/ (t = "ble" /\ Started(t) = "idle")
  BY DEF Started, Places, Midway

-----------------------------------------------------------------------------
(* cancel_deep_sleep_timer.                                                *)
LEMMA CancelStep ==
    ASSUME IInv, NEW c \in Chan, Cancel(c) PROVE IInv'
  <1> USE DEF IInv, TypeOK, Named, OwnTimerStopped, SoloIsSafe, OwnSockets, Active, Midway,
      Places, Goto, timer, calls, socks, hist
  <1>1. CASE Poll(c)
    BY <1>1 DEF Poll
  <1>2. CASE Halt(c)
    \* A client is served from here when the timer named does not run.
    BY <1>2 DEF Halt
  <1>3. CASE Stop(c) /\ ~ Active(handle)
    BY <1>3, DownHolds DEF Stop
  <1>4. CASE Stop(c) /\ Active(handle)
    <2> USE <1>4 DEF Stop, Overlaps
    <2>1. handle \in Timers /\ TypeOK'
      OBVIOUS
    <2>2. Named' /\ OwnTimerStopped'
      \* The timer named is off; any other that runs was lost.
      BY <2>1
    <2>3. SoloIsSafe'
      BY <2>1
    <2>4. OwnSockets'
      OBVIOUS
    <2> QED
      BY <2>1, <2>2, <2>3, <2>4
  <1> QED
    BY <1>1, <1>2, <1>3, <1>4 DEF Cancel

(* start_deep_sleep_timer.                                                 *)
LEMMA StartStep ==
    ASSUME IInv, NEW t \in Tasks, Start(t) PROVE IInv'
  <1> USE StartedFacts DEF IInv, TypeOK, Named, OwnTimerStopped, SoloIsSafe, OwnSockets,
      Active, Midway, Places, Goto, timer, calls, socks, hist
  <1>1. CASE Check(t)
    BY <1>1 DEF Check
  <1>2. CASE Create(t)
    <2> USE <1>2 DEF Create, Overlaps, Held
    <2>1. handle' \in Timers \ Held
      OBVIOUS
    <2>2. handle' \in Timers /\ ~ Active(handle')
      BY <2>1
    <2>3. TypeOK'
      BY <2>2
    <2>4. Named' /\ OwnTimerStopped'
      \* The handle that is replaced is lost if it runs.
      BY <2>2
    <2>5. SoloIsSafe'
      BY <2>2, <2>3
    <2>6. OwnSockets'
      OBVIOUS
    <2> QED
      BY <2>3, <2>4, <2>5, <2>6
  <1>3. CASE Arm(t) /\ Active(handle)
    BY <1>3, DownHolds DEF Arm
  <1>4. CASE Arm(t) /\ ~ Active(handle)
    <2> USE <1>4 DEF Arm, Overlaps
    <2>1. TypeOK'
      <3>1. armed' \in [Timers -> Tasks \cup {None}]
        OBVIOUS
      <3>2. pc' \in [Tasks -> {"boot", "idle", "poll", "halt", "serve", "check", "shut",
                               "close", "done", "stop", "create", "arm"}]
        OBVIOUS
      <3>3. overlap' \in [Tasks -> BOOLEAN] /\ refused' \in BOOLEAN
        OBVIOUS
      <3> QED
        BY <3>1, <3>2, <3>3
    <2>2. Named'
      OBVIOUS
    <2>3. OwnTimerStopped'
      \* The task that arms is not serving; another task's timer is not this one's.
      <3> SUFFICES ASSUME NEW c \in Chan, NEW x \in Timers, pc'[c] = "serve", armed'[x] = c
                   PROVE  x \in lost'
        OBVIOUS
      <3>1. c # t /\ pc[c] = "serve"
        OBVIOUS
      <3>2. armed[x] = c
        BY <3>1
      <3> QED
        BY <3>1, <3>2
    <2>4. SoloIsSafe'
      BY <2>1
    <2>5. OwnSockets'
      BY DEF Started
    <2> QED
      BY <2>1, <2>2, <2>3, <2>4, <2>5
  <1> QED
    BY <1>1, <1>2, <1>3, <1>4 DEF Start

(* The timer, the servers and their peers.                                 *)
LEMMA OtherStep ==
    ASSUME IInv, Expire \/ Peers \/ Boot \/ Shutdown \/ Close \/ MainStart PROVE IInv'
  <1> USE DEF IInv, TypeOK, Named, OwnTimerStopped, SoloIsSafe, OwnSockets, Active, Midway,
      Places, Goto, Owned, Unused, timer, calls, socks, hist
  <1>1. ASSUME NEW t \in Timers, Fire(t) PROVE IInv'
    <2> USE <1>1 DEF Fire, Overlaps
    <2>1. TypeOK' /\ Named' /\ OwnTimerStopped' /\ OwnSockets'
      OBVIOUS
    <2>2. SoloIsSafe'
      BY <2>1
    <2> QED
      BY <2>1, <2>2
  <1>2. CASE Sleep
    BY <1>2, DownHolds DEF Sleep
  <1>3. CASE Accept
    <2> USE <1>3 DEF Accept
    <2>1. TypeOK'
      OBVIOUS
    <2>2. Named' /\ OwnTimerStopped'
      OBVIOUS
    <2>3. SoloIsSafe'
      OBVIOUS
    <2>4. OwnSockets'
      OBVIOUS
    <2> QED
      BY <2>1, <2>2, <2>3, <2>4
  <1>4a. CASE PeerLeft
    <2> USE <1>4a DEF PeerLeft
    <2>1. TypeOK'
      OBVIOUS
    <2>2. Named' /\ OwnTimerStopped'
      OBVIOUS
    <2>3. SoloIsSafe'
      OBVIOUS
    <2>4. OwnSockets'
      OBVIOUS
    <2> QED
      BY <2>1, <2>2, <2>3, <2>4
  <1>4b. CASE Refuse
    <2> USE <1>4b DEF Refuse
    <2>1. TypeOK'
      OBVIOUS
    <2>2. Named' /\ OwnTimerStopped'
      OBVIOUS
    <2>3. SoloIsSafe'
      OBVIOUS
    <2>4. OwnSockets'
      OBVIOUS
    <2> QED
      BY <2>1, <2>2, <2>3, <2>4
  <1>4c. CASE Shutdown
    <2> USE <1>4c DEF Shutdown
    <2>1. TypeOK'
      OBVIOUS
    <2>2. Named' /\ OwnTimerStopped'
      OBVIOUS
    <2>3. SoloIsSafe'
      OBVIOUS
    <2>4. OwnSockets'
      OBVIOUS
    <2> QED
      BY <2>1, <2>2, <2>3, <2>4
  <1>4d. CASE Close
    <2> USE <1>4d DEF Close
    <2>1. TypeOK'
      OBVIOUS
    <2>2. Named' /\ OwnTimerStopped'
      OBVIOUS
    <2>3. SoloIsSafe'
      OBVIOUS
    <2>4. OwnSockets'
      OBVIOUS
    <2> QED
      BY <2>1, <2>2, <2>3, <2>4
  <1>5a. CASE BleConnect
    <2> USE <1>5a DEF BleConnect
    <2>1. TypeOK'
      OBVIOUS
    <2>2. Named' /\ OwnTimerStopped'
      OBVIOUS
    <2>3. SoloIsSafe'
      OBVIOUS
    <2>4. OwnSockets'
      OBVIOUS
    <2> QED
      BY <2>1, <2>2, <2>3, <2>4
  <1>5b. CASE BleDisconnect
    <2> USE <1>5b DEF BleDisconnect
    <2>1. TypeOK'
      OBVIOUS
    <2>2. Named' /\ OwnTimerStopped'
      OBVIOUS
    <2>3. SoloIsSafe'
      OBVIOUS
    <2>4. OwnSockets'
      OBVIOUS
    <2> QED
      BY <2>1, <2>2, <2>3, <2>4
  <1>6. CASE HttpOpen \/ HttpClose
    <2> USE <1>6 DEF HttpOpen, HttpClose
    <2>1. TypeOK'
      OBVIOUS
    <2>2. Named' /\ OwnTimerStopped'
      OBVIOUS
    <2>3. SoloIsSafe'
      OBVIOUS
    <2>4. OwnSockets'
      OBVIOUS
    <2> QED
      BY <2>1, <2>2, <2>3, <2>4
  <1>7. CASE MainStart
    BY <1>7 DEF MainStart
  <1>8. CASE Boot
    BY <1>8 DEF Boot
  <1> QED
    BY <1>1, <1>2, <1>3, <1>4a, <1>4b, <1>4c, <1>4d, <1>5a, <1>5b, <1>6, <1>7, <1>8 DEF Expire, Peers

LEMMA Stutter == ASSUME IInv, UNCHANGED vars PROVE IInv'
  BY DEF IInv, TypeOK, Named, OwnTimerStopped, SoloIsSafe, OwnSockets, Active, Midway,
     vars, timer, calls, socks, hist

(* The inductive invariant holds in every state.                           *)
THEOREM Invariant == Spec => []IInv
  <1>1. IInv /\ [Next]_vars => IInv'
    <2> SUFFICES ASSUME IInv, [Next]_vars PROVE IInv'
      OBVIOUS
    <2>1. CASE UNCHANGED vars
      BY <2>1, Stutter
    <2>2. ASSUME NEW t \in Tasks, Task(t) PROVE IInv'
      BY <2>2, CancelStep, StartStep, OtherStep DEF Task
    <2>3. CASE Expire \/ Peers \/ Boot
      BY <2>3, OtherStep
    <2> QED
      BY <2>1, <2>2, <2>3 DEF Next
  <1> QED
    BY InitHolds, <1>1, PTL DEF Spec

(* Every variable keeps its type.                                          *)
THEOREM TypeCorrect == Spec => []TypeOK
  <1>1. IInv => TypeOK
    BY DEF IInv
  <1> QED
    BY Invariant, <1>1, PTL

(* cancel_deep_sleep_timer leaves no timer of its own channel running that *)
(* deep_sleep_timer names, whatever the other tasks do meanwhile.          *)
THEOREM OwnTimers == Spec => []OwnTimerStopped
  <1>1. IInv => OwnTimerStopped
    BY DEF IInv
  <1> QED
    BY Invariant, <1>1, PTL

(* Calls of power_util.c that do not overlap fail no ESP_ERROR_CHECK and   *)
(* lose no running timer.                                                  *)
THEOREM SoloCallsAreSafe == Spec => []SoloIsSafe
  <1>1. IInv => SoloIsSafe
    BY DEF IInv
  <1> QED
    BY Invariant, <1>1, PTL

(* Tasks shut and close their own descriptors only, until disconnect_sock  *)
(* has ended a connection.                                                 *)
THEOREM SocketsAreOwn == Spec => []OwnSockets
  <1>1. IInv => OwnSockets
    BY DEF IInv
  <1> QED
    BY Invariant, <1>1, PTL
-----------------------------------------------------------------------------
(* A client is served, or a call of start_deep_sleep_timer has begun whose *)
(* end is an armed timer.                                                  *)
Pending(t) == pc[t] \in {"poll", "halt", "stop", "serve", "shut", "check", "create", "arm"}

(* Once start_deep_sleep_timer was called, the lock is on its way to sleep *)
(* at any moment: a timer runs or has expired, or some task is bound to    *)
(* start one.  No order in which three tasks start and cancel one timer    *)
(* without a lock leaves the device awake and idle.  (GoesToSleep is this, *)
(* with the fairness of tasks and timer.)                                  *)
NeverStranded ==
    due => \/ firing
           \/ \E x \in Timers : Active(x)
           \/ \E t \in Tasks : Pending(t)

(* There is a timer to arm.                                                *)
Created == \A t \in Tasks : pc[t] = "arm" => handle \in Timers

AwakeInv == NeverStranded /\ Created

LEMMA DownClears == ASSUME NEW m, Down(m) PROVE AwakeInv'
  BY DEF Down, AwakeInv, NeverStranded, Created

(* What a task does leaves it pending, or leaves a timer running.          *)
LEMMA TaskKeepsAwake ==
    ASSUME TypeOK, AwakeInv, NEW t \in Tasks, Task(t) PROVE NeverStranded'
  <1> USE DEF TypeOK, AwakeInv, NeverStranded, Created, Pending, Active, Goto, timer, calls, socks, hist
  <1>1. CASE t \in Chan /\ Poll(t)
    <2>1. Pending(t)'
      BY <1>1 DEF Poll
    <2> QED BY <2>1
  <1>2. CASE t \in Chan /\ Halt(t)
    <2>1. Pending(t)'
      BY <1>2 DEF Halt
    <2> QED BY <2>1
  <1>3. CASE t \in Chan /\ Stop(t) /\ ~ Active(handle)
    BY <1>3, DownClears DEF Stop
  <1>4. CASE t \in Chan /\ Stop(t) /\ Active(handle)
    <2>1. Pending(t)'
      BY <1>4 DEF Stop
    <2> QED BY <2>1
  <1>5. CASE Check(t) /\ ~ Active(handle)
    <2>1. Pending(t)'
      BY <1>5 DEF Check
    <2> QED BY <2>1
  <1>6. CASE Check(t) /\ Active(handle)
    <2>1. handle \in Timers /\ Active(handle)'
      BY <1>6 DEF Check
    <2> QED BY <1>6, <2>1 DEF Check
  <1>7. CASE Create(t)
    <2>1. Pending(t)'
      BY <1>7 DEF Create
    <2> QED BY <2>1
  <1>8. CASE Arm(t) /\ Active(handle)
    BY <1>8, DownClears DEF Arm
  <1>9. CASE Arm(t) /\ ~ Active(handle)
    <2>1. handle \in Timers /\ Active(handle)'
      BY <1>9 DEF Arm
    <2> QED BY <1>9, <2>1 DEF Arm
  <1>10. CASE t = "tcp" /\ Shutdown
    <2>1. Pending(t)'
      BY <1>10 DEF Shutdown
    <2> QED BY <2>1
  <1>11. CASE t = "tcp" /\ Close
    BY <1>11 DEF Close
  <1>12. CASE t = "main" /\ MainStart
    BY <1>12 DEF MainStart
  <1> QED
    BY <1>1, <1>2, <1>3, <1>4, <1>5, <1>6, <1>7, <1>8, <1>9, <1>10, <1>11, <1>12
      DEF Task, Start, Cancel

LEMMA TaskKeepsCreated ==
    ASSUME TypeOK, AwakeInv, NEW t \in Tasks, Task(t) PROVE Created'
  <1> USE DEF TypeOK, AwakeInv, Created, Active, Goto, timer, calls, socks, hist
  <1>1. CASE t \in Chan /\ (Poll(t) \/ Halt(t))
    BY <1>1 DEF Poll, Halt
  <1>2. CASE t \in Chan /\ Stop(t)
    BY <1>2, DownClears DEF Stop
  <1>3. CASE Check(t)
    BY <1>3, StartedFacts DEF Check, Midway
  <1>4. CASE Create(t)
    <2>1. handle' \in Timers
      BY <1>4 DEF Create
    <2> QED BY <1>4, <2>1 DEF Create
  <1>5. CASE Arm(t)
    BY <1>5, StartedFacts, DownClears DEF Arm, Midway
  <1>6. CASE t = "tcp" /\ (Shutdown \/ Close)
    BY <1>6 DEF Shutdown, Close
  <1>7. CASE t = "main" /\ MainStart
    BY <1>7 DEF MainStart
  <1> QED
    BY <1>1, <1>2, <1>3, <1>4, <1>5, <1>6, <1>7 DEF Task, Start, Cancel

(* So does what peers do, and a timer that expires leaves its callback.    *)
LEMMA OthersKeepAwake ==
    ASSUME TypeOK, AwakeInv, Expire \/ Peers \/ Boot \/ UNCHANGED vars PROVE AwakeInv'
  <1> USE DEF TypeOK, AwakeInv, NeverStranded, Created, Pending, Active, Goto,
      timer, calls, socks, hist
  <1>1. ASSUME NEW x \in Timers, Fire(x) PROVE AwakeInv'
    BY <1>1 DEF Fire
  <1>2. CASE Sleep
    BY <1>2, DownClears DEF Sleep
  <1>3. CASE Accept \/ BleConnect
    <2>1. Created'
      BY <1>3 DEF Accept, BleConnect
    <2>2. Pending("tcp")' \/ Pending("ble")'
      BY <1>3 DEF Accept, BleConnect
    <2> QED BY <2>1, <2>2
  <1>4. CASE PeerLeft \/ Refuse \/ BleDisconnect
    <2>1. Created'
      BY <1>4 DEF PeerLeft, Refuse, BleDisconnect
    <2>2. Pending("tcp")' \/ Pending("ble")'
      BY <1>4 DEF PeerLeft, Refuse, BleDisconnect
    <2> QED BY <2>1, <2>2
  <1>5. CASE HttpOpen \/ HttpClose \/ Boot
    BY <1>5 DEF HttpOpen, HttpClose, Boot
  <1>6. CASE UNCHANGED vars
    BY <1>6 DEF vars
  <1> QED
    BY <1>1, <1>2, <1>3, <1>4, <1>5, <1>6 DEF Expire, Peers

(* A lock that nobody uses is always on its way to deep sleep: for any     *)
(* interleaving of start_deep_sleep_timer and cancel_deep_sleep_timer.     *)
THEOREM SleepIsCertain == Spec => []NeverStranded
  <1>1. Init => AwakeInv
    BY DEF Init, AwakeInv, NeverStranded, Created
  <1>2. IInv /\ AwakeInv /\ [Next]_vars => AwakeInv'
    <2> SUFFICES ASSUME IInv, AwakeInv, [Next]_vars PROVE AwakeInv'
      OBVIOUS
    <2>1. TypeOK
      BY DEF IInv
    <2>2. ASSUME NEW t \in Tasks, Task(t) PROVE AwakeInv'
      BY <2>1, <2>2, TaskKeepsAwake, TaskKeepsCreated DEF AwakeInv
    <2>3. CASE Expire \/ Peers \/ Boot \/ UNCHANGED vars
      BY <2>1, <2>3, OthersKeepAwake
    <2> QED BY <2>2, <2>3 DEF Next
  <1>3. AwakeInv => NeverStranded
    BY DEF AwakeInv
  <1> QED BY <1>1, <1>2, <1>3, Invariant, PTL DEF Spec
=============================================================================
