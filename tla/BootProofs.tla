----------------------------- MODULE BootProofs -----------------------------
(***************************************************************************)
(* Boot, for any number of retries and of faults: the types, and the       *)
(* invariants of Wifi and Boot.                                            *)
(***************************************************************************)
EXTENDS Boot, TLAPS

(* What the network part keeps: whose handler is registered for where      *)
(* app_main is, what the counters say, and what the bits stand for.        *)
Counters ==
    /\ mode # "sta" => failures = 0
    /\ mode = "sta" /\ sta # "idle" => failures = retry /\ "FAIL" \notin bits
    /\ mode = "sta" /\ sta = "idle" =>
          failures = retry + 1 /\ retry = MaximumRetry /\ "FAIL" \in bits

Handlers ==
    /\ net \in {"get", "sta", "touch"} => mode = "off"
    /\ net \in {"started", "waiting", "joined", "ending"} => mode = "sta"
    /\ net \in {"begun", "await"} => mode = "touch"
    /\ mode = "off" => sta = "off" /\ cred = "none"
    /\ mode # "off" => sta # "off"
    /\ mode = "touch" /\ sta = "idle" => cred = "none"
    /\ mode = "touch" /\ cred = "none" => sta = "idle"
    /\ mode = "sta" => cred # "none"

Verdict ==
    /\ net \in {"get", "sta"} => bits = {} /\ retry = 0
    /\ net = "waiting" => bits = {}
    /\ net = "sta" => saved # "none"
    /\ net = "ending" => "FAIL" \in bits
    /\ net = "joined" => "CONNECTED" \in bits
    /\ net = "up" /\ mode = "sta" => "CONNECTED" \in bits
    /\ online => net = "up"

WInv == WifiTypeOK /\ Counters /\ Handlers /\ Verdict

(* What the boot has behind it.                                            *)
Flags ==
    /\ complete \in BOOLEAN /\ woken \in BOOLEAN
    /\ clock \in BOOLEAN /\ key \in BOOLEAN /\ keyless \in BOOLEAN /\ tcp \in BOOLEAN
    /\ lok \in BOOLEAN /\ timer \in BOOLEAN /\ table \in BOOLEAN /\ link \in BOOLEAN

Places ==
    /\ target \in Targets
    /\ pc \in {"start", "net", "time", "key", "tcp", "flag", "online", "tell", "last", "done"}
    /\ tries \in 0..(RetryCount - 1)
    /\ gap \in {"off", "registering", "privacy", "params", "data", "starting", "on", "ended",
                "dead"}
    /\ view \in {"none", "LNO", "LOK"}
    /\ uart \in {"off", "loop", "read", "line"} /\ data \in Lines \cup {""}

Rest == Flags /\ Places

Passed ==
    /\ pc \notin {"start", "net"} => net = "up"
    /\ pc \in {"tcp", "flag", "online", "tell", "last", "done"} => key \/ keyless
    /\ pc \in {"flag", "online", "tell", "last", "done"} => tcp
    /\ pc \in {"online", "tell", "last", "done"} => online
    /\ woken => key \/ keyless
    /\ lok \/ view = "LOK" => pc \in {"tell", "last", "done"}

IInv == WInv /\ Rest /\ Passed
-----------------------------------------------------------------------------
(* Steps that leave the network alone, and those that reset it.            *)
LEMMA MishapCounts == ASSUME mishaps \in 0..MaxMishaps, Mishap PROVE mishaps' \in 0..MaxMishaps
BY RetryAssumption DEF Mishap

LEMMA WifiStays ==
    ASSUME WInv, UNCHANGED wifi, air' \in BOOLEAN, mishaps' \in 0..MaxMishaps
    PROVE  WInv'
<1>1. WifiTypeOK'
  BY DEF WInv, WifiTypeOK, wifi
<1>2. Counters'
  BY DEF WInv, Counters, wifi
<1>3. Handlers'
  BY DEF WInv, Handlers, wifi
<1>4. Verdict'
  BY DEF WInv, Verdict, wifi
<1>5. QED
  BY <1>1, <1>2, <1>3, <1>4 DEF WInv

LEMMA WifiStarts ==
    ASSUME WInv, WifiDown, air' = air, mishaps' \in 0..MaxMishaps
    PROVE  WInv'
<1>1. WifiTypeOK'
  <2>1. retry' \in 0..MaximumRetry /\ failures' \in 0..(MaximumRetry + 1)
    BY RetryAssumption DEF WInv, WifiTypeOK, Counters, WifiDown
  <2>2. QED
    BY <2>1 DEF WInv, WifiTypeOK, WifiDown
<1>2. Counters'
  BY RetryAssumption DEF WInv, Counters, WifiTypeOK, Handlers, WifiDown
<1>3. Handlers'
  BY RetryAssumption DEF WInv, Handlers, WifiTypeOK, WifiDown
<1>4. Verdict'
  BY RetryAssumption DEF WInv, Verdict, WifiTypeOK, Counters, Handlers, WifiDown
<1>5. QED
  BY <1>1, <1>2, <1>3, <1>4 DEF WInv

(* app_main's part.                                                        *)
LEMMA NetworkHolds == ASSUME WInv, air' = air, Network PROVE WInv'
<1>1. CASE GetSaved
  <2>1. WifiTypeOK'
    BY <1>1, RetryAssumption, MishapCounts DEF WInv, WifiTypeOK, Counters, GetSaved, radio
  <2>2. Counters'
    BY <1>1, RetryAssumption DEF WInv, Counters, WifiTypeOK, Handlers, GetSaved, radio
  <2>3. Handlers'
    BY <1>1, RetryAssumption DEF WInv, Handlers, WifiTypeOK, GetSaved, radio
  <2>4. Verdict'
    BY <1>1, RetryAssumption DEF WInv, Verdict, WifiTypeOK, Counters, Handlers, GetSaved, radio
  <2>5. QED
    BY <2>1, <2>2, <2>3, <2>4 DEF WInv
<1>2. CASE InitSta
  <2>1. WifiTypeOK'
    BY <1>2, RetryAssumption DEF WInv, WifiTypeOK, Counters, InitSta
  <2>2. Counters'
    BY <1>2, RetryAssumption DEF WInv, Counters, WifiTypeOK, Handlers, Verdict, InitSta
  <2>3. Handlers'
    BY <1>2 DEF WInv, Handlers, Verdict, InitSta
  <2>4. Verdict'
    BY <1>2, RetryAssumption DEF WInv, Verdict, WifiTypeOK, Counters, Handlers, InitSta
  <2>5. QED
    BY <2>1, <2>2, <2>3, <2>4 DEF WInv
<1>3. CASE WaitSta
  <2>1. WifiTypeOK'
    BY <1>3, RetryAssumption DEF WInv, WifiTypeOK, Counters, WaitSta, radio, Found
  <2>2. Counters'
    BY <1>3, RetryAssumption DEF WInv, Counters, WifiTypeOK, Handlers, WaitSta, radio, Found
  <2>3. Handlers'
    BY <1>3, RetryAssumption DEF WInv, Handlers, WifiTypeOK, WaitSta, radio, Found
  <2>4. Verdict'
    BY <1>3, RetryAssumption
       DEF WInv, Verdict, WifiTypeOK, Counters, Handlers, WaitSta, radio, Found
  <2>5. QED
    BY <2>1, <2>2, <2>3, <2>4 DEF WInv
<1>4. CASE Joined
  <2>1. WifiTypeOK'
    BY <1>4, RetryAssumption DEF WInv, WifiTypeOK, Counters, Joined, radio
  <2>2. Counters'
    BY <1>4, RetryAssumption DEF WInv, Counters, WifiTypeOK, Handlers, Joined, radio
  <2>3. Handlers'
    BY <1>4, RetryAssumption DEF WInv, Handlers, WifiTypeOK, Joined, radio
  <2>4. Verdict'
    BY <1>4, RetryAssumption DEF WInv, Verdict, WifiTypeOK, Counters, Handlers, Joined, radio
  <2>5. QED
    BY <2>1, <2>2, <2>3, <2>4 DEF WInv
<1>5. CASE Terminate
  <2>1. WifiTypeOK'
    <3>1. retry' \in 0..MaximumRetry /\ failures' \in 0..(MaximumRetry + 1)
      BY <1>5, RetryAssumption DEF WInv, WifiTypeOK, Counters, Terminate
    <3>2. QED
      BY <1>5, <3>1 DEF WInv, WifiTypeOK, Terminate
  <2>2. Counters'
    BY <1>5, RetryAssumption DEF WInv, Counters, WifiTypeOK, Handlers, Terminate
  <2>3. Handlers'
    BY <1>5, RetryAssumption DEF WInv, Handlers, WifiTypeOK, Terminate
  <2>4. Verdict'
    BY <1>5, RetryAssumption DEF WInv, Verdict, WifiTypeOK, Counters, Handlers, Terminate
  <2>5. QED
    BY <2>1, <2>2, <2>3, <2>4 DEF WInv
<1>6. CASE InitTouch
  <2>1. WifiTypeOK'
    BY <1>6, RetryAssumption DEF WInv, WifiTypeOK, Counters, InitTouch
  <2>2. Counters'
    BY <1>6, RetryAssumption DEF WInv, Counters, WifiTypeOK, Handlers, InitTouch
  <2>3. Handlers'
    BY <1>6, RetryAssumption DEF WInv, Handlers, WifiTypeOK, InitTouch
  <2>4. Verdict'
    BY <1>6, RetryAssumption DEF WInv, Verdict, WifiTypeOK, Counters, Handlers, InitTouch
  <2>5. QED
    BY <2>1, <2>2, <2>3, <2>4 DEF WInv
<1>7. CASE WaitTouch
  <2>1. WifiTypeOK'
    BY <1>7, RetryAssumption DEF WInv, WifiTypeOK, Counters, WaitTouch, radio
  <2>2. Counters'
    BY <1>7, RetryAssumption DEF WInv, Counters, WifiTypeOK, Handlers, WaitTouch, radio
  <2>3. Handlers'
    BY <1>7, RetryAssumption DEF WInv, Handlers, WifiTypeOK, WaitTouch, radio
  <2>4. Verdict'
    BY <1>7, RetryAssumption DEF WInv, Verdict, WifiTypeOK, Counters, Handlers, WaitTouch, radio
  <2>5. QED
    BY <2>1, <2>2, <2>3, <2>4 DEF WInv
<1>8. QED
  BY <1>1, <1>2, <1>3, <1>4, <1>5, <1>6, <1>7 DEF Network

LEMMA SmartconfigHolds == ASSUME WInv, air' = air, Smartconfig PROVE WInv'
<1>1. WifiTypeOK'
  BY RetryAssumption DEF WInv, WifiTypeOK, Counters, Smartconfig, radio, Sees
<1>2. Counters'
  BY RetryAssumption DEF WInv, Counters, WifiTypeOK, Handlers, Smartconfig, radio, Sees
<1>3. Handlers'
  BY RetryAssumption DEF WInv, Handlers, WifiTypeOK, Smartconfig, radio, Sees
<1>4. Verdict'
  BY RetryAssumption DEF WInv, Verdict, WifiTypeOK, Counters, Handlers, Smartconfig, radio, Sees
<1>5. QED
  BY <1>1, <1>2, <1>3, <1>4 DEF WInv

(* The handlers: they do not move app_main once it has its network.        *)
LEMMA DisconnectedHolds ==
    ASSUME WInv, air' = air, mishaps' \in 0..MaxMishaps, sta \in {"joining", "up"}, Disconnected
    PROVE  WInv'
<1>1. CASE mode = "sta" /\ retry < MaximumRetry
  <2>1. /\ sta' = "joining" /\ retry' = retry + 1 /\ failures' = failures + 1
        /\ UNCHANGED <<net, bits, touch, saved, mode, cred, sc, acked, online>>
    BY <1>1, RetryAssumption DEF Disconnected, WInv, WifiTypeOK
  <2>2. WifiTypeOK'
    <3>1. retry' \in 0..MaximumRetry /\ failures' \in 0..(MaximumRetry + 1)
      BY <1>1, <2>1, RetryAssumption DEF WInv, WifiTypeOK, Counters
    <3>2. QED
      BY <2>1, <3>1 DEF WInv, WifiTypeOK
  <2>3. Counters'
    BY <1>1, <2>1, RetryAssumption DEF WInv, WifiTypeOK, Counters, Handlers
  <2>4. Handlers'
    BY <1>1, <2>1 DEF WInv, WifiTypeOK, Handlers
  <2>5. Verdict'
    BY <1>1, <2>1 DEF WInv, WifiTypeOK, Counters, Handlers, Verdict
  <2>6. QED
    BY <2>2, <2>3, <2>4, <2>5 DEF WInv
<1>2. CASE mode = "sta" /\ retry >= MaximumRetry
  <2>1. /\ sta' = "idle" /\ failures' = failures + 1 /\ bits' = bits \cup {"FAIL"}
        /\ net' = (IF net = "waiting" THEN Found(bits') ELSE net)
        /\ UNCHANGED <<retry, touch, saved, mode, cred, sc, acked, online>>
    BY <1>2, RetryAssumption DEF Disconnected, SetSta, WInv, WifiTypeOK
  <2>2. WifiTypeOK'
    <3>1. retry' \in 0..MaximumRetry /\ failures' \in 0..(MaximumRetry + 1)
      BY <1>2, <2>1, RetryAssumption DEF WInv, WifiTypeOK, Counters
    <3>2. QED
      BY <2>1, <3>1 DEF Found, WInv, WifiTypeOK
  <2>3. Counters'
    BY <1>2, <2>1, RetryAssumption DEF WInv, WifiTypeOK, Counters, Handlers
  <2>4. Handlers'
    BY <1>2, <2>1 DEF Found, WInv, WifiTypeOK, Handlers
  <2>5. Verdict'
    BY <1>2, <2>1 DEF Found, WInv, WifiTypeOK, Counters, Handlers, Verdict
  <2>6. QED
    BY <2>2, <2>3, <2>4, <2>5 DEF WInv
<1>3. CASE mode = "touch"
  <2>1. /\ sta' = "joining" /\ touch' = touch \ {"CONNECTED"}
        /\ UNCHANGED <<net, retry, bits, failures, saved, mode, cred, sc, acked, online>>
    BY <1>3 DEF Disconnected
  <2>2. WifiTypeOK'
    <3>1. retry' \in 0..MaximumRetry /\ failures' \in 0..(MaximumRetry + 1)
      BY <1>3, <2>1, RetryAssumption DEF WInv, WifiTypeOK, Counters
    <3>2. QED
      BY <2>1, <3>1 DEF WInv, WifiTypeOK
  <2>3. Counters'
    BY <1>3, <2>1, RetryAssumption DEF WInv, WifiTypeOK, Counters, Handlers
  <2>4. Handlers'
    BY <1>3, <2>1 DEF WInv, WifiTypeOK, Handlers
  <2>5. Verdict'
    BY <1>3, <2>1 DEF WInv, WifiTypeOK, Counters, Handlers, Verdict
  <2>6. QED
    BY <2>2, <2>3, <2>4, <2>5 DEF WInv
<1>4. QED
  BY <1>1, <1>2, <1>3 DEF Disconnected

LEMMA DriverHolds == ASSUME WInv, air' = air, Driver PROVE WInv'
<1>1. CASE GotIp
  <2>1. CASE mode = "sta"
    <3>1. WifiTypeOK'
      <4>1. retry' \in 0..MaximumRetry /\ failures' \in 0..(MaximumRetry + 1)
        BY <1>1, <2>1, RetryAssumption DEF WInv, WifiTypeOK, Counters, GotIp, SetSta, Found
      <4>2. QED
        BY <1>1, <2>1, <4>1 DEF WInv, WifiTypeOK, GotIp, SetSta, Found
    <3>2. Counters'
      BY <1>1, <2>1, RetryAssumption
         DEF WInv, Counters, WifiTypeOK, Handlers, GotIp, SetSta, Found
    <3>3. Handlers'
      BY <1>1, <2>1, RetryAssumption DEF WInv, Handlers, WifiTypeOK, GotIp, SetSta, Found
    <3>4. Verdict'
      BY <1>1, <2>1, RetryAssumption
         DEF WInv, Verdict, WifiTypeOK, Counters, Handlers, GotIp, SetSta, Found
    <3>5. QED
      BY <3>1, <3>2, <3>3, <3>4 DEF WInv
  <2>2. CASE mode = "touch"
    <3>1. WifiTypeOK'
      BY <1>1, <2>2, RetryAssumption DEF WInv, WifiTypeOK, Counters, GotIp, SetTouch, Sees
    <3>2. Counters'
      BY <1>1, <2>2, RetryAssumption
         DEF WInv, Counters, WifiTypeOK, Handlers, GotIp, SetTouch, Sees
    <3>3. Handlers'
      BY <1>1, <2>2, RetryAssumption DEF WInv, Handlers, WifiTypeOK, GotIp, SetTouch, Sees
    <3>4. Verdict'
      BY <1>1, <2>2, RetryAssumption
         DEF WInv, Verdict, WifiTypeOK, Counters, Handlers, GotIp, SetTouch, Sees
    <3>5. QED
      BY <3>1, <3>2, <3>3, <3>4 DEF WInv
  <2>3. QED
    BY <1>1, <2>1, <2>2 DEF GotIp
<1>2. CASE JoinFails
  <2>1. mishaps' \in 0..MaxMishaps
    BY <1>2, MishapCounts DEF JoinFails, WInv, WifiTypeOK
  <2>2. QED
    BY <1>2, <2>1, DisconnectedHolds DEF JoinFails
<1>3. CASE Dropped
  BY <1>3, DisconnectedHolds DEF Dropped, WInv, WifiTypeOK
<1>4. CASE \E c \in {"right", "wrong"} : Provision(c) /\ mishaps' \in 0..MaxMishaps
  <2>1. WifiTypeOK'
    BY <1>4, RetryAssumption DEF WInv, WifiTypeOK, Counters, Provision
  <2>2. Counters'
    BY <1>4, RetryAssumption DEF WInv, Counters, WifiTypeOK, Handlers, Provision
  <2>3. Handlers'
    BY <1>4, RetryAssumption DEF WInv, Handlers, WifiTypeOK, Provision
  <2>4. Verdict'
    BY <1>4, RetryAssumption DEF WInv, Verdict, WifiTypeOK, Counters, Handlers, Provision
  <2>5. QED
    BY <2>1, <2>2, <2>3, <2>4 DEF WInv
<1>5. CASE ProvisionRight
  BY <1>4, <1>5 DEF ProvisionRight, WInv, WifiTypeOK
<1>6. CASE ProvisionAmiss
  BY <1>4, <1>6, MishapCounts DEF ProvisionAmiss, WInv, WifiTypeOK
<1>7. CASE AckDone
  <2>1. WifiTypeOK'
    BY <1>7, RetryAssumption DEF WInv, WifiTypeOK, Counters, AckDone, SetTouch, Sees
  <2>2. Counters'
    BY <1>7, RetryAssumption DEF WInv, Counters, WifiTypeOK, Handlers, AckDone, SetTouch, Sees
  <2>3. Handlers'
    BY <1>7, RetryAssumption DEF WInv, Handlers, WifiTypeOK, AckDone, SetTouch, Sees
  <2>4. Verdict'
    BY <1>7, RetryAssumption
       DEF WInv, Verdict, WifiTypeOK, Counters, Handlers, AckDone, SetTouch, Sees
  <2>5. QED
    BY <2>1, <2>2, <2>3, <2>4 DEF WInv
<1>8. QED
  BY <1>1, <1>2, <1>3, <1>5, <1>6, <1>7 DEF Driver, Attempt

LEMMA DriverSpares == ASSUME Driver, net = "up" PROVE net' = "up" /\ online' = online
<1>1. CASE GotIp
  BY <1>1 DEF GotIp, SetSta, SetTouch
<1>2. CASE JoinFails \/ Dropped
  BY <1>2 DEF JoinFails, Dropped, Disconnected, SetSta
<1>3. CASE ProvisionRight \/ ProvisionAmiss
  BY <1>3 DEF ProvisionRight, ProvisionAmiss, Provision
<1>4. CASE AckDone
  BY <1>4 DEF AckDone, SetTouch
<1>5. QED
  BY <1>1, <1>2, <1>3, <1>4 DEF Driver, Attempt
-----------------------------------------------------------------------------
LEMMA InitHolds == Init => IInv
<1>1. SUFFICES ASSUME Init PROVE IInv
  OBVIOUS
<1>2. WifiTypeOK
  <2>1. 0 \in 0..MaxMishaps /\ 0 \in 0..MaximumRetry /\ 0 \in 0..(MaximumRetry + 1)
    BY RetryAssumption
  <2>2. QED
    BY <1>1, <2>1 DEF Init, WifiInit, WifiTypeOK
<1>3. Counters /\ Handlers /\ Verdict
  BY <1>1 DEF Init, WifiInit, Counters, Handlers, Verdict
<1>4. Rest
  <2>1. 0 \in 0..(RetryCount - 1)
    BY BootAssumption
  <2>2. QED
    BY <1>1, <2>1 DEF Init, Rest, Flags, Places
<1>5. Passed
  BY <1>1 DEF Init, Passed
<1>6. QED
  BY <1>2, <1>3, <1>4, <1>5 DEF WInv, IInv

LEMMA DownHolds ==
    ASSUME IInv, NEW wake \in BOOLEAN, Down(wake), clock' \in BOOLEAN, mishaps' \in 0..MaxMishaps
    PROVE  IInv'
<1>1. WInv'
  BY WifiStarts DEF IInv, Down
<1>2. Rest'
  <2>1. 0 \in 0..(RetryCount - 1)
    BY BootAssumption
  <2>2. key' \in BOOLEAN /\ keyless' \in BOOLEAN
    BY DEF IInv, Rest, Flags, Down
  <2>3. QED
    BY <2>1, <2>2 DEF IInv, Rest, Flags, Places, Down
<1>3. Passed'
  BY DEF Passed, Down
<1>4. QED
  BY <1>1, <1>2, <1>3 DEF IInv

LEMMA RestartHolds == ASSUME IInv, Restart PROVE IInv'
<1>1. clock' \in BOOLEAN /\ mishaps' \in 0..MaxMishaps
  BY DEF IInv, Restart, Rest, Flags, WInv, WifiTypeOK
<1>2. QED
  BY <1>1, DownHolds DEF Restart
-----------------------------------------------------------------------------
(* app_main, one step at a time.                                           *)
LEMMA StartBleCounts ==
    ASSUME mishaps \in 0..MaxMishaps, gap \in STRING, StartBle
    PROVE  mishaps' \in 0..MaxMishaps /\ gap' \in {"registering", "dead"}
BY MishapCounts DEF StartBle

LEMMA StartHolds == ASSUME IInv, Start PROVE IInv'
<1>1. WInv'
  <2>1. UNCHANGED wifi /\ air' \in BOOLEAN /\ mishaps' \in 0..MaxMishaps
    BY MishapCounts DEF IInv, WInv, WifiTypeOK, Start, StartBle, s3
  <2>2. QED
    BY <2>1, WifiStays DEF IInv
<1>2. Rest'
  <2>1. Flags'
    BY DEF IInv, Rest, Flags, Start, StartBle, Goto, s3, s2
  <2>2. Places'
    BY DEF IInv, Rest, Places, Start, StartBle, Goto, s3, s2
  <2>3. QED
    BY <2>1, <2>2 DEF Rest
<1>3. Passed'
  BY DEF IInv, Passed, Start, StartBle, Goto, s3, wifi
<1>4. QED
  BY <1>1, <1>2, <1>3 DEF IInv

LEMMA ConnectingHolds == ASSUME IInv, Connecting PROVE IInv'
<1>1. WInv'
  BY NetworkHolds DEF IInv, Connecting
<1>2. Rest'
  <2>1. Flags'
    BY DEF IInv, Rest, Flags, Connecting, boot, s3, s2
  <2>2. Places'
    BY DEF IInv, Rest, Places, Connecting, boot, s3, s2
  <2>3. QED
    BY <2>1, <2>2 DEF Rest
<1>3. Passed'
  BY DEF IInv, Passed, Connecting, boot, s3
<1>4. QED
  BY <1>1, <1>2, <1>3 DEF IInv

LEMMA ConnectedHolds == ASSUME IInv, Connected PROVE IInv'
<1>1. WInv'
  <2>1. UNCHANGED wifi /\ air' \in BOOLEAN /\ mishaps' \in 0..MaxMishaps
    BY MishapCounts DEF IInv, WInv, WifiTypeOK, Connected
  <2>2. QED
    BY <2>1, WifiStays DEF IInv
<1>2. Rest'
  <2>1. 0 \in 0..(RetryCount - 1)
    BY BootAssumption
  <2>2. Flags'
    BY DEF IInv, Rest, Flags, Connected, Goto, s3, s2
  <2>3. Places'
    BY <2>1 DEF IInv, Rest, Places, Connected, Goto, s3, s2
  <2>4. QED
    BY <2>2, <2>3 DEF Rest
<1>3. Passed'
  BY DEF IInv, Passed, Connected, Goto, wifi, s3
<1>4. QED
  BY <1>1, <1>2, <1>3 DEF IInv

LEMMA ObtainTimeHolds == ASSUME IInv, ObtainTime PROVE IInv'
<1>1. WInv'
  <2>1. UNCHANGED wifi /\ air' \in BOOLEAN /\ mishaps' \in 0..MaxMishaps
    BY MishapCounts DEF IInv, WInv, WifiTypeOK, ObtainTime
  <2>2. QED
    BY <2>1, WifiStays DEF IInv
<1>2. Rest'
  <2>1. tries' \in 0..(RetryCount - 1)
    <3>1. tries' = tries \/ (~ (tries + 1 >= RetryCount) /\ tries' = tries + 1)
      BY DEF ObtainTime
    <3>2. tries \in 0..(RetryCount - 1)
      BY DEF IInv, Rest, Places
    <3>3. QED
      BY <3>1, <3>2, BootAssumption
  <2>2. Flags'
    BY DEF IInv, Rest, Flags, ObtainTime, Goto, s3, s2
  <2>3. Places'
    BY <2>1 DEF IInv, Rest, Places, ObtainTime, Goto, s3, s2
  <2>4. QED
    BY <2>2, <2>3 DEF Rest
<1>3. Passed'
  BY DEF IInv, Passed, ObtainTime, Goto, wifi, s3
<1>4. QED
  BY <1>1, <1>2, <1>3 DEF IInv

LEMMA InitRsaKeyHolds == ASSUME IInv, InitRsaKey PROVE IInv'
<1>1. WInv'
  <2>1. UNCHANGED wifi /\ air' \in BOOLEAN /\ mishaps' \in 0..MaxMishaps
    BY MishapCounts DEF IInv, WInv, WifiTypeOK, InitRsaKey
  <2>2. QED
    BY <2>1, WifiStays DEF IInv
<1>2. Rest'
  <2>1. Flags'
    BY DEF IInv, Rest, Flags, InitRsaKey, Goto, s3, s2
  <2>2. Places'
    BY DEF IInv, Rest, Places, InitRsaKey, Goto, s3, s2
  <2>3. QED
    BY <2>1, <2>2 DEF Rest
<1>3. Passed'
  BY DEF IInv, Passed, Rest, Flags, InitRsaKey, Goto, wifi, s3
<1>4. QED
  BY <1>1, <1>2, <1>3 DEF IInv

LEMMA TcpMainHolds == ASSUME IInv, TcpMain PROVE IInv'
<1>1. WInv'
  <2>1. UNCHANGED wifi /\ air' \in BOOLEAN /\ mishaps' \in 0..MaxMishaps
    BY MishapCounts DEF IInv, WInv, WifiTypeOK, TcpMain
  <2>2. QED
    BY <2>1, WifiStays DEF IInv
<1>2. Rest'
  <2>1. Flags'
    BY DEF IInv, Rest, Flags, TcpMain, Goto, s3, s2
  <2>2. Places'
    BY DEF IInv, Rest, Places, TcpMain, Goto, s3, s2
  <2>3. QED
    BY <2>1, <2>2 DEF Rest
<1>3. Passed'
  BY DEF IInv, Passed, TcpMain, Goto, wifi, s3
<1>4. QED
  BY <1>1, <1>2, <1>3 DEF IInv

LEMMA SetConnectedHolds == ASSUME IInv, SetConnected PROVE IInv'
<1>1. WInv'
  <2>1. net = "up" /\ online' = TRUE
    BY DEF IInv, Passed, SetConnected
  <2>2. WifiTypeOK'
    BY <2>1 DEF IInv, WInv, WifiTypeOK, SetConnected, radio
  <2>3. Counters'
    BY DEF IInv, WInv, Counters, SetConnected, radio
  <2>4. Handlers'
    BY DEF IInv, WInv, Handlers, SetConnected, radio
  <2>5. Verdict'
    BY <2>1 DEF IInv, WInv, Verdict, SetConnected, radio
  <2>6. QED
    BY <2>2, <2>3, <2>4, <2>5 DEF WInv
<1>2. Rest'
  <2>1. Flags'
    BY DEF IInv, Rest, Flags, SetConnected, Goto, s3, s2
  <2>2. Places'
    BY DEF IInv, Rest, Places, SetConnected, Goto, s3, s2
  <2>3. QED
    BY <2>1, <2>2 DEF Rest
<1>3. Passed'
  BY DEF IInv, Passed, SetConnected, Goto, s3
<1>4. QED
  BY <1>1, <1>2, <1>3 DEF IInv

LEMMA OnlineHolds == ASSUME IInv, Online PROVE IInv'
<1>1. WInv'
  <2>1. UNCHANGED wifi /\ air' \in BOOLEAN /\ mishaps' \in 0..MaxMishaps
    BY MishapCounts DEF IInv, WInv, WifiTypeOK, Online
  <2>2. QED
    BY <2>1, WifiStays DEF IInv
<1>2. Rest'
  <2>1. Flags'
    BY DEF IInv, Rest, Flags, Online, Goto, s3, s2
  <2>2. Places'
    BY DEF IInv, Rest, Places, Online, Goto, s3, s2
  <2>3. QED
    BY <2>1, <2>2 DEF Rest
<1>3. Passed'
  BY DEF IInv, Passed, Online, Goto, wifi, s3
<1>4. QED
  BY <1>1, <1>2, <1>3 DEF IInv

LEMMA TellHolds == ASSUME IInv, Tell PROVE IInv'
<1>1. WInv'
  <2>1. UNCHANGED wifi /\ air' \in BOOLEAN /\ mishaps' \in 0..MaxMishaps
    BY MishapCounts DEF IInv, WInv, WifiTypeOK, Tell, StartBle
  <2>2. QED
    BY <2>1, WifiStays DEF IInv
<1>2. Rest'
  <2>1. Flags'
    BY DEF IInv, Rest, Flags, Tell, StartBle, Goto, s3, s2
  <2>2. Places'
    BY DEF IInv, Rest, Places, Tell, StartBle, Goto, s3, s2
  <2>3. QED
    BY <2>1, <2>2 DEF Rest
<1>3. Passed'
  BY DEF IInv, Passed, Tell, StartBle, Goto, wifi, s3
<1>4. QED
  BY <1>1, <1>2, <1>3 DEF IInv

LEMMA LastHolds == ASSUME IInv, Last PROVE IInv'
<1>1. WInv'
  <2>1. UNCHANGED wifi /\ air' \in BOOLEAN /\ mishaps' \in 0..MaxMishaps
    BY MishapCounts DEF IInv, WInv, WifiTypeOK, Last
  <2>2. QED
    BY <2>1, WifiStays DEF IInv
<1>2. Rest'
  <2>1. timer' \in BOOLEAN
    BY DEF IInv, Rest, Last
  <2>2. Flags'
    BY DEF IInv, Rest, Flags, Last, Goto, s3, s2
  <2>3. Places'
    BY <2>1 DEF IInv, Rest, Places, Last, Goto, s3, s2
  <2>4. QED
    BY <2>2, <2>3 DEF Rest
<1>3. Passed'
  BY DEF IInv, Passed, Last, Goto, wifi, s3
<1>4. QED
  BY <1>1, <1>2, <1>3 DEF IInv

-----------------------------------------------------------------------------
(* Bluetooth, on either target.                                            *)
LEMMA GapHolds == ASSUME IInv, Gap PROVE IInv'
<1>1. WInv'
  <2>1. UNCHANGED wifi /\ air' \in BOOLEAN /\ mishaps' \in 0..MaxMishaps
    BY MishapCounts DEF IInv, WInv, WifiTypeOK, Gap
  <2>2. QED
    BY <2>1, WifiStays DEF IInv
<1>2. Rest'
  <2>1. Flags'
    BY DEF IInv, Rest, Flags, Gap, boot, s2
  <2>2. Places'
    BY DEF IInv, Rest, Places, Gap, boot, s2
  <2>3. QED
    BY <2>1, <2>2 DEF Rest
<1>3. Passed'
  BY DEF IInv, Passed, Gap, boot, wifi
<1>4. QED
  BY <1>1, <1>2, <1>3 DEF IInv

LEMMA AttrTabHolds == ASSUME IInv, AttrTab PROVE IInv'
<1>1. WInv'
  <2>1. UNCHANGED wifi /\ air' \in BOOLEAN /\ mishaps' \in 0..MaxMishaps
    BY MishapCounts DEF IInv, WInv, WifiTypeOK, AttrTab
  <2>2. QED
    BY <2>1, WifiStays DEF IInv
<1>2. Rest'
  <2>1. Flags'
    BY DEF IInv, Rest, Flags, AttrTab, boot, s2
  <2>2. Places'
    BY DEF IInv, Rest, Places, AttrTab, boot, s2
  <2>3. QED
    BY <2>1, <2>2 DEF Rest
<1>3. Passed'
  BY DEF IInv, Passed, AttrTab, boot, wifi
<1>4. QED
  BY <1>1, <1>2, <1>3 DEF IInv

LEMMA ConnectHolds == ASSUME IInv, Connect PROVE IInv'
<1>1. WInv'
  <2>1. UNCHANGED wifi /\ air' \in BOOLEAN /\ mishaps' \in 0..MaxMishaps
    BY MishapCounts DEF IInv, WInv, WifiTypeOK, Connect
  <2>2. QED
    BY <2>1, WifiStays DEF IInv
<1>2. Rest'
  <2>1. Flags'
    BY DEF IInv, Rest, Flags, Connect, boot, s2
  <2>2. Places'
    BY DEF IInv, Rest, Places, Connect, boot, s2
  <2>3. QED
    BY <2>1, <2>2 DEF Rest
<1>3. Passed'
  BY DEF IInv, Passed, Connect, boot, wifi
<1>4. QED
  BY <1>1, <1>2, <1>3 DEF IInv

LEMMA DisconnectHolds == ASSUME IInv, Disconnect PROVE IInv'
<1>1. WInv'
  <2>1. UNCHANGED wifi /\ air' \in BOOLEAN /\ mishaps' \in 0..MaxMishaps
    BY MishapCounts DEF IInv, WInv, WifiTypeOK, Disconnect
  <2>2. QED
    BY <2>1, WifiStays DEF IInv
<1>2. Rest'
  <2>1. Flags'
    BY DEF IInv, Rest, Flags, Disconnect, boot, s2
  <2>2. Places'
    BY DEF IInv, Rest, Places, Disconnect, boot, s2
  <2>3. QED
    BY <2>1, <2>2 DEF Rest
<1>3. Passed'
  BY DEF IInv, Passed, Disconnect, boot, wifi
<1>4. QED
  BY <1>1, <1>2, <1>3 DEF IInv

LEMMA PingHolds == ASSUME IInv, Ping PROVE IInv'
<1>1. WInv'
  <2>1. UNCHANGED wifi /\ air' \in BOOLEAN /\ mishaps' \in 0..MaxMishaps
    BY MishapCounts DEF IInv, WInv, WifiTypeOK, Ping
  <2>2. QED
    BY <2>1, WifiStays DEF IInv
<1>2. Rest'
  <2>1. Flags'
    BY DEF IInv, Rest, Flags, Ping, boot, s2
  <2>2. Places'
    BY DEF IInv, Rest, Places, Ping, boot, s2
  <2>3. QED
    BY <2>1, <2>2 DEF Rest
<1>3. Passed'
  BY DEF IInv, Passed, Ping, boot, wifi
<1>4. QED
  BY <1>1, <1>2, <1>3 DEF IInv

LEMMA EchoHolds ==
    ASSUME IInv, EchoFrame, uart' \in {"off", "loop", "read", "line"}, data' \in Lines \cup {""},
           timer' \in BOOLEAN
    PROVE  IInv'
<1>1. WInv'
  <2>1. UNCHANGED wifi /\ air' \in BOOLEAN /\ mishaps' \in 0..MaxMishaps
    BY MishapCounts DEF IInv, WInv, WifiTypeOK, EchoFrame
  <2>2. QED
    BY <2>1, WifiStays DEF IInv
<1>2. Rest'
  <2>1. Flags'
    BY DEF IInv, Rest, Flags, EchoFrame, boot, s3
  <2>2. Places'
    BY DEF IInv, Rest, Places, EchoFrame, boot, s3
  <2>3. QED
    BY <2>1, <2>2 DEF Rest
<1>3. Passed'
  BY DEF IInv, Passed, EchoFrame, boot, s3, wifi
<1>4. QED
  BY <1>1, <1>2, <1>3 DEF IInv

LEMMA EchoTaskHolds == ASSUME IInv, echo_task PROVE IInv'
<1> USE DEF IInv, Rest, Flags, Places, EchoFrame
<1>1. CASE Pong
  BY <1>1, EchoHolds DEF Pong
<1>2. CASE PongFaults
  BY <1>2, RestartHolds DEF PongFaults
<1>3. CASE ToRead
  BY <1>3, EchoHolds DEF ToRead
<1>4. CASE Read
  BY <1>4, EchoHolds DEF Read
<1>5. CASE Line
  BY <1>5, EchoHolds DEF Line
<1>6. QED
  BY <1>1, <1>2, <1>3, <1>4, <1>5 DEF echo_task

-----------------------------------------------------------------------------
(* The surroundings.                                                       *)
LEMMA AirOutHolds == ASSUME IInv, AirOut PROVE IInv'
<1>1. WInv'
  <2>1. UNCHANGED wifi /\ air' \in BOOLEAN /\ mishaps' \in 0..MaxMishaps
    BY MishapCounts DEF IInv, WInv, WifiTypeOK, AirOut
  <2>2. QED
    BY <2>1, WifiStays DEF IInv
<1>2. Rest'
  <2>1. Flags'
    BY DEF IInv, Rest, Flags, AirOut, Surroundings, boot, s3, s2
  <2>2. Places'
    BY DEF IInv, Rest, Places, AirOut, Surroundings, boot, s3, s2
  <2>3. QED
    BY <2>1, <2>2 DEF Rest
<1>3. Passed'
  BY DEF IInv, Passed, AirOut, Surroundings, boot, s3, wifi
<1>4. QED
  BY <1>1, <1>2, <1>3 DEF IInv

LEMMA AirBackHolds == ASSUME IInv, AirBack PROVE IInv'
<1>1. WInv'
  <2>1. UNCHANGED wifi /\ air' \in BOOLEAN /\ mishaps' \in 0..MaxMishaps
    BY MishapCounts DEF IInv, WInv, WifiTypeOK, AirBack
  <2>2. QED
    BY <2>1, WifiStays DEF IInv
<1>2. Rest'
  <2>1. Flags'
    BY DEF IInv, Rest, Flags, AirBack, Surroundings, boot, s3, s2
  <2>2. Places'
    BY DEF IInv, Rest, Places, AirBack, Surroundings, boot, s3, s2
  <2>3. QED
    BY <2>1, <2>2 DEF Rest
<1>3. Passed'
  BY DEF IInv, Passed, AirBack, Surroundings, boot, s3, wifi
<1>4. QED
  BY <1>1, <1>2, <1>3 DEF IInv

LEMMA EventsHolds == ASSUME IInv, Events PROVE IInv'
<1>1. WInv'
  BY DriverHolds DEF IInv, Events
<1>2. Rest'
  <2>1. Flags'
    BY DEF IInv, Rest, Flags, Events, Surroundings, boot, s3, s2
  <2>2. Places'
    BY DEF IInv, Rest, Places, Events, Surroundings, boot, s3, s2
  <2>3. QED
    BY <2>1, <2>2 DEF Rest
<1>3. Passed'
  BY DriverSpares DEF IInv, Passed, Events, Surroundings, boot, s3
<1>4. QED
  BY <1>1, <1>2, <1>3 DEF IInv

LEMMA SmartconfigTaskHolds == ASSUME IInv, smartconfig_task PROVE IInv'
<1>1. WInv'
  BY SmartconfigHolds DEF IInv, smartconfig_task
<1>2. Rest'
  <2>1. Flags'
    BY DEF IInv, Rest, Flags, smartconfig_task, Surroundings, boot, s3, s2
  <2>2. Places'
    BY DEF IInv, Rest, Places, smartconfig_task, Surroundings, boot, s3, s2
  <2>3. QED
    BY <2>1, <2>2 DEF Rest
<1>3. Passed'
  BY DEF IInv, Passed, smartconfig_task, Smartconfig, Surroundings, boot, s3
<1>4. QED
  BY <1>1, <1>2, <1>3 DEF IInv

LEMMA SyncHolds == ASSUME IInv, Sync PROVE IInv'
<1>1. WInv'
  <2>1. UNCHANGED wifi /\ air' \in BOOLEAN /\ mishaps' \in 0..MaxMishaps
    BY MishapCounts DEF IInv, WInv, WifiTypeOK, Sync
  <2>2. QED
    BY <2>1, WifiStays DEF IInv
<1>2. Rest'
  <2>1. Flags'
    BY DEF IInv, Rest, Flags, Sync, boot, s3, s2
  <2>2. Places'
    BY DEF IInv, Rest, Places, Sync, boot, s3, s2
  <2>3. QED
    BY <2>1, <2>2 DEF Rest
<1>3. Passed'
  BY DEF IInv, Passed, Sync, boot, s3, wifi
<1>4. QED
  BY <1>1, <1>2, <1>3 DEF IInv

LEMMA ResetHolds ==
    ASSUME IInv, PowerCut \/ WriteCommand \/ Sleep \/ StartOver \/ TellFaults \/ TerminateAborts
    PROVE  IInv'
<1>1. clock \in BOOLEAN /\ mishaps \in 0..MaxMishaps
  BY DEF IInv, Rest, Flags, WInv, WifiTypeOK
<1>2. CASE PowerCut
  BY <1>1, <1>2, DownHolds, MishapCounts DEF PowerCut
<1>3. CASE WriteCommand
  <2>1. Mishap
    BY <1>3 DEF WriteCommand, Mishap
  <2>2. QED
    BY <1>1, <1>3, <2>1, DownHolds, MishapCounts DEF WriteCommand
<1>4. CASE Sleep
  BY <1>1, <1>4, DownHolds DEF Sleep
<1>5. CASE StartOver \/ TellFaults \/ TerminateAborts
  BY <1>5, RestartHolds DEF StartOver, TellFaults, TerminateAborts
<1>6. QED
  BY <1>2, <1>3, <1>4, <1>5

LEMMA StutterHolds == ASSUME IInv, UNCHANGED vars PROVE IInv'
<1>1. WInv'
  <2>1. UNCHANGED wifi /\ air' \in BOOLEAN /\ mishaps' \in 0..MaxMishaps
    BY MishapCounts DEF IInv, WInv, WifiTypeOK, vars
  <2>2. QED
    BY <2>1, WifiStays DEF IInv
<1>2. Rest'
  <2>1. Flags'
    BY DEF IInv, Rest, Flags, vars, boot, s3, s2
  <2>2. Places'
    BY DEF IInv, Rest, Places, vars, boot, s3, s2
  <2>3. QED
    BY <2>1, <2>2 DEF Rest
<1>3. Passed'
  BY DEF IInv, Passed, vars, boot, s3, wifi
<1>4. QED
  BY <1>1, <1>2, <1>3 DEF IInv

(* Every step keeps the invariant.                                         *)
THEOREM Invariant == Spec => []IInv
<1>1. IInv /\ [Next]_vars => IInv'
  <2>1. SUFFICES ASSUME IInv, [Next]_vars PROVE IInv'
    OBVIOUS
  <2>2. CASE app_main
    BY <2>1, <2>2, StartHolds, ConnectingHolds, ConnectedHolds, ObtainTimeHolds, InitRsaKeyHolds,
       TcpMainHolds, SetConnectedHolds, OnlineHolds, TellHolds, ResetHolds, LastHolds
       DEF app_main
  <2>3. CASE smartconfig_task \/ echo_task \/ Events
    BY <2>1, <2>3, SmartconfigTaskHolds, EchoTaskHolds, EventsHolds
  <2>4. CASE Gap \/ AttrTab \/ Connect \/ Disconnect \/ Ping
    BY <2>1, <2>4, GapHolds, AttrTabHolds, ConnectHolds, DisconnectHolds, PingHolds
  <2>5. CASE WriteCommand \/ Sleep \/ PowerCut \/ StartOver
    BY <2>1, <2>5, ResetHolds
  <2>6. CASE AirOut \/ AirBack \/ Sync
    BY <2>1, <2>6, AirOutHolds, AirBackHolds, SyncHolds
  <2>7. CASE UNCHANGED vars
    BY <2>1, <2>7, StutterHolds
  <2>8. QED
    BY <2>1, <2>2, <2>3, <2>4, <2>5, <2>6, <2>7 DEF Next
<1>2. QED
  BY <1>1, InitHolds, PTL DEF Spec

(* The types of Wifi and Boot.                                             *)
THEOREM TypeCorrect == Spec => []TypeOK
<1>1. IInv => TypeOK
  BY DEF IInv, WInv, Rest, Flags, Places, TypeOK
<1>2. QED
  BY <1>1, Invariant, PTL

(* event_handler of wifi_connect_util.c gives up only after all of its     *)
(* retries failed in a row, and says so.                                   *)
THEOREM RetriesFirst == Spec => []GivesUpLate
<1>1. IInv => GivesUpLate
  <2>1. SUFFICES ASSUME IInv, cred # "none", sta = "idle"
                 PROVE  "FAIL" \in bits /\ failures > MaximumRetry
    BY DEF GivesUpLate
  <2>2. mode = "sta"
    BY <2>1 DEF IInv, WInv, WifiTypeOK, Handlers
  <2>3. failures = retry + 1 /\ retry = MaximumRetry /\ "FAIL" \in bits
    BY <2>1, <2>2 DEF IInv, WInv, Counters
  <2>4. QED
    BY <2>3, RetryAssumption
<1>2. QED
  BY <1>1, Invariant, PTL

(* What wifi_init_sta returns is what happened.                            *)
THEOREM VerdictHolds == Spec => []VerdictIsTrue
<1>1. IInv /\ GivesUpLate => VerdictIsTrue
  <2>1. SUFFICES ASSUME IInv, GivesUpLate PROVE VerdictIsTrue
    OBVIOUS
  <2>2. ASSUME net = "ending" PROVE failures > MaximumRetry
    <3>1. mode = "sta" /\ "FAIL" \in bits
      BY <2>1, <2>2 DEF IInv, WInv, Handlers, Verdict
    <3>2. failures = retry + 1 /\ retry = MaximumRetry
      BY <2>1, <3>1 DEF IInv, WInv, Counters
    <3>3. QED
      BY <3>2, RetryAssumption
  <2>3. online /\ mode = "sta" => "CONNECTED" \in bits
    BY <2>1 DEF IInv, WInv, Verdict
  <2>4. QED
    BY <2>1, <2>2, <2>3 DEF VerdictIsTrue
<1>2. QED
  BY <1>1, Invariant, RetriesFirst, PTL

(* LOK, from app_main or in answer to PNG, is said after app_main has      *)
(* started what it stands for.                                             *)
THEOREM LokIsTrue == Spec => []LokMeansReady
<1>1. IInv => LokMeansReady
  BY DEF IInv, Passed, LokMeansReady
<1>2. QED
  BY <1>1, Invariant, PTL
-----------------------------------------------------------------------------
(* Nobody waits for what will not come.  While app_main waits for the      *)
(* saved network the station is trying it; while it waits for ESP-Touch    *)
(* the smartconfig task exists, and either a phone may still send          *)
(* credentials, or the station is trying those it has, or it has joined    *)
(* and the acknowledgement, which ends the wait, is still to come; and     *)
(* advertising is only off, once begun, while there is a connection, whose *)
(* end starts it again.  The part of BootCompletes and of Discoverable     *)
(* that is not about fairness.                                             *)
WaitsAreServed ==
    /\ net = "waiting" => sta = "joining"
    /\ net = "await" =>
        /\ sc # "none"
        /\ cred = "none" \/ sta = "joining" \/ (sta = "up" /\ ~ acked)
    /\ gap = "ended" => link

(* What the bits, the task and the acknowledgement still promise.          *)
Pledged ==
    /\ mode = "sta" /\ sta = "up" => "CONNECTED" \in bits
    /\ mode = "touch" => sc # "none"
    /\ net = "begun" => cred = "none"
    /\ net # "up" => ~ acked

Heard == gap = "ended" => link

LEMMA PledgedStays == ASSUME Pledged, UNCHANGED wifi PROVE Pledged'
BY DEF Pledged, wifi

LEMMA PledgedStarts == ASSUME WifiDown PROVE Pledged'
BY DEF Pledged, WifiDown

LEMMA NetworkKeepsPledge == ASSUME WInv, Pledged, Network PROVE Pledged'
<1>1. CASE GetSaved
  BY <1>1 DEF GetSaved, Pledged, radio
<1>2. CASE InitSta
  BY <1>2 DEF InitSta, Pledged
<1>3. CASE WaitSta
  BY <1>3 DEF WaitSta, Found, Pledged, radio
<1>4. CASE Joined
  BY <1>4 DEF Joined, Pledged, radio
<1>5. CASE Terminate
  BY <1>5 DEF Terminate, Pledged
<1>6. CASE InitTouch
  BY <1>6 DEF InitTouch, Pledged, WInv, Handlers
<1>7. CASE WaitTouch
  BY <1>7 DEF WaitTouch, Pledged, radio
<1>8. QED
  BY <1>1, <1>2, <1>3, <1>4, <1>5, <1>6, <1>7 DEF Network

LEMMA SmartconfigKeepsPledge == ASSUME Pledged, Smartconfig PROVE Pledged'
BY DEF Pledged, Smartconfig, Sees, radio

LEMMA DisconnectedKeepsPledge ==
    ASSUME WInv, Pledged, sta \in {"joining", "up"}, Disconnected
    PROVE  Pledged'
<1>1. CASE mode = "sta"
  <2>1. mode' = "sta" /\ sta' # "up" /\ UNCHANGED <<sc, cred, acked>>
    BY <1>1 DEF Disconnected
  <2>2. net' # "begun" /\ (net' # "up" => net # "up")
    BY <1>1 DEF Disconnected, SetSta, Found, WInv, Handlers
  <2>3. QED
    BY <2>1, <2>2 DEF Pledged
<1>2. CASE mode = "touch"
  BY <1>2 DEF Disconnected, Pledged
<1>3. QED
  BY <1>1, <1>2 DEF Disconnected

LEMMA DriverKeepsPledge == ASSUME WInv, Pledged, Driver PROVE Pledged'
<1>1. CASE GotIp
  <2>1. CASE mode = "sta"
    <3>1. "CONNECTED" \in bits' /\ UNCHANGED <<sc, cred, acked, mode>>
      BY <1>1, <2>1 DEF GotIp, SetSta
    <3>2. net' # "begun" /\ (net' # "up" => net # "up")
      BY <1>1, <2>1 DEF GotIp, SetSta, Found, WInv, Handlers
    <3>3. QED
      BY <2>1, <3>1, <3>2 DEF Pledged
  <2>2. CASE mode = "touch"
    <3>1. sc' # "none" /\ UNCHANGED <<net, cred, acked, mode>>
      BY <1>1, <2>2 DEF GotIp, SetTouch, Sees, Pledged
    <3>2. QED
      BY <2>2, <3>1 DEF Pledged
  <2>3. QED
    BY <1>1, <2>1, <2>2 DEF GotIp
<1>2. CASE JoinFails \/ Dropped
  BY <1>2, DisconnectedKeepsPledge DEF JoinFails, Dropped
<1>3. CASE ProvisionRight \/ ProvisionAmiss
  BY <1>3 DEF ProvisionRight, ProvisionAmiss, Provision, Pledged
<1>4. CASE AckDone
  <2>1. cred # "none"
    BY <1>4 DEF AckDone, WInv, Handlers
  <2>2. net \in {"await", "up"}
    BY <1>4, <2>1 DEF AckDone, WInv, WifiTypeOK, Handlers, Pledged
  <2>3. net' = "up"
    BY <1>4, <2>2 DEF AckDone, SetTouch
  <2>4. mode' = "touch" /\ sc' # "none"
    BY <1>4 DEF AckDone, SetTouch, Sees, Pledged
  <2>5. QED
    BY <2>3, <2>4 DEF Pledged
<1>5. QED
  BY <1>1, <1>2, <1>3, <1>4 DEF Driver, Attempt

(* app_main waits only for what others are about to do, and a lock without *)
(* a connection is on its way to advertise, whatever the network does.     *)
THEOREM WaitsEnd == Spec => []WaitsAreServed
<1>1. Init => Pledged /\ Heard
  BY DEF Init, WifiInit, Pledged, Heard
<1>2. IInv /\ Pledged /\ [Next]_vars => Pledged'
  <2>1. SUFFICES ASSUME IInv, Pledged, [Next]_vars PROVE Pledged'
    OBVIOUS
  <2>2. CASE Connecting \/ smartconfig_task \/ Events
    BY <2>1, <2>2, NetworkKeepsPledge, SmartconfigKeepsPledge, DriverKeepsPledge
       DEF Connecting, smartconfig_task, Events, IInv
  <2>3. CASE SetConnected
    BY <2>1, <2>3 DEF SetConnected, Pledged, radio
  <2>4. CASE \/ TellFaults \/ TerminateAborts \/ PongFaults \/ WriteCommand \/ Sleep \/ PowerCut
             \/ StartOver
    BY <2>1, <2>4, PledgedStarts
       DEF TellFaults, TerminateAborts, PongFaults, WriteCommand, Sleep, PowerCut, StartOver,
           Restart, Down
  <2>5. CASE Start \/ Connected \/ ObtainTime \/ InitRsaKey \/ TcpMain \/ Online \/ Tell \/ Last
    BY <2>1, <2>5, PledgedStays
       DEF Start, Connected, ObtainTime, InitRsaKey, TcpMain, Online, Tell, Last
  <2>6. CASE Pong \/ ToRead \/ Read \/ Line
    BY <2>1, <2>6, PledgedStays DEF Pong, ToRead, Read, Line, EchoFrame
  <2>7. CASE Gap \/ AttrTab \/ Connect \/ Disconnect \/ Ping
    BY <2>1, <2>7, PledgedStays DEF Gap, AttrTab, Connect, Disconnect, Ping
  <2>8. CASE AirOut \/ AirBack \/ Sync \/ UNCHANGED vars
    BY <2>1, <2>8, PledgedStays DEF AirOut, AirBack, Sync, vars
  <2>9. QED
    BY <2>1, <2>2, <2>3, <2>4, <2>5, <2>6, <2>7, <2>8 DEF Next, app_main, echo_task
<1>3. Heard /\ [Next]_vars => Heard'
  <2>1. SUFFICES ASSUME Heard, [Next]_vars PROVE Heard'
    OBVIOUS
  <2>2. CASE UNCHANGED <<gap, link>>
    BY <2>1, <2>2 DEF Heard
  <2>3. CASE gap' # "ended" \/ link'
    BY <2>3 DEF Heard
  <2>4. CASE app_main
    BY <2>2, <2>3, <2>4
       DEF app_main, Start, StartBle, Connecting, TerminateAborts, Connected, ObtainTime,
           InitRsaKey, TcpMain, SetConnected, Online, Tell, TellFaults, Last, Restart, Down, s3
  <2>5. CASE smartconfig_task \/ echo_task \/ Events
    BY <2>2, <2>3, <2>5
       DEF smartconfig_task, echo_task, Events, Surroundings, Pong, PongFaults, ToRead, Read, Line,
           EchoFrame, Restart, Down, s3
  <2>6. CASE Gap \/ AttrTab \/ Connect \/ Disconnect \/ Ping
    BY <2>2, <2>3, <2>6 DEF Gap, AttrTab, Connect, Disconnect, Ping
  <2>7. CASE WriteCommand \/ Sleep \/ PowerCut \/ StartOver
    BY <2>3, <2>7 DEF WriteCommand, Sleep, PowerCut, StartOver, Restart, Down
  <2>8. CASE AirOut \/ AirBack \/ Sync \/ UNCHANGED vars
    BY <2>2, <2>8 DEF AirOut, AirBack, Sync, Surroundings, s3, vars
  <2>9. QED
    BY <2>1, <2>4, <2>5, <2>6, <2>7, <2>8 DEF Next
<1>4. IInv /\ Pledged /\ Heard => WaitsAreServed
  <2>1. SUFFICES ASSUME IInv, Pledged, Heard PROVE WaitsAreServed
    OBVIOUS
  <2>2. ASSUME net = "waiting" PROVE sta = "joining"
    <3>1. mode = "sta" /\ bits = {} /\ sta # "off"
      BY <2>1, <2>2 DEF IInv, WInv, Handlers, Verdict
    <3>2. sta # "idle" /\ sta # "up"
      BY <2>1, <3>1 DEF IInv, WInv, Counters, Pledged
    <3>3. QED
      BY <2>1, <3>1, <3>2 DEF IInv, WInv, WifiTypeOK
  <2>3. ASSUME net = "await"
        PROVE  /\ sc # "none"
               /\ cred = "none" \/ sta = "joining" \/ (sta = "up" /\ ~ acked)
    BY <2>1, <2>3 DEF IInv, WInv, WifiTypeOK, Handlers, Pledged
  <2>4. QED
    BY <2>1, <2>2, <2>3 DEF WaitsAreServed, Heard
<1>5. QED
  BY <1>1, <1>2, <1>3, <1>4, Invariant, PTL DEF Spec
=============================================================================
