------------------------- MODULE RegistrationProofs -------------------------
(***************************************************************************)
(* Theorems about Registration, for any number of mishaps and parts of an  *)
(* answer.                                                                 *)
(***************************************************************************)
EXTENDS Registration, TLAPS

USE BoundsAssumption DEF BoundsAssumption, Tasks, Statuses, UNKNOWN_STATUS, NOT_REGISTERED,
    REGISTERED, COMPLETE

(* Places between the arrival of a message and its answer.                 *)
Handling == {"get1", "force2", "get2", "first", "plain", "get3", "verify", "invite"}

(* While the Bluetooth task handles a message that no earlier question for *)
(* the status outlives, every task that asks for it has asked during the   *)
(* message, and so has the one that brought a REGISTERED that is found     *)
(* after the first comparison.  An invite is asked for by a task that      *)
(* found the status REGISTERED, or for a client that has rights.           *)
FreshInv ==
    /\ InviteIsFresh
    /\ call["ble"] \in {"status", "return"} => pc["ble"] \in Gets
    /\ pc["ble"] # "idle" /\ ~ overlap =>
          /\ \A t \in Tasks : call[t] = "status" => fresh[t]
          /\ pc["ble"] \in {"get2", "first", "plain", "get3"} => since \/ status # REGISTERED
    /\ pc["ble"] = "verify" \/ peer = "authorized" => srv # NOT_REGISTERED

(* Once the lock is registered, NOT_REGISTERED is only found between the   *)
(* server's doing it and app_main's forcing the status.                    *)
RegisteredInv ==
    /\ call["main"] = "register" => pc["main"] = "register"
    /\ call["ble"] # "register" /\ call["tcp"] # "register"
    /\ srv # NOT_REGISTERED /\ ~ crossed =>
          /\ \A t \in Tasks : ans[t] # NOT_REGISTERED
          /\ status = NOT_REGISTERED =>
                pc["main"] = "force" \/ (pc["main"] = "register" /\ call["main"] = "register")

(* A phone waits while its message is handled.                             *)
KeyedInv ==
    /\ KeyedCanGoOn
    /\ pc["ble"] # "idle" => link
    /\ pc["ble"] \in Handling => view = "wait"

IInv == TypeOK /\ NeverAhead /\ FreshInv /\ RegisteredInv /\ OffsetRecovers /\ KeyedInv

LEMMA InitHolds == Init => IInv
  <1> SUFFICES ASSUME Init PROVE IInv
    OBVIOUS
  <1>1. TasksOK
    BY DEF Init, TasksOK, MainPlaces, BlePlaces, TcpPlaces
  <1>2. HttpOK
    BY DEF Init, Each, HttpOK
  <1>3. RestOK
    BY DEF Init, RestOK
  <1>7. MarksOK
    BY DEF Init, Each, MarksOK
  <1>8. FlagsOK
    BY DEF Init, FlagsOK
  <1>4. NeverAhead
    BY DEF Init, Each, NeverAhead
  <1>5. FreshInv /\ RegisteredInv
    BY DEF Init, Each, FreshInv, InviteIsFresh, RegisteredInv
  <1>6. OffsetRecovers /\ KeyedInv
    BY DEF Init, OffsetRecovers, KeyedInv, KeyedCanGoOn, Handling
  <1> QED
    BY <1>1, <1>2, <1>3, <1>4, <1>5, <1>6, <1>7, <1>8 DEF IInv, TypeOK

(* After a restart, and after deep sleep, everything is as at first.       *)
LEMMA DownHolds ==
    ASSUME IInv, NEW how \in {"start", "wake"}, Down(how), mishaps' \in 0..MaxMishaps
    PROVE  IInv'
  <1>1. TasksOK'
    BY DEF Down, TasksOK, MainPlaces, BlePlaces, TcpPlaces
  <1>2. HttpOK'
    BY DEF Down, Each, HttpOK
  <1>3. RestOK'
    BY DEF IInv, TypeOK, Down, world, RestOK
  <1>7. MarksOK'
    BY DEF Down, Each, MarksOK
  <1>8. FlagsOK'
    BY DEF IInv, TypeOK, Down, world, FlagsOK
  <1>4. NeverAhead'
    BY DEF IInv, TypeOK, RestOK, Down, world, Each, NeverAhead
  <1>5. FreshInv' /\ RegisteredInv'
    BY DEF Down, Each, FreshInv, InviteIsFresh, RegisteredInv
  <1>6. OffsetRecovers' /\ KeyedInv'
    BY DEF Down, OffsetRecovers, KeyedInv, KeyedCanGoOn, Handling
  <1> QED
    BY <1>1, <1>2, <1>3, <1>4, <1>5, <1>6, <1>7, <1>8 DEF IInv, TypeOK

(* The four events of a request.                                           *)
LEMMA RequestStep ==
    ASSUME IInv, NEW t \in Tasks, Wire(t) \/ Lose(t) PROVE IInv'
  <1>1. CASE Serve(t)
    <2>1. TasksOK'
      BY <1>1 DEF IInv, TypeOK, TasksOK, MainPlaces, BlePlaces, TcpPlaces, Serve, Mishap, world,
         http, ram, ble, tcp, hist
    <2>2. HttpOK'
      BY <1>1 DEF IInv, TypeOK, HttpOK, RestOK, Serve, Mishap, world, http, ram, ble, tcp, hist
    <2>3. MarksOK'
      BY <1>1 DEF IInv, TypeOK, MarksOK, Serve, Mishap, world, http, ram, ble, tcp, hist
    <2>4. FlagsOK'
      BY <1>1 DEF IInv, TypeOK, FlagsOK, MarksOK, Serve, Mishap, world, http, ram, ble, tcp, hist
    <2>5. RestOK'
      BY <1>1 DEF IInv, TypeOK, RestOK, HttpOK, Serve, Mishap, world, http, ram, ble, tcp, hist
    <2>6. NeverAhead'
      BY <1>1 DEF IInv, TypeOK, NeverAhead, HttpOK, RestOK, Serve, Mishap, world, http, ram, ble,
         tcp, hist
    <2>7. FreshInv'
      BY <1>1 DEF IInv, TypeOK, FreshInv, InviteIsFresh, NeverAhead, Gets, TasksOK, HttpOK,
         MarksOK, FlagsOK, RestOK, MainPlaces, BlePlaces, TcpPlaces, Serve, Mishap, world, http,
         ram, ble, tcp, hist
    <2>8. RegisteredInv'
      BY <1>1 DEF IInv, TypeOK, RegisteredInv, TasksOK, HttpOK, MainPlaces, BlePlaces, TcpPlaces,
         NeverAhead, RestOK, Serve, Mishap, world, http, ram, ble, tcp, hist
    <2>9. OffsetRecovers'
      BY <1>1 DEF IInv, TypeOK, OffsetRecovers, HttpOK, Serve, Mishap, world, http, ram, ble,
         tcp, hist
    <2>10. KeyedInv'
      BY <1>1 DEF IInv, TypeOK, KeyedInv, KeyedCanGoOn, Handling, TasksOK, MainPlaces, BlePlaces,
         TcpPlaces, Serve, Mishap, world, http, ram, ble, tcp, hist
    <2> QED
      BY <2>1, <2>2, <2>3, <2>4, <2>5, <2>6, <2>7, <2>8, <2>9, <2>10 DEF IInv, TypeOK
  <1>2. CASE Data(t)
    <2>1. TasksOK'
      BY <1>2 DEF IInv, TypeOK, TasksOK, MainPlaces, BlePlaces, TcpPlaces, Data, world, http,
         ram, ble, tcp, hist
    <2>2. HttpOK'
      BY <1>2 DEF IInv, TypeOK, HttpOK, RestOK, Data, world, http, ram, ble, tcp, hist
    <2>3. MarksOK'
      BY <1>2 DEF IInv, TypeOK, MarksOK, Data, world, http, ram, ble, tcp, hist
    <2>4. FlagsOK'
      BY <1>2 DEF IInv, TypeOK, FlagsOK, MarksOK, Data, world, http, ram, ble, tcp, hist
    <2>5. RestOK'
      BY <1>2 DEF IInv, TypeOK, RestOK, HttpOK, Data, world, http, ram, ble, tcp, hist
    <2>6. NeverAhead'
      BY <1>2 DEF IInv, TypeOK, NeverAhead, HttpOK, RestOK, Data, world, http, ram, ble, tcp,
         hist
    <2>7. FreshInv'
      BY <1>2 DEF IInv, TypeOK, FreshInv, InviteIsFresh, NeverAhead, Gets, TasksOK, HttpOK,
         MarksOK, FlagsOK, RestOK, MainPlaces, BlePlaces, TcpPlaces, Data, world, http, ram, ble,
         tcp, hist
    <2>8. RegisteredInv'
      BY <1>2 DEF IInv, TypeOK, RegisteredInv, TasksOK, HttpOK, MainPlaces, BlePlaces, TcpPlaces,
         NeverAhead, RestOK, Data, world, http, ram, ble, tcp, hist
    <2>9. OffsetRecovers'
      BY <1>2 DEF IInv, TypeOK, OffsetRecovers, HttpOK, Data, world, http, ram, ble, tcp, hist
    <2>10. KeyedInv'
      BY <1>2 DEF IInv, TypeOK, KeyedInv, KeyedCanGoOn, Handling, TasksOK, MainPlaces, BlePlaces,
         TcpPlaces, Data, world, http, ram, ble, tcp, hist
    <2> QED
      BY <2>1, <2>2, <2>3, <2>4, <2>5, <2>6, <2>7, <2>8, <2>9, <2>10 DEF IInv, TypeOK
  <1>3. CASE Finish(t)
    <2>1. TasksOK'
      BY <1>3 DEF IInv, TypeOK, TasksOK, MainPlaces, BlePlaces, TcpPlaces, Finish, world, http,
         ram, ble, tcp, hist
    <2>2. HttpOK'
      BY <1>3 DEF IInv, TypeOK, HttpOK, RestOK, Finish, world, http, ram, ble, tcp, hist
    <2>3. MarksOK'
      BY <1>3 DEF IInv, TypeOK, MarksOK, Finish, world, http, ram, ble, tcp, hist
    <2>4. FlagsOK'
      BY <1>3 DEF IInv, TypeOK, FlagsOK, MarksOK, Finish, world, http, ram, ble, tcp, hist
    <2>5. RestOK'
      BY <1>3 DEF IInv, TypeOK, RestOK, HttpOK, Finish, world, http, ram, ble, tcp, hist
    <2>6. NeverAhead'
      BY <1>3 DEF IInv, TypeOK, NeverAhead, HttpOK, RestOK, Finish, world, http, ram, ble, tcp,
         hist
    <2>7. FreshInv'
      BY <1>3 DEF IInv, TypeOK, FreshInv, InviteIsFresh, NeverAhead, Gets, TasksOK, HttpOK,
         MarksOK, FlagsOK, RestOK, MainPlaces, BlePlaces, TcpPlaces, Finish, world, http, ram, ble,
         tcp, hist
    <2>8. RegisteredInv'
      BY <1>3 DEF IInv, TypeOK, RegisteredInv, TasksOK, HttpOK, MainPlaces, BlePlaces, TcpPlaces,
         NeverAhead, RestOK, Finish, world, http, ram, ble, tcp, hist
    <2>9. OffsetRecovers'
      BY <1>3 DEF IInv, TypeOK, OffsetRecovers, HttpOK, Finish, world, http, ram, ble, tcp, hist
    <2>10. KeyedInv'
      BY <1>3 DEF IInv, TypeOK, KeyedInv, KeyedCanGoOn, Handling, TasksOK, MainPlaces, BlePlaces,
         TcpPlaces, Finish, world, http, ram, ble, tcp, hist
    <2> QED
      BY <2>1, <2>2, <2>3, <2>4, <2>5, <2>6, <2>7, <2>8, <2>9, <2>10 DEF IInv, TypeOK
  <1>4. CASE Lose(t)
    <2>1. TasksOK'
      BY <1>4 DEF IInv, TypeOK, TasksOK, MainPlaces, BlePlaces, TcpPlaces, Lose, Mishap, world,
         http, ram, ble, tcp, hist
    <2>2. HttpOK'
      BY <1>4 DEF IInv, TypeOK, HttpOK, RestOK, Lose, Mishap, world, http, ram, ble, tcp, hist
    <2>3. MarksOK'
      BY <1>4 DEF IInv, TypeOK, MarksOK, Lose, Mishap, world, http, ram, ble, tcp, hist
    <2>4. FlagsOK'
      BY <1>4 DEF IInv, TypeOK, FlagsOK, MarksOK, Lose, Mishap, world, http, ram, ble, tcp, hist
    <2>5. RestOK'
      BY <1>4 DEF IInv, TypeOK, RestOK, HttpOK, Lose, Mishap, world, http, ram, ble, tcp, hist
    <2>6. NeverAhead'
      BY <1>4 DEF IInv, TypeOK, NeverAhead, HttpOK, RestOK, Lose, Mishap, world, http, ram, ble,
         tcp, hist
    <2>7. FreshInv'
      BY <1>4 DEF IInv, TypeOK, FreshInv, InviteIsFresh, NeverAhead, Gets, TasksOK, HttpOK,
         MarksOK, FlagsOK, RestOK, MainPlaces, BlePlaces, TcpPlaces, Lose, Mishap, world, http, ram,
         ble, tcp, hist
    <2>8. RegisteredInv'
      BY <1>4 DEF IInv, TypeOK, RegisteredInv, TasksOK, HttpOK, MainPlaces, BlePlaces, TcpPlaces,
         NeverAhead, RestOK, Lose, Mishap, world, http, ram, ble, tcp, hist
    <2>9. OffsetRecovers'
      BY <1>4 DEF IInv, TypeOK, OffsetRecovers, HttpOK, Lose, Mishap, world, http, ram, ble, tcp,
         hist
    <2>10. KeyedInv'
      BY <1>4 DEF IInv, TypeOK, KeyedInv, KeyedCanGoOn, Handling, TasksOK, MainPlaces, BlePlaces,
         TcpPlaces, Lose, Mishap, world, http, ram, ble, tcp, hist
    <2> QED
      BY <2>1, <2>2, <2>3, <2>4, <2>5, <2>6, <2>7, <2>8, <2>9, <2>10 DEF IInv, TypeOK
  <1> QED
    BY <1>1, <1>2, <1>3, <1>4 DEF Wire

(* Reading and forcing the status.                                         *)
LEMMA StatusStep ==
    ASSUME IInv, NEW t \in Tasks, Ask(t) \/ Learn(t) \/ ForceGet(t) PROVE IInv'
  <1>1. CASE ForceGet(t)
    <2>1. TasksOK'
      BY <1>1 DEF IInv, TypeOK, TasksOK, MainPlaces, BlePlaces, TcpPlaces, ForceGet, Forced,
         Goto, world, http, ram, ble, tcp, hist
    <2>2. HttpOK'
      BY <1>1 DEF IInv, TypeOK, HttpOK, RestOK, ForceGet, Forced, Goto, world, http, ram, ble,
         tcp, hist
    <2>3. MarksOK'
      BY <1>1 DEF IInv, TypeOK, MarksOK, ForceGet, Forced, Goto, world, http, ram, ble, tcp, hist
    <2>4. FlagsOK'
      BY <1>1 DEF IInv, TypeOK, FlagsOK, MarksOK, ForceGet, Forced, Goto, world, http, ram, ble,
         tcp, hist
    <2>5. RestOK'
      BY <1>1 DEF IInv, TypeOK, RestOK, HttpOK, ForceGet, Forced, Goto, world, http, ram, ble,
         tcp, hist
    <2>6. NeverAhead'
      BY <1>1 DEF IInv, TypeOK, NeverAhead, HttpOK, RestOK, ForceGet, Forced, Goto, world, http,
         ram, ble, tcp, hist
    <2>7. FreshInv'
      BY <1>1 DEF IInv, TypeOK, FreshInv, InviteIsFresh, NeverAhead, Gets, TasksOK, HttpOK,
         MarksOK, FlagsOK, RestOK, MainPlaces, BlePlaces, TcpPlaces, ForceGet, Forced, Goto, world,
         http, ram, ble, tcp, hist
    <2>8. RegisteredInv'
      BY <1>1 DEF IInv, TypeOK, RegisteredInv, TasksOK, HttpOK, MainPlaces, BlePlaces, TcpPlaces,
         NeverAhead, RestOK, ForceGet, Forced, Goto, world, http, ram, ble, tcp, hist
    <2>9. OffsetRecovers'
      BY <1>1 DEF IInv, TypeOK, OffsetRecovers, HttpOK, ForceGet, Forced, Goto, world, http, ram,
         ble, tcp, hist
    <2>10. KeyedInv'
      BY <1>1 DEF IInv, TypeOK, KeyedInv, KeyedCanGoOn, Handling, TasksOK, MainPlaces, BlePlaces,
         TcpPlaces, ForceGet, Forced, Goto, world, http, ram, ble, tcp, hist
    <2> QED
      BY <2>1, <2>2, <2>3, <2>4, <2>5, <2>6, <2>7, <2>8, <2>9, <2>10 DEF IInv, TypeOK
  <1>2. CASE Ask(t)
    <2>1. TasksOK'
      BY <1>2 DEF IInv, TypeOK, TasksOK, MainPlaces, BlePlaces, TcpPlaces, Ask, Issue, Gets,
         world, http, ram, ble, tcp, hist
    <2>2. HttpOK'
      BY <1>2 DEF IInv, TypeOK, HttpOK, RestOK, Ask, Issue, Gets, world, http, ram, ble, tcp,
         hist
    <2>3. MarksOK'
      BY <1>2 DEF IInv, TypeOK, MarksOK, Ask, Issue, Gets, world, http, ram, ble, tcp, hist
    <2>4. FlagsOK'
      BY <1>2 DEF IInv, TypeOK, FlagsOK, MarksOK, Ask, Issue, Gets, world, http, ram, ble, tcp,
         hist
    <2>5. RestOK'
      BY <1>2 DEF IInv, TypeOK, RestOK, HttpOK, Ask, Issue, Gets, world, http, ram, ble, tcp,
         hist
    <2>6. NeverAhead'
      BY <1>2 DEF IInv, TypeOK, NeverAhead, HttpOK, RestOK, Ask, Issue, Gets, world, http, ram,
         ble, tcp, hist
    <2>7. FreshInv'
      <3> USE DEF IInv, TypeOK, TasksOK, HttpOK, MarksOK, BlePlaces, Gets
      <3>1. /\ pc' = pc /\ srv' = srv /\ peer' = peer /\ status' = status /\ since' = since
            /\ overlap' = overlap /\ pc[t] \in Gets
        BY <1>2 DEF Ask, world, ram, tcp
      <3>2. \A u \in Tasks : call'[u] = IF u = t THEN call'[t] ELSE call[u]
        BY <1>2 DEF Ask, Issue
      <3>3. call'[t] \in {"status", "return"} /\ (call'[t] = "status" => fresh' = [fresh EXCEPT ![t] = (pc["ble"] # "idle")])
            /\ (call'[t] = "return" => fresh' = fresh)
        BY <1>2 DEF Ask, Issue
      <3>4. ASSUME pc["ble"] # "idle", ~ overlap, NEW u \in Tasks, call'[u] = "status"
            PROVE  fresh'[u]
        <4>1. \A v \in Tasks : call[v] = "status" => fresh[v]
          BY <3>4 DEF FreshInv
        <4>2. CASE u = t
          BY <4>2, <3>3, <3>4
        <4>3. CASE u # t
          <5>1. fresh[u]
            BY <4>1, <4>3, <3>2, <3>4
          <5>2. fresh' = fresh \/ fresh' = [fresh EXCEPT ![t] = (pc["ble"] # "idle")]
            BY <3>3
          <5> QED
            BY <5>1, <5>2, <4>3
        <4> QED
          BY <4>2, <4>3
      <3> QED
        BY <3>1, <3>2, <3>3, <3>4 DEF FreshInv, InviteIsFresh
    <2>8. RegisteredInv'
      BY <1>2 DEF IInv, TypeOK, RegisteredInv, TasksOK, HttpOK, MainPlaces, BlePlaces, TcpPlaces,
         NeverAhead, RestOK, Ask, Issue, Gets, world, http, ram, ble, tcp, hist
    <2>9. OffsetRecovers'
      BY <1>2 DEF IInv, TypeOK, OffsetRecovers, HttpOK, Ask, Issue, Gets, world, http, ram, ble,
         tcp, hist
    <2>10. KeyedInv'
      BY <1>2 DEF IInv, TypeOK, KeyedInv, KeyedCanGoOn, Handling, TasksOK, MainPlaces, BlePlaces,
         TcpPlaces, Ask, Issue, Gets, world, http, ram, ble, tcp, hist
    <2> QED
      BY <2>1, <2>2, <2>3, <2>4, <2>5, <2>6, <2>7, <2>8, <2>9, <2>10 DEF IInv, TypeOK
  <1>3. CASE Learn(t)
    <2>1. TasksOK'
      BY <1>3 DEF IInv, TypeOK, TasksOK, MainPlaces, BlePlaces, TcpPlaces, Learn, Answer, Take,
         world, http, ram, ble, tcp, hist
    <2>2. HttpOK'
      BY <1>3 DEF IInv, TypeOK, HttpOK, RestOK, Learn, Answer, Take, world, http, ram, ble, tcp,
         hist
    <2>3. MarksOK'
      BY <1>3 DEF IInv, TypeOK, MarksOK, Learn, Answer, Take, world, http, ram, ble, tcp, hist
    <2>4. FlagsOK'
      BY <1>3 DEF IInv, TypeOK, FlagsOK, MarksOK, Learn, Answer, Take, world, http, ram, ble,
         tcp, hist
    <2>5. RestOK'
      BY <1>3 DEF IInv, TypeOK, RestOK, HttpOK, Learn, Answer, Take, world, http, ram, ble, tcp,
         hist
    <2>6. NeverAhead'
      BY <1>3 DEF IInv, TypeOK, NeverAhead, HttpOK, RestOK, Learn, Answer, Take, world, http,
         ram, ble, tcp, hist
    <2>7. FreshInv'
      BY <1>3 DEF IInv, TypeOK, FreshInv, InviteIsFresh, NeverAhead, Gets, TasksOK, HttpOK,
         MarksOK, FlagsOK, RestOK, MainPlaces, BlePlaces, TcpPlaces, Learn, Answer, Take, world,
         http, ram, ble, tcp, hist
    <2>8. RegisteredInv'
      BY <1>3 DEF IInv, TypeOK, RegisteredInv, TasksOK, HttpOK, MainPlaces, BlePlaces, TcpPlaces,
         NeverAhead, RestOK, Learn, Answer, Take, world, http, ram, ble, tcp, hist
    <2>9. OffsetRecovers'
      BY <1>3 DEF IInv, TypeOK, OffsetRecovers, HttpOK, Learn, Answer, Take, world, http, ram,
         ble, tcp, hist
    <2>10. KeyedInv'
      BY <1>3 DEF IInv, TypeOK, KeyedInv, KeyedCanGoOn, Handling, TasksOK, MainPlaces, BlePlaces,
         TcpPlaces, Learn, Answer, Take, world, http, ram, ble, tcp, hist
    <2> QED
      BY <2>1, <2>2, <2>3, <2>4, <2>5, <2>6, <2>7, <2>8, <2>9, <2>10 DEF IInv, TypeOK
  <1> QED
    BY <1>1, <1>2, <1>3

(* app_main.                                                               *)
LEMMA MainStep ==
    ASSUME IInv, app_main PROVE IInv'
  <1>1. CASE Wifi
    <2>1. TasksOK'
      BY <1>1 DEF IInv, TypeOK, TasksOK, MainPlaces, BlePlaces, TcpPlaces, Wifi, Goto, world,
         http, ram, ble, tcp, hist
    <2>2. HttpOK'
      BY <1>1 DEF IInv, TypeOK, HttpOK, RestOK, Wifi, Goto, world, http, ram, ble, tcp, hist
    <2>3. MarksOK'
      BY <1>1 DEF IInv, TypeOK, MarksOK, Wifi, Goto, world, http, ram, ble, tcp, hist
    <2>4. FlagsOK'
      BY <1>1 DEF IInv, TypeOK, FlagsOK, MarksOK, Wifi, Goto, world, http, ram, ble, tcp, hist
    <2>5. RestOK'
      BY <1>1 DEF IInv, TypeOK, RestOK, HttpOK, Wifi, Goto, world, http, ram, ble, tcp, hist
    <2>6. NeverAhead'
      BY <1>1 DEF IInv, TypeOK, NeverAhead, HttpOK, RestOK, Wifi, Goto, world, http, ram, ble,
         tcp, hist
    <2>7. FreshInv'
      BY <1>1 DEF IInv, TypeOK, FreshInv, InviteIsFresh, NeverAhead, Gets, TasksOK, HttpOK,
         MarksOK, FlagsOK, RestOK, MainPlaces, BlePlaces, TcpPlaces, Wifi, Goto, world, http, ram,
         ble, tcp, hist
    <2>8. RegisteredInv'
      BY <1>1 DEF IInv, TypeOK, RegisteredInv, TasksOK, HttpOK, MainPlaces, BlePlaces, TcpPlaces,
         NeverAhead, RestOK, Wifi, Goto, world, http, ram, ble, tcp, hist
    <2>9. OffsetRecovers'
      BY <1>1 DEF IInv, TypeOK, OffsetRecovers, HttpOK, Wifi, Goto, world, http, ram, ble, tcp,
         hist
    <2>10. KeyedInv'
      BY <1>1 DEF IInv, TypeOK, KeyedInv, KeyedCanGoOn, Handling, TasksOK, MainPlaces, BlePlaces,
         TcpPlaces, Wifi, Goto, world, http, ram, ble, tcp, hist
    <2> QED
      BY <2>1, <2>2, <2>3, <2>4, <2>5, <2>6, <2>7, <2>8, <2>9, <2>10 DEF IInv, TypeOK
  <1>2. CASE SetKey
    <2>1. TasksOK'
      BY <1>2 DEF IInv, TypeOK, TasksOK, MainPlaces, BlePlaces, TcpPlaces, SetKey, Goto, Mishap,
         world, http, ram, ble, tcp, hist
    <2>2. HttpOK'
      BY <1>2 DEF IInv, TypeOK, HttpOK, RestOK, SetKey, Goto, Mishap, world, http, ram, ble, tcp,
         hist
    <2>3. MarksOK'
      BY <1>2 DEF IInv, TypeOK, MarksOK, SetKey, Goto, Mishap, world, http, ram, ble, tcp, hist
    <2>4. FlagsOK'
      BY <1>2 DEF IInv, TypeOK, FlagsOK, MarksOK, SetKey, Goto, Mishap, world, http, ram, ble,
         tcp, hist
    <2>5. RestOK'
      BY <1>2 DEF IInv, TypeOK, RestOK, HttpOK, SetKey, Goto, Mishap, world, http, ram, ble, tcp,
         hist
    <2>6. NeverAhead'
      BY <1>2 DEF IInv, TypeOK, NeverAhead, HttpOK, RestOK, SetKey, Goto, Mishap, world, http,
         ram, ble, tcp, hist
    <2>7. FreshInv'
      BY <1>2 DEF IInv, TypeOK, FreshInv, InviteIsFresh, NeverAhead, Gets, TasksOK, HttpOK,
         MarksOK, FlagsOK, RestOK, MainPlaces, BlePlaces, TcpPlaces, SetKey, Goto, Mishap, world,
         http, ram, ble, tcp, hist
    <2>8. RegisteredInv'
      BY <1>2 DEF IInv, TypeOK, RegisteredInv, TasksOK, HttpOK, MainPlaces, BlePlaces, TcpPlaces,
         NeverAhead, RestOK, SetKey, Goto, Mishap, world, http, ram, ble, tcp, hist
    <2>9. OffsetRecovers'
      BY <1>2 DEF IInv, TypeOK, OffsetRecovers, HttpOK, SetKey, Goto, Mishap, world, http, ram,
         ble, tcp, hist
    <2>10. KeyedInv'
      BY <1>2 DEF IInv, TypeOK, KeyedInv, KeyedCanGoOn, Handling, TasksOK, MainPlaces, BlePlaces,
         TcpPlaces, SetKey, Goto, Mishap, world, http, ram, ble, tcp, hist
    <2> QED
      BY <2>1, <2>2, <2>3, <2>4, <2>5, <2>6, <2>7, <2>8, <2>9, <2>10 DEF IInv, TypeOK
  <1>3. CASE MainReturn
    <2>1. TasksOK'
      BY <1>3 DEF IInv, TypeOK, TasksOK, MainPlaces, BlePlaces, TcpPlaces, MainReturn, Returns,
         Goto, world, http, ram, ble, tcp, hist
    <2>2. HttpOK'
      BY <1>3 DEF IInv, TypeOK, HttpOK, RestOK, MainReturn, Returns, Goto, world, http, ram, ble,
         tcp, hist
    <2>3. MarksOK'
      BY <1>3 DEF IInv, TypeOK, MarksOK, MainReturn, Returns, Goto, world, http, ram, ble, tcp,
         hist
    <2>4. FlagsOK'
      BY <1>3 DEF IInv, TypeOK, FlagsOK, MarksOK, MainReturn, Returns, Goto, world, http, ram,
         ble, tcp, hist
    <2>5. RestOK'
      BY <1>3 DEF IInv, TypeOK, RestOK, HttpOK, MainReturn, Returns, Goto, world, http, ram, ble,
         tcp, hist
    <2>6. NeverAhead'
      BY <1>3 DEF IInv, TypeOK, NeverAhead, HttpOK, RestOK, MainReturn, Returns, Goto, world,
         http, ram, ble, tcp, hist
    <2>7. FreshInv'
      BY <1>3 DEF IInv, TypeOK, FreshInv, InviteIsFresh, NeverAhead, Gets, TasksOK, HttpOK,
         MarksOK, FlagsOK, RestOK, MainPlaces, BlePlaces, TcpPlaces, MainReturn, Returns, Goto,
         world, http, ram, ble, tcp, hist
    <2>8. RegisteredInv'
      BY <1>3 DEF IInv, TypeOK, RegisteredInv, TasksOK, HttpOK, MainPlaces, BlePlaces, TcpPlaces,
         NeverAhead, RestOK, MainReturn, Returns, Goto, world, http, ram, ble, tcp, hist
    <2>9. OffsetRecovers'
      BY <1>3 DEF IInv, TypeOK, OffsetRecovers, HttpOK, MainReturn, Returns, Goto, world, http,
         ram, ble, tcp, hist
    <2>10. KeyedInv'
      BY <1>3 DEF IInv, TypeOK, KeyedInv, KeyedCanGoOn, Handling, TasksOK, MainPlaces, BlePlaces,
         TcpPlaces, MainReturn, Returns, Goto, world, http, ram, ble, tcp, hist
    <2> QED
      BY <2>1, <2>2, <2>3, <2>4, <2>5, <2>6, <2>7, <2>8, <2>9, <2>10 DEF IInv, TypeOK
  <1>4. CASE Register
    <2>1. TasksOK'
      BY <1>4 DEF IInv, TypeOK, TasksOK, MainPlaces, BlePlaces, TcpPlaces, Register, Issue, Goto,
         Mishap, world, http, ram, ble, tcp, hist
    <2>2. HttpOK'
      BY <1>4 DEF IInv, TypeOK, HttpOK, RestOK, Register, Issue, Goto, Mishap, world, http, ram,
         ble, tcp, hist
    <2>3. MarksOK'
      BY <1>4 DEF IInv, TypeOK, MarksOK, Register, Issue, Goto, Mishap, world, http, ram, ble,
         tcp, hist
    <2>4. FlagsOK'
      BY <1>4 DEF IInv, TypeOK, FlagsOK, MarksOK, Register, Issue, Goto, Mishap, world, http,
         ram, ble, tcp, hist
    <2>5. RestOK'
      BY <1>4 DEF IInv, TypeOK, RestOK, HttpOK, Register, Issue, Goto, Mishap, world, http, ram,
         ble, tcp, hist
    <2>6. NeverAhead'
      BY <1>4 DEF IInv, TypeOK, NeverAhead, HttpOK, RestOK, Register, Issue, Goto, Mishap, world,
         http, ram, ble, tcp, hist
    <2>7. FreshInv'
      BY <1>4 DEF IInv, TypeOK, FreshInv, InviteIsFresh, NeverAhead, Gets, TasksOK, HttpOK,
         MarksOK, FlagsOK, RestOK, MainPlaces, BlePlaces, TcpPlaces, Register, Issue, Goto, Mishap,
         world, http, ram, ble, tcp, hist
    <2>8. RegisteredInv'
      BY <1>4 DEF IInv, TypeOK, RegisteredInv, TasksOK, HttpOK, MainPlaces, BlePlaces, TcpPlaces,
         NeverAhead, RestOK, Register, Issue, Goto, Mishap, world, http, ram, ble, tcp, hist
    <2>9. OffsetRecovers'
      BY <1>4 DEF IInv, TypeOK, OffsetRecovers, HttpOK, Register, Issue, Goto, Mishap, world,
         http, ram, ble, tcp, hist
    <2>10. KeyedInv'
      BY <1>4 DEF IInv, TypeOK, KeyedInv, KeyedCanGoOn, Handling, TasksOK, MainPlaces, BlePlaces,
         TcpPlaces, Register, Issue, Goto, Mishap, world, http, ram, ble, tcp, hist
    <2> QED
      BY <2>1, <2>2, <2>3, <2>4, <2>5, <2>6, <2>7, <2>8, <2>9, <2>10 DEF IInv, TypeOK
  <1>5. CASE Registered
    <2>1. TasksOK'
      BY <1>5 DEF IInv, TypeOK, TasksOK, MainPlaces, BlePlaces, TcpPlaces, Registered, Take,
         Goto, world, http, ram, ble, tcp, hist
    <2>2. HttpOK'
      BY <1>5 DEF IInv, TypeOK, HttpOK, RestOK, Registered, Take, Goto, world, http, ram, ble,
         tcp, hist
    <2>3. MarksOK'
      BY <1>5 DEF IInv, TypeOK, MarksOK, Registered, Take, Goto, world, http, ram, ble, tcp, hist
    <2>4. FlagsOK'
      BY <1>5 DEF IInv, TypeOK, FlagsOK, MarksOK, Registered, Take, Goto, world, http, ram, ble,
         tcp, hist
    <2>5. RestOK'
      BY <1>5 DEF IInv, TypeOK, RestOK, HttpOK, Registered, Take, Goto, world, http, ram, ble,
         tcp, hist
    <2>6. NeverAhead'
      BY <1>5 DEF IInv, TypeOK, NeverAhead, HttpOK, RestOK, Registered, Take, Goto, world, http,
         ram, ble, tcp, hist
    <2>7. FreshInv'
      BY <1>5 DEF IInv, TypeOK, FreshInv, InviteIsFresh, NeverAhead, Gets, TasksOK, HttpOK,
         MarksOK, FlagsOK, RestOK, MainPlaces, BlePlaces, TcpPlaces, Registered, Take, Goto, world,
         http, ram, ble, tcp, hist
    <2>8. RegisteredInv'
      BY <1>5 DEF IInv, TypeOK, RegisteredInv, TasksOK, HttpOK, MainPlaces, BlePlaces, TcpPlaces,
         NeverAhead, RestOK, Registered, Take, Goto, world, http, ram, ble, tcp, hist
    <2>9. OffsetRecovers'
      BY <1>5 DEF IInv, TypeOK, OffsetRecovers, HttpOK, Registered, Take, Goto, world, http, ram,
         ble, tcp, hist
    <2>10. KeyedInv'
      BY <1>5 DEF IInv, TypeOK, KeyedInv, KeyedCanGoOn, Handling, TasksOK, MainPlaces, BlePlaces,
         TcpPlaces, Registered, Take, Goto, world, http, ram, ble, tcp, hist
    <2> QED
      BY <2>1, <2>2, <2>3, <2>4, <2>5, <2>6, <2>7, <2>8, <2>9, <2>10 DEF IInv, TypeOK
  <1>6. CASE Late
    <2>1. TasksOK'
      BY <1>6 DEF IInv, TypeOK, TasksOK, MainPlaces, BlePlaces, TcpPlaces, Late, Goto, world,
         http, ram, ble, tcp, hist
    <2>2. HttpOK'
      BY <1>6 DEF IInv, TypeOK, HttpOK, RestOK, Late, Goto, world, http, ram, ble, tcp, hist
    <2>3. MarksOK'
      BY <1>6 DEF IInv, TypeOK, MarksOK, Late, Goto, world, http, ram, ble, tcp, hist
    <2>4. FlagsOK'
      BY <1>6 DEF IInv, TypeOK, FlagsOK, MarksOK, Late, Goto, world, http, ram, ble, tcp, hist
    <2>5. RestOK'
      BY <1>6 DEF IInv, TypeOK, RestOK, HttpOK, Late, Goto, world, http, ram, ble, tcp, hist
    <2>6. NeverAhead'
      BY <1>6 DEF IInv, TypeOK, NeverAhead, HttpOK, RestOK, Late, Goto, world, http, ram, ble,
         tcp, hist
    <2>7. FreshInv'
      BY <1>6 DEF IInv, TypeOK, FreshInv, InviteIsFresh, NeverAhead, Gets, TasksOK, HttpOK,
         MarksOK, FlagsOK, RestOK, MainPlaces, BlePlaces, TcpPlaces, Late, Goto, world, http, ram,
         ble, tcp, hist
    <2>8. RegisteredInv'
      BY <1>6 DEF IInv, TypeOK, RegisteredInv, TasksOK, HttpOK, MainPlaces, BlePlaces, TcpPlaces,
         NeverAhead, RestOK, Late, Goto, world, http, ram, ble, tcp, hist
    <2>9. OffsetRecovers'
      BY <1>6 DEF IInv, TypeOK, OffsetRecovers, HttpOK, Late, Goto, world, http, ram, ble, tcp,
         hist
    <2>10. KeyedInv'
      BY <1>6 DEF IInv, TypeOK, KeyedInv, KeyedCanGoOn, Handling, TasksOK, MainPlaces, BlePlaces,
         TcpPlaces, Late, Goto, world, http, ram, ble, tcp, hist
    <2> QED
      BY <2>1, <2>2, <2>3, <2>4, <2>5, <2>6, <2>7, <2>8, <2>9, <2>10 DEF IInv, TypeOK
  <1> QED
    BY <1>1, <1>2, <1>3, <1>4, <1>5, <1>6 DEF app_main

(* process_normal_data.                                                    *)
LEMMA BleStep ==
    ASSUME IInv, process_normal_data PROVE IInv'
  <1>1. CASE BleReturn
    <2>1. TasksOK'
      BY <1>1 DEF IInv, TypeOK, TasksOK, MainPlaces, BlePlaces, TcpPlaces, BleReturn, Returns,
         Goto, world, http, ram, ble, tcp, hist
    <2>2. HttpOK'
      BY <1>1 DEF IInv, TypeOK, HttpOK, RestOK, BleReturn, Returns, Goto, world, http, ram, ble,
         tcp, hist
    <2>3. MarksOK'
      BY <1>1 DEF IInv, TypeOK, MarksOK, BleReturn, Returns, Goto, world, http, ram, ble, tcp,
         hist
    <2>4. FlagsOK'
      BY <1>1 DEF IInv, TypeOK, FlagsOK, MarksOK, BleReturn, Returns, Goto, world, http, ram,
         ble, tcp, hist
    <2>5. RestOK'
      BY <1>1 DEF IInv, TypeOK, RestOK, HttpOK, BleReturn, Returns, Goto, world, http, ram, ble,
         tcp, hist
    <2>6. NeverAhead'
      BY <1>1 DEF IInv, TypeOK, NeverAhead, HttpOK, RestOK, BleReturn, Returns, Goto, world,
         http, ram, ble, tcp, hist
    <2>7. FreshInv'
      BY <1>1 DEF IInv, TypeOK, FreshInv, InviteIsFresh, NeverAhead, Gets, TasksOK, HttpOK,
         MarksOK, FlagsOK, RestOK, MainPlaces, BlePlaces, TcpPlaces, BleReturn, Returns, Goto,
         world, http, ram, ble, tcp, hist
    <2>8. RegisteredInv'
      BY <1>1 DEF IInv, TypeOK, RegisteredInv, TasksOK, HttpOK, MainPlaces, BlePlaces, TcpPlaces,
         NeverAhead, RestOK, BleReturn, Returns, Goto, world, http, ram, ble, tcp, hist
    <2>9. OffsetRecovers'
      BY <1>1 DEF IInv, TypeOK, OffsetRecovers, HttpOK, BleReturn, Returns, Goto, world, http,
         ram, ble, tcp, hist
    <2>10. KeyedInv'
      BY <1>1 DEF IInv, TypeOK, KeyedInv, KeyedCanGoOn, Handling, TasksOK, MainPlaces, BlePlaces,
         TcpPlaces, BleReturn, Returns, Goto, world, http, ram, ble, tcp, hist
    <2> QED
      BY <2>1, <2>2, <2>3, <2>4, <2>5, <2>6, <2>7, <2>8, <2>9, <2>10 DEF IInv, TypeOK
  <1>2. CASE FirstKey
    <2>1. TasksOK'
      BY <1>2 DEF IInv, TypeOK, TasksOK, MainPlaces, BlePlaces, TcpPlaces, FirstKey, Decrypts,
         Goto, world, http, ram, ble, tcp, hist
    <2>2. HttpOK'
      BY <1>2 DEF IInv, TypeOK, HttpOK, RestOK, FirstKey, Decrypts, Goto, world, http, ram, ble,
         tcp, hist
    <2>3. MarksOK'
      BY <1>2 DEF IInv, TypeOK, MarksOK, FirstKey, Decrypts, Goto, world, http, ram, ble, tcp,
         hist
    <2>4. FlagsOK'
      BY <1>2 DEF IInv, TypeOK, FlagsOK, MarksOK, FirstKey, Decrypts, Goto, world, http, ram,
         ble, tcp, hist
    <2>5. RestOK'
      BY <1>2 DEF IInv, TypeOK, RestOK, HttpOK, FirstKey, Decrypts, Goto, world, http, ram, ble,
         tcp, hist
    <2>6. NeverAhead'
      BY <1>2 DEF IInv, TypeOK, NeverAhead, HttpOK, RestOK, FirstKey, Decrypts, Goto, world,
         http, ram, ble, tcp, hist
    <2>7. FreshInv'
      BY <1>2 DEF IInv, TypeOK, FreshInv, InviteIsFresh, NeverAhead, Gets, TasksOK, HttpOK,
         MarksOK, FlagsOK, RestOK, MainPlaces, BlePlaces, TcpPlaces, FirstKey, Decrypts, Goto,
         world, http, ram, ble, tcp, hist
    <2>8. RegisteredInv'
      BY <1>2 DEF IInv, TypeOK, RegisteredInv, TasksOK, HttpOK, MainPlaces, BlePlaces, TcpPlaces,
         NeverAhead, RestOK, FirstKey, Decrypts, Goto, world, http, ram, ble, tcp, hist
    <2>9. OffsetRecovers'
      BY <1>2 DEF IInv, TypeOK, OffsetRecovers, HttpOK, FirstKey, Decrypts, Goto, world, http,
         ram, ble, tcp, hist
    <2>10. KeyedInv'
      BY <1>2 DEF IInv, TypeOK, KeyedInv, KeyedCanGoOn, Handling, TasksOK, MainPlaces, BlePlaces,
         TcpPlaces, FirstKey, Decrypts, Goto, world, http, ram, ble, tcp, hist
    <2> QED
      BY <2>1, <2>2, <2>3, <2>4, <2>5, <2>6, <2>7, <2>8, <2>9, <2>10 DEF IInv, TypeOK
  <1>3. CASE FirstCommand
    <2>1. TasksOK'
      BY <1>3 DEF IInv, TypeOK, TasksOK, MainPlaces, BlePlaces, TcpPlaces, FirstCommand, Goto,
         world, http, ram, ble, tcp, hist
    <2>2. HttpOK'
      BY <1>3 DEF IInv, TypeOK, HttpOK, RestOK, FirstCommand, Goto, world, http, ram, ble, tcp,
         hist
    <2>3. MarksOK'
      BY <1>3 DEF IInv, TypeOK, MarksOK, FirstCommand, Goto, world, http, ram, ble, tcp, hist
    <2>4. FlagsOK'
      BY <1>3 DEF IInv, TypeOK, FlagsOK, MarksOK, FirstCommand, Goto, world, http, ram, ble, tcp,
         hist
    <2>5. RestOK'
      BY <1>3 DEF IInv, TypeOK, RestOK, HttpOK, FirstCommand, Goto, world, http, ram, ble, tcp,
         hist
    <2>6. NeverAhead'
      BY <1>3 DEF IInv, TypeOK, NeverAhead, HttpOK, RestOK, FirstCommand, Goto, world, http, ram,
         ble, tcp, hist
    <2>7. FreshInv'
      BY <1>3 DEF IInv, TypeOK, FreshInv, InviteIsFresh, NeverAhead, Gets, TasksOK, HttpOK,
         MarksOK, FlagsOK, RestOK, MainPlaces, BlePlaces, TcpPlaces, FirstCommand, Goto, world,
         http, ram, ble, tcp, hist
    <2>8. RegisteredInv'
      BY <1>3 DEF IInv, TypeOK, RegisteredInv, TasksOK, HttpOK, MainPlaces, BlePlaces, TcpPlaces,
         NeverAhead, RestOK, FirstCommand, Goto, world, http, ram, ble, tcp, hist
    <2>9. OffsetRecovers'
      BY <1>3 DEF IInv, TypeOK, OffsetRecovers, HttpOK, FirstCommand, Goto, world, http, ram,
         ble, tcp, hist
    <2>10. KeyedInv'
      BY <1>3 DEF IInv, TypeOK, KeyedInv, KeyedCanGoOn, Handling, TasksOK, MainPlaces, BlePlaces,
         TcpPlaces, FirstCommand, Goto, world, http, ram, ble, tcp, hist
    <2> QED
      BY <2>1, <2>2, <2>3, <2>4, <2>5, <2>6, <2>7, <2>8, <2>9, <2>10 DEF IInv, TypeOK
  <1>4. CASE Plain
    <2>1. TasksOK'
      BY <1>4 DEF IInv, TypeOK, TasksOK, MainPlaces, BlePlaces, TcpPlaces, Plain, Decrypts, Goto,
         world, http, ram, ble, tcp, hist
    <2>2. HttpOK'
      BY <1>4 DEF IInv, TypeOK, HttpOK, RestOK, Plain, Decrypts, Goto, world, http, ram, ble,
         tcp, hist
    <2>3. MarksOK'
      BY <1>4 DEF IInv, TypeOK, MarksOK, Plain, Decrypts, Goto, world, http, ram, ble, tcp, hist
    <2>4. FlagsOK'
      BY <1>4 DEF IInv, TypeOK, FlagsOK, MarksOK, Plain, Decrypts, Goto, world, http, ram, ble,
         tcp, hist
    <2>5. RestOK'
      BY <1>4 DEF IInv, TypeOK, RestOK, HttpOK, Plain, Decrypts, Goto, world, http, ram, ble,
         tcp, hist
    <2>6. NeverAhead'
      BY <1>4 DEF IInv, TypeOK, NeverAhead, HttpOK, RestOK, Plain, Decrypts, Goto, world, http,
         ram, ble, tcp, hist
    <2>7. FreshInv'
      BY <1>4 DEF IInv, TypeOK, FreshInv, InviteIsFresh, NeverAhead, Gets, TasksOK, HttpOK,
         MarksOK, FlagsOK, RestOK, MainPlaces, BlePlaces, TcpPlaces, Plain, Decrypts, Goto, world,
         http, ram, ble, tcp, hist
    <2>8. RegisteredInv'
      BY <1>4 DEF IInv, TypeOK, RegisteredInv, TasksOK, HttpOK, MainPlaces, BlePlaces, TcpPlaces,
         NeverAhead, RestOK, Plain, Decrypts, Goto, world, http, ram, ble, tcp, hist
    <2>9. OffsetRecovers'
      BY <1>4 DEF IInv, TypeOK, OffsetRecovers, HttpOK, Plain, Decrypts, Goto, world, http, ram,
         ble, tcp, hist
    <2>10. KeyedInv'
      BY <1>4 DEF IInv, TypeOK, KeyedInv, KeyedCanGoOn, Handling, TasksOK, MainPlaces, BlePlaces,
         TcpPlaces, Plain, Decrypts, Goto, world, http, ram, ble, tcp, hist
    <2> QED
      BY <2>1, <2>2, <2>3, <2>4, <2>5, <2>6, <2>7, <2>8, <2>9, <2>10 DEF IInv, TypeOK
  <1>5. CASE Mismatch
    <2>1. Down("start") /\ mishaps' = mishaps
      BY <1>5 DEF Mismatch, Restart
    <2> QED
      BY <2>1, DownHolds DEF IInv, TypeOK, RestOK
  <1>6. CASE Verify
    <2>1. TasksOK'
      BY <1>6 DEF IInv, TypeOK, TasksOK, MainPlaces, BlePlaces, TcpPlaces, Verify, Issue, Goto,
         Mishap, world, http, ram, ble, tcp, hist
    <2>2. HttpOK'
      BY <1>6 DEF IInv, TypeOK, HttpOK, RestOK, Verify, Issue, Goto, Mishap, world, http, ram,
         ble, tcp, hist
    <2>3. MarksOK'
      BY <1>6 DEF IInv, TypeOK, MarksOK, Verify, Issue, Goto, Mishap, world, http, ram, ble, tcp,
         hist
    <2>4. FlagsOK'
      BY <1>6 DEF IInv, TypeOK, FlagsOK, MarksOK, Verify, Issue, Goto, Mishap, world, http, ram,
         ble, tcp, hist
    <2>5. RestOK'
      BY <1>6 DEF IInv, TypeOK, RestOK, HttpOK, Verify, Issue, Goto, Mishap, world, http, ram,
         ble, tcp, hist
    <2>6. NeverAhead'
      BY <1>6 DEF IInv, TypeOK, NeverAhead, HttpOK, RestOK, Verify, Issue, Goto, Mishap, world,
         http, ram, ble, tcp, hist
    <2>7. FreshInv'
      BY <1>6 DEF IInv, TypeOK, FreshInv, InviteIsFresh, NeverAhead, Gets, TasksOK, HttpOK,
         MarksOK, FlagsOK, RestOK, MainPlaces, BlePlaces, TcpPlaces, Verify, Issue, Goto, Mishap,
         world, http, ram, ble, tcp, hist
    <2>8. RegisteredInv'
      BY <1>6 DEF IInv, TypeOK, RegisteredInv, TasksOK, HttpOK, MainPlaces, BlePlaces, TcpPlaces,
         NeverAhead, RestOK, Verify, Issue, Goto, Mishap, world, http, ram, ble, tcp, hist
    <2>9. OffsetRecovers'
      BY <1>6 DEF IInv, TypeOK, OffsetRecovers, HttpOK, Verify, Issue, Goto, Mishap, world, http,
         ram, ble, tcp, hist
    <2>10. KeyedInv'
      BY <1>6 DEF IInv, TypeOK, KeyedInv, KeyedCanGoOn, Handling, TasksOK, MainPlaces, BlePlaces,
         TcpPlaces, Verify, Issue, Goto, Mishap, world, http, ram, ble, tcp, hist
    <2> QED
      BY <2>1, <2>2, <2>3, <2>4, <2>5, <2>6, <2>7, <2>8, <2>9, <2>10 DEF IInv, TypeOK
  <1>7. CASE Invited /\ ans["ble"] # UNKNOWN_STATUS
    <2>1. TasksOK'
      BY <1>7 DEF IInv, TypeOK, TasksOK, MainPlaces, BlePlaces, TcpPlaces, Invited, Take, Goto,
         world, http, ram, ble, tcp, hist
    <2>2. HttpOK'
      BY <1>7 DEF IInv, TypeOK, HttpOK, RestOK, Invited, Take, Goto, world, http, ram, ble, tcp,
         hist
    <2>3. MarksOK'
      BY <1>7 DEF IInv, TypeOK, MarksOK, Invited, Take, Goto, world, http, ram, ble, tcp, hist
    <2>4. FlagsOK'
      BY <1>7 DEF IInv, TypeOK, FlagsOK, MarksOK, Invited, Take, Goto, world, http, ram, ble,
         tcp, hist
    <2>5. RestOK'
      BY <1>7 DEF IInv, TypeOK, RestOK, HttpOK, Invited, Take, Goto, world, http, ram, ble, tcp,
         hist
    <2>6. NeverAhead'
      BY <1>7 DEF IInv, TypeOK, NeverAhead, HttpOK, RestOK, Invited, Take, Goto, world, http,
         ram, ble, tcp, hist
    <2>7. FreshInv'
      BY <1>7 DEF IInv, TypeOK, FreshInv, InviteIsFresh, NeverAhead, Gets, TasksOK, HttpOK,
         MarksOK, FlagsOK, RestOK, MainPlaces, BlePlaces, TcpPlaces, Invited, Take, Goto, world,
         http, ram, ble, tcp, hist
    <2>8. RegisteredInv'
      BY <1>7 DEF IInv, TypeOK, RegisteredInv, TasksOK, HttpOK, MainPlaces, BlePlaces, TcpPlaces,
         NeverAhead, RestOK, Invited, Take, Goto, world, http, ram, ble, tcp, hist
    <2>9. OffsetRecovers'
      BY <1>7 DEF IInv, TypeOK, OffsetRecovers, HttpOK, Invited, Take, Goto, world, http, ram,
         ble, tcp, hist
    <2>10. KeyedInv'
      BY <1>7 DEF IInv, TypeOK, KeyedInv, KeyedCanGoOn, Handling, TasksOK, MainPlaces, BlePlaces,
         TcpPlaces, Invited, Take, Goto, world, http, ram, ble, tcp, hist
    <2> QED
      BY <2>1, <2>2, <2>3, <2>4, <2>5, <2>6, <2>7, <2>8, <2>9, <2>10 DEF IInv, TypeOK
  <1>8. CASE Invited /\ ans["ble"] = UNKNOWN_STATUS
    <2>1. Down("start") /\ mishaps' = mishaps
      BY <1>8 DEF Invited, Restart
    <2> QED
      BY <2>1, DownHolds DEF IInv, TypeOK, RestOK
  <1> QED
    BY <1>1, <1>2, <1>3, <1>4, <1>5, <1>6, <1>7, <1>8 DEF process_normal_data

(* do_retransmit, and what a client over TCP does.                         *)
LEMMA TcpStep ==
    ASSUME IInv, do_retransmit \/ Client PROVE IInv'
  <1>1. CASE TcpConnect
    <2>1. TasksOK'
      BY <1>1 DEF IInv, TypeOK, TasksOK, MainPlaces, BlePlaces, TcpPlaces, TcpConnect, Mishap,
         world, http, ram, ble, tcp, hist
    <2>2. HttpOK'
      BY <1>1 DEF IInv, TypeOK, HttpOK, RestOK, TcpConnect, Mishap, world, http, ram, ble, tcp,
         hist
    <2>3. MarksOK'
      BY <1>1 DEF IInv, TypeOK, MarksOK, TcpConnect, Mishap, world, http, ram, ble, tcp, hist
    <2>4. FlagsOK'
      BY <1>1 DEF IInv, TypeOK, FlagsOK, MarksOK, TcpConnect, Mishap, world, http, ram, ble, tcp,
         hist
    <2>5. RestOK'
      BY <1>1 DEF IInv, TypeOK, RestOK, HttpOK, TcpConnect, Mishap, world, http, ram, ble, tcp,
         hist
    <2>6. NeverAhead'
      BY <1>1 DEF IInv, TypeOK, NeverAhead, HttpOK, RestOK, TcpConnect, Mishap, world, http, ram,
         ble, tcp, hist
    <2>7. FreshInv'
      BY <1>1 DEF IInv, TypeOK, FreshInv, InviteIsFresh, NeverAhead, Gets, TasksOK, HttpOK,
         MarksOK, FlagsOK, RestOK, MainPlaces, BlePlaces, TcpPlaces, TcpConnect, Mishap, world,
         http, ram, ble, tcp, hist
    <2>8. RegisteredInv'
      BY <1>1 DEF IInv, TypeOK, RegisteredInv, TasksOK, HttpOK, MainPlaces, BlePlaces, TcpPlaces,
         NeverAhead, RestOK, TcpConnect, Mishap, world, http, ram, ble, tcp, hist
    <2>9. OffsetRecovers'
      BY <1>1 DEF IInv, TypeOK, OffsetRecovers, HttpOK, TcpConnect, Mishap, world, http, ram,
         ble, tcp, hist
    <2>10. KeyedInv'
      BY <1>1 DEF IInv, TypeOK, KeyedInv, KeyedCanGoOn, Handling, TasksOK, MainPlaces, BlePlaces,
         TcpPlaces, TcpConnect, Mishap, world, http, ram, ble, tcp, hist
    <2> QED
      BY <2>1, <2>2, <2>3, <2>4, <2>5, <2>6, <2>7, <2>8, <2>9, <2>10 DEF IInv, TypeOK
  <1>2. CASE TcpLeave
    <2>1. TasksOK'
      BY <1>2 DEF IInv, TypeOK, TasksOK, MainPlaces, BlePlaces, TcpPlaces, TcpLeave, Out, world,
         http, ram, ble, tcp, hist
    <2>2. HttpOK'
      BY <1>2 DEF IInv, TypeOK, HttpOK, RestOK, TcpLeave, Out, world, http, ram, ble, tcp, hist
    <2>3. MarksOK'
      BY <1>2 DEF IInv, TypeOK, MarksOK, TcpLeave, Out, world, http, ram, ble, tcp, hist
    <2>4. FlagsOK'
      BY <1>2 DEF IInv, TypeOK, FlagsOK, MarksOK, TcpLeave, Out, world, http, ram, ble, tcp, hist
    <2>5. RestOK'
      BY <1>2 DEF IInv, TypeOK, RestOK, HttpOK, TcpLeave, Out, world, http, ram, ble, tcp, hist
    <2>6. NeverAhead'
      BY <1>2 DEF IInv, TypeOK, NeverAhead, HttpOK, RestOK, TcpLeave, Out, world, http, ram, ble,
         tcp, hist
    <2>7. FreshInv'
      BY <1>2 DEF IInv, TypeOK, FreshInv, InviteIsFresh, NeverAhead, Gets, TasksOK, HttpOK,
         MarksOK, FlagsOK, RestOK, MainPlaces, BlePlaces, TcpPlaces, TcpLeave, Out, world, http,
         ram, ble, tcp, hist
    <2>8. RegisteredInv'
      BY <1>2 DEF IInv, TypeOK, RegisteredInv, TasksOK, HttpOK, MainPlaces, BlePlaces, TcpPlaces,
         NeverAhead, RestOK, TcpLeave, Out, world, http, ram, ble, tcp, hist
    <2>9. OffsetRecovers'
      BY <1>2 DEF IInv, TypeOK, OffsetRecovers, HttpOK, TcpLeave, Out, world, http, ram, ble,
         tcp, hist
    <2>10. KeyedInv'
      BY <1>2 DEF IInv, TypeOK, KeyedInv, KeyedCanGoOn, Handling, TasksOK, MainPlaces, BlePlaces,
         TcpPlaces, TcpLeave, Out, world, http, ram, ble, tcp, hist
    <2> QED
      BY <2>1, <2>2, <2>3, <2>4, <2>5, <2>6, <2>7, <2>8, <2>9, <2>10 DEF IInv, TypeOK
  <1>3. CASE TcpKey
    <2>1. TasksOK'
      BY <1>3 DEF IInv, TypeOK, TasksOK, MainPlaces, BlePlaces, TcpPlaces, TcpKey, world, http,
         ram, ble, tcp, hist
    <2>2. HttpOK'
      BY <1>3 DEF IInv, TypeOK, HttpOK, RestOK, TcpKey, world, http, ram, ble, tcp, hist
    <2>3. MarksOK'
      BY <1>3 DEF IInv, TypeOK, MarksOK, TcpKey, world, http, ram, ble, tcp, hist
    <2>4. FlagsOK'
      BY <1>3 DEF IInv, TypeOK, FlagsOK, MarksOK, TcpKey, world, http, ram, ble, tcp, hist
    <2>5. RestOK'
      BY <1>3 DEF IInv, TypeOK, RestOK, HttpOK, TcpKey, world, http, ram, ble, tcp, hist
    <2>6. NeverAhead'
      BY <1>3 DEF IInv, TypeOK, NeverAhead, HttpOK, RestOK, TcpKey, world, http, ram, ble, tcp,
         hist
    <2>7. FreshInv'
      BY <1>3 DEF IInv, TypeOK, FreshInv, InviteIsFresh, NeverAhead, Gets, TasksOK, HttpOK,
         MarksOK, FlagsOK, RestOK, MainPlaces, BlePlaces, TcpPlaces, TcpKey, world, http, ram, ble,
         tcp, hist
    <2>8. RegisteredInv'
      BY <1>3 DEF IInv, TypeOK, RegisteredInv, TasksOK, HttpOK, MainPlaces, BlePlaces, TcpPlaces,
         NeverAhead, RestOK, TcpKey, world, http, ram, ble, tcp, hist
    <2>9. OffsetRecovers'
      BY <1>3 DEF IInv, TypeOK, OffsetRecovers, HttpOK, TcpKey, world, http, ram, ble, tcp, hist
    <2>10. KeyedInv'
      BY <1>3 DEF IInv, TypeOK, KeyedInv, KeyedCanGoOn, Handling, TasksOK, MainPlaces, BlePlaces,
         TcpPlaces, TcpKey, world, http, ram, ble, tcp, hist
    <2> QED
      BY <2>1, <2>2, <2>3, <2>4, <2>5, <2>6, <2>7, <2>8, <2>9, <2>10 DEF IInv, TypeOK
  <1>4. CASE TcpAmiss
    <2>1. Down("start") /\ mishaps' = mishaps
      BY <1>4 DEF TcpAmiss, Restart
    <2> QED
      BY <2>1, DownHolds DEF IInv, TypeOK, RestOK
  <1>5. CASE TcpUse
    <2>1. TasksOK'
      BY <1>5 DEF IInv, TypeOK, TasksOK, MainPlaces, BlePlaces, TcpPlaces, TcpUse, Bump, Out,
         Stays, Commands, world, http, ram, ble, tcp, hist
    <2>2. HttpOK'
      BY <1>5 DEF IInv, TypeOK, HttpOK, RestOK, TcpUse, Bump, Out, Stays, Commands, world, http,
         ram, ble, tcp, hist
    <2>3. MarksOK'
      BY <1>5 DEF IInv, TypeOK, MarksOK, TcpUse, Bump, Out, Stays, Commands, world, http, ram,
         ble, tcp, hist
    <2>4. FlagsOK'
      BY <1>5 DEF IInv, TypeOK, FlagsOK, MarksOK, TcpUse, Bump, Out, Stays, Commands, world,
         http, ram, ble, tcp, hist
    <2>5. RestOK'
      BY <1>5 DEF IInv, TypeOK, RestOK, HttpOK, TcpUse, Bump, Out, Stays, Commands, world, http,
         ram, ble, tcp, hist
    <2>6. NeverAhead'
      BY <1>5 DEF IInv, TypeOK, NeverAhead, HttpOK, RestOK, TcpUse, Bump, Out, Stays, Commands,
         world, http, ram, ble, tcp, hist
    <2>7. FreshInv'
      BY <1>5 DEF IInv, TypeOK, FreshInv, InviteIsFresh, NeverAhead, Gets, TasksOK, HttpOK,
         MarksOK, FlagsOK, RestOK, MainPlaces, BlePlaces, TcpPlaces, TcpUse, Bump, Out, Stays,
         Commands, world, http, ram, ble, tcp, hist
    <2>8. RegisteredInv'
      BY <1>5 DEF IInv, TypeOK, RegisteredInv, TasksOK, HttpOK, MainPlaces, BlePlaces, TcpPlaces,
         NeverAhead, RestOK, TcpUse, Bump, Out, Stays, Commands, world, http, ram, ble, tcp, hist
    <2>9. OffsetRecovers'
      BY <1>5 DEF IInv, TypeOK, OffsetRecovers, HttpOK, TcpUse, Bump, Out, Stays, Commands,
         world, http, ram, ble, tcp, hist
    <2>10. KeyedInv'
      BY <1>5 DEF IInv, TypeOK, KeyedInv, KeyedCanGoOn, Handling, TasksOK, MainPlaces, BlePlaces,
         TcpPlaces, TcpUse, Bump, Out, Stays, Commands, world, http, ram, ble, tcp, hist
    <2> QED
      BY <2>1, <2>2, <2>3, <2>4, <2>5, <2>6, <2>7, <2>8, <2>9, <2>10 DEF IInv, TypeOK
  <1>6. CASE TcpFirst
    <2>1. TasksOK'
      BY <1>6 DEF IInv, TypeOK, TasksOK, MainPlaces, BlePlaces, TcpPlaces, TcpFirst, Goto,
         Mishap, Commands, Sends, world, http, ram, ble, tcp, hist
    <2>2. HttpOK'
      BY <1>6 DEF IInv, TypeOK, HttpOK, RestOK, TcpFirst, Goto, Mishap, Commands, Sends, world,
         http, ram, ble, tcp, hist
    <2>3. MarksOK'
      BY <1>6 DEF IInv, TypeOK, MarksOK, TcpFirst, Goto, Mishap, Commands, Sends, world, http,
         ram, ble, tcp, hist
    <2>4. FlagsOK'
      BY <1>6 DEF IInv, TypeOK, FlagsOK, MarksOK, TcpFirst, Goto, Mishap, Commands, Sends, world,
         http, ram, ble, tcp, hist
    <2>5. RestOK'
      BY <1>6 DEF IInv, TypeOK, RestOK, HttpOK, TcpFirst, Goto, Mishap, Commands, Sends, world,
         http, ram, ble, tcp, hist
    <2>6. NeverAhead'
      BY <1>6 DEF IInv, TypeOK, NeverAhead, HttpOK, RestOK, TcpFirst, Goto, Mishap, Commands,
         Sends, world, http, ram, ble, tcp, hist
    <2>7. FreshInv'
      BY <1>6 DEF IInv, TypeOK, FreshInv, InviteIsFresh, NeverAhead, Gets, TasksOK, HttpOK,
         MarksOK, FlagsOK, RestOK, MainPlaces, BlePlaces, TcpPlaces, TcpFirst, Goto, Mishap,
         Commands, Sends, world, http, ram, ble, tcp, hist
    <2>8. RegisteredInv'
      BY <1>6 DEF IInv, TypeOK, RegisteredInv, TasksOK, HttpOK, MainPlaces, BlePlaces, TcpPlaces,
         NeverAhead, RestOK, TcpFirst, Goto, Mishap, Commands, Sends, world, http, ram, ble, tcp,
         hist
    <2>9. OffsetRecovers'
      BY <1>6 DEF IInv, TypeOK, OffsetRecovers, HttpOK, TcpFirst, Goto, Mishap, Commands, Sends,
         world, http, ram, ble, tcp, hist
    <2>10. KeyedInv'
      BY <1>6 DEF IInv, TypeOK, KeyedInv, KeyedCanGoOn, Handling, TasksOK, MainPlaces, BlePlaces,
         TcpPlaces, TcpFirst, Goto, Mishap, Commands, Sends, world, http, ram, ble, tcp, hist
    <2> QED
      BY <2>1, <2>2, <2>3, <2>4, <2>5, <2>6, <2>7, <2>8, <2>9, <2>10 DEF IInv, TypeOK
  <1>7. CASE TcpAsk
    <2>1. TasksOK'
      BY <1>7 DEF IInv, TypeOK, TasksOK, MainPlaces, BlePlaces, TcpPlaces, TcpAsk, Issue, Goto,
         Mishap, Commands, world, http, ram, ble, tcp, hist
    <2>2. HttpOK'
      BY <1>7 DEF IInv, TypeOK, HttpOK, RestOK, TcpAsk, Issue, Goto, Mishap, Commands, world,
         http, ram, ble, tcp, hist
    <2>3. MarksOK'
      BY <1>7 DEF IInv, TypeOK, MarksOK, TcpAsk, Issue, Goto, Mishap, Commands, world, http, ram,
         ble, tcp, hist
    <2>4. FlagsOK'
      BY <1>7 DEF IInv, TypeOK, FlagsOK, MarksOK, TcpAsk, Issue, Goto, Mishap, Commands, world,
         http, ram, ble, tcp, hist
    <2>5. RestOK'
      BY <1>7 DEF IInv, TypeOK, RestOK, HttpOK, TcpAsk, Issue, Goto, Mishap, Commands, world,
         http, ram, ble, tcp, hist
    <2>6. NeverAhead'
      BY <1>7 DEF IInv, TypeOK, NeverAhead, HttpOK, RestOK, TcpAsk, Issue, Goto, Mishap,
         Commands, world, http, ram, ble, tcp, hist
    <2>7. FreshInv'
      BY <1>7 DEF IInv, TypeOK, FreshInv, InviteIsFresh, NeverAhead, Gets, TasksOK, HttpOK,
         MarksOK, FlagsOK, RestOK, MainPlaces, BlePlaces, TcpPlaces, TcpAsk, Issue, Goto, Mishap,
         Commands, world, http, ram, ble, tcp, hist
    <2>8. RegisteredInv'
      BY <1>7 DEF IInv, TypeOK, RegisteredInv, TasksOK, HttpOK, MainPlaces, BlePlaces, TcpPlaces,
         NeverAhead, RestOK, TcpAsk, Issue, Goto, Mishap, Commands, world, http, ram, ble, tcp, hist
    <2>9. OffsetRecovers'
      BY <1>7 DEF IInv, TypeOK, OffsetRecovers, HttpOK, TcpAsk, Issue, Goto, Mishap, Commands,
         world, http, ram, ble, tcp, hist
    <2>10. KeyedInv'
      BY <1>7 DEF IInv, TypeOK, KeyedInv, KeyedCanGoOn, Handling, TasksOK, MainPlaces, BlePlaces,
         TcpPlaces, TcpAsk, Issue, Goto, Mishap, Commands, world, http, ram, ble, tcp, hist
    <2> QED
      BY <2>1, <2>2, <2>3, <2>4, <2>5, <2>6, <2>7, <2>8, <2>9, <2>10 DEF IInv, TypeOK
  <1>8. CASE TcpKnown
    <2>1. TasksOK'
      BY <1>8 DEF IInv, TypeOK, TasksOK, MainPlaces, BlePlaces, TcpPlaces, TcpKnown, Authorize,
         Out, Commands, world, http, ram, ble, tcp, hist
    <2>2. HttpOK'
      BY <1>8 DEF IInv, TypeOK, HttpOK, RestOK, TcpKnown, Authorize, Out, Commands, world, http,
         ram, ble, tcp, hist
    <2>3. MarksOK'
      BY <1>8 DEF IInv, TypeOK, MarksOK, TcpKnown, Authorize, Out, Commands, world, http, ram,
         ble, tcp, hist
    <2>4. FlagsOK'
      BY <1>8 DEF IInv, TypeOK, FlagsOK, MarksOK, TcpKnown, Authorize, Out, Commands, world,
         http, ram, ble, tcp, hist
    <2>5. RestOK'
      BY <1>8 DEF IInv, TypeOK, RestOK, HttpOK, TcpKnown, Authorize, Out, Commands, world, http,
         ram, ble, tcp, hist
    <2>6. NeverAhead'
      BY <1>8 DEF IInv, TypeOK, NeverAhead, HttpOK, RestOK, TcpKnown, Authorize, Out, Commands,
         world, http, ram, ble, tcp, hist
    <2>7. FreshInv'
      BY <1>8 DEF IInv, TypeOK, FreshInv, InviteIsFresh, NeverAhead, Gets, TasksOK, HttpOK,
         MarksOK, FlagsOK, RestOK, MainPlaces, BlePlaces, TcpPlaces, TcpKnown, Authorize, Out,
         Commands, world, http, ram, ble, tcp, hist
    <2>8. RegisteredInv'
      BY <1>8 DEF IInv, TypeOK, RegisteredInv, TasksOK, HttpOK, MainPlaces, BlePlaces, TcpPlaces,
         NeverAhead, RestOK, TcpKnown, Authorize, Out, Commands, world, http, ram, ble, tcp, hist
    <2>9. OffsetRecovers'
      BY <1>8 DEF IInv, TypeOK, OffsetRecovers, HttpOK, TcpKnown, Authorize, Out, Commands,
         world, http, ram, ble, tcp, hist
    <2>10. KeyedInv'
      BY <1>8 DEF IInv, TypeOK, KeyedInv, KeyedCanGoOn, Handling, TasksOK, MainPlaces, BlePlaces,
         TcpPlaces, TcpKnown, Authorize, Out, Commands, world, http, ram, ble, tcp, hist
    <2> QED
      BY <2>1, <2>2, <2>3, <2>4, <2>5, <2>6, <2>7, <2>8, <2>9, <2>10 DEF IInv, TypeOK
  <1>9. CASE TcpReturn
    <2>1. TasksOK'
      BY <1>9 DEF IInv, TypeOK, TasksOK, MainPlaces, BlePlaces, TcpPlaces, TcpReturn, Returns,
         Issue, Goto, Out, Stays, world, http, ram, ble, tcp, hist
    <2>2. HttpOK'
      BY <1>9 DEF IInv, TypeOK, HttpOK, RestOK, TcpReturn, Returns, Issue, Goto, Out, Stays,
         world, http, ram, ble, tcp, hist
    <2>3. MarksOK'
      BY <1>9 DEF IInv, TypeOK, MarksOK, TcpReturn, Returns, Issue, Goto, Out, Stays, world,
         http, ram, ble, tcp, hist
    <2>4. FlagsOK'
      BY <1>9 DEF IInv, TypeOK, FlagsOK, MarksOK, TcpReturn, Returns, Issue, Goto, Out, Stays,
         world, http, ram, ble, tcp, hist
    <2>5. RestOK'
      BY <1>9 DEF IInv, TypeOK, RestOK, HttpOK, TcpReturn, Returns, Issue, Goto, Out, Stays,
         world, http, ram, ble, tcp, hist
    <2>6. NeverAhead'
      BY <1>9 DEF IInv, TypeOK, NeverAhead, HttpOK, RestOK, TcpReturn, Returns, Issue, Goto, Out,
         Stays, world, http, ram, ble, tcp, hist
    <2>7. FreshInv'
      BY <1>9 DEF IInv, TypeOK, FreshInv, InviteIsFresh, NeverAhead, Gets, TasksOK, HttpOK,
         MarksOK, FlagsOK, RestOK, MainPlaces, BlePlaces, TcpPlaces, TcpReturn, Returns, Issue,
         Goto, Out, Stays, world, http, ram, ble, tcp, hist
    <2>8. RegisteredInv'
      BY <1>9 DEF IInv, TypeOK, RegisteredInv, TasksOK, HttpOK, MainPlaces, BlePlaces, TcpPlaces,
         NeverAhead, RestOK, TcpReturn, Returns, Issue, Goto, Out, Stays, world, http, ram, ble,
         tcp, hist
    <2>9. OffsetRecovers'
      BY <1>9 DEF IInv, TypeOK, OffsetRecovers, HttpOK, TcpReturn, Returns, Issue, Goto, Out,
         Stays, world, http, ram, ble, tcp, hist
    <2>10. KeyedInv'
      BY <1>9 DEF IInv, TypeOK, KeyedInv, KeyedCanGoOn, Handling, TasksOK, MainPlaces, BlePlaces,
         TcpPlaces, TcpReturn, Returns, Issue, Goto, Out, Stays, world, http, ram, ble, tcp, hist
    <2> QED
      BY <2>1, <2>2, <2>3, <2>4, <2>5, <2>6, <2>7, <2>8, <2>9, <2>10 DEF IInv, TypeOK
  <1>10. CASE TcpRights
    <2>1. TasksOK'
      BY <1>10 DEF IInv, TypeOK, TasksOK, MainPlaces, BlePlaces, TcpPlaces, TcpRights, Take,
         Goto, Authorize, Out, world, http, ram, ble, tcp, hist
    <2>2. HttpOK'
      BY <1>10 DEF IInv, TypeOK, HttpOK, RestOK, TcpRights, Take, Goto, Authorize, Out, world,
         http, ram, ble, tcp, hist
    <2>3. MarksOK'
      BY <1>10 DEF IInv, TypeOK, MarksOK, TcpRights, Take, Goto, Authorize, Out, world, http,
         ram, ble, tcp, hist
    <2>4. FlagsOK'
      BY <1>10 DEF IInv, TypeOK, FlagsOK, MarksOK, TcpRights, Take, Goto, Authorize, Out, world,
         http, ram, ble, tcp, hist
    <2>5. RestOK'
      BY <1>10 DEF IInv, TypeOK, RestOK, HttpOK, TcpRights, Take, Goto, Authorize, Out, world,
         http, ram, ble, tcp, hist
    <2>6. NeverAhead'
      BY <1>10 DEF IInv, TypeOK, NeverAhead, HttpOK, RestOK, TcpRights, Take, Goto, Authorize,
         Out, world, http, ram, ble, tcp, hist
    <2>7. FreshInv'
      BY <1>10 DEF IInv, TypeOK, FreshInv, InviteIsFresh, NeverAhead, Gets, TasksOK, HttpOK,
         MarksOK, FlagsOK, RestOK, MainPlaces, BlePlaces, TcpPlaces, TcpRights, Take, Goto,
         Authorize, Out, world, http, ram, ble, tcp, hist
    <2>8. RegisteredInv'
      BY <1>10 DEF IInv, TypeOK, RegisteredInv, TasksOK, HttpOK, MainPlaces, BlePlaces,
         TcpPlaces, NeverAhead, RestOK, TcpRights, Take, Goto, Authorize, Out, world, http, ram,
         ble, tcp, hist
    <2>9. OffsetRecovers'
      BY <1>10 DEF IInv, TypeOK, OffsetRecovers, HttpOK, TcpRights, Take, Goto, Authorize, Out,
         world, http, ram, ble, tcp, hist
    <2>10. KeyedInv'
      BY <1>10 DEF IInv, TypeOK, KeyedInv, KeyedCanGoOn, Handling, TasksOK, MainPlaces,
         BlePlaces, TcpPlaces, TcpRights, Take, Goto, Authorize, Out, world, http, ram, ble, tcp,
         hist
    <2> QED
      BY <2>1, <2>2, <2>3, <2>4, <2>5, <2>6, <2>7, <2>8, <2>9, <2>10 DEF IInv, TypeOK
  <1>11. CASE TcpInvited /\ ans["tcp"] # UNKNOWN_STATUS
    <2>1. TasksOK'
      BY <1>11 DEF IInv, TypeOK, TasksOK, MainPlaces, BlePlaces, TcpPlaces, TcpInvited, Take,
         Goto, Bump, world, http, ram, ble, tcp, hist
    <2>2. HttpOK'
      BY <1>11 DEF IInv, TypeOK, HttpOK, RestOK, TcpInvited, Take, Goto, Bump, world, http, ram,
         ble, tcp, hist
    <2>3. MarksOK'
      BY <1>11 DEF IInv, TypeOK, MarksOK, TcpInvited, Take, Goto, Bump, world, http, ram, ble,
         tcp, hist
    <2>4. FlagsOK'
      BY <1>11 DEF IInv, TypeOK, FlagsOK, MarksOK, TcpInvited, Take, Goto, Bump, world, http,
         ram, ble, tcp, hist
    <2>5. RestOK'
      BY <1>11 DEF IInv, TypeOK, RestOK, HttpOK, TcpInvited, Take, Goto, Bump, world, http, ram,
         ble, tcp, hist
    <2>6. NeverAhead'
      BY <1>11 DEF IInv, TypeOK, NeverAhead, HttpOK, RestOK, TcpInvited, Take, Goto, Bump, world,
         http, ram, ble, tcp, hist
    <2>7. FreshInv'
      BY <1>11 DEF IInv, TypeOK, FreshInv, InviteIsFresh, NeverAhead, Gets, TasksOK, HttpOK,
         MarksOK, FlagsOK, RestOK, MainPlaces, BlePlaces, TcpPlaces, TcpInvited, Take, Goto, Bump,
         world, http, ram, ble, tcp, hist
    <2>8. RegisteredInv'
      BY <1>11 DEF IInv, TypeOK, RegisteredInv, TasksOK, HttpOK, MainPlaces, BlePlaces,
         TcpPlaces, NeverAhead, RestOK, TcpInvited, Take, Goto, Bump, world, http, ram, ble, tcp,
         hist
    <2>9. OffsetRecovers'
      BY <1>11 DEF IInv, TypeOK, OffsetRecovers, HttpOK, TcpInvited, Take, Goto, Bump, world,
         http, ram, ble, tcp, hist
    <2>10. KeyedInv'
      BY <1>11 DEF IInv, TypeOK, KeyedInv, KeyedCanGoOn, Handling, TasksOK, MainPlaces,
         BlePlaces, TcpPlaces, TcpInvited, Take, Goto, Bump, world, http, ram, ble, tcp, hist
    <2> QED
      BY <2>1, <2>2, <2>3, <2>4, <2>5, <2>6, <2>7, <2>8, <2>9, <2>10 DEF IInv, TypeOK
  <1>12. CASE TcpInvited /\ ans["tcp"] = UNKNOWN_STATUS
    <2>1. Down("start") /\ mishaps' = mishaps
      BY <1>12 DEF TcpInvited, Restart
    <2> QED
      BY <2>1, DownHolds DEF IInv, TypeOK, RestOK
  <1> QED
    BY <1>1, <1>2, <1>3, <1>4, <1>5, <1>6, <1>7, <1>8, <1>9, <1>10, <1>11, <1>12
    DEF do_retransmit, Client

(* Phones, the server and sleep.                                           *)
LEMMA WorldStep ==
    ASSUME IInv, Connect \/ Send \/ Leave \/ SendAmiss \/ Vanish \/ Redeem \/ Sleep PROVE IInv'
  <1>1. CASE Connect
    <2>1. TasksOK'
      BY <1>1 DEF IInv, TypeOK, TasksOK, MainPlaces, BlePlaces, TcpPlaces, Connect, world, http,
         ram, ble, tcp, hist
    <2>2. HttpOK'
      BY <1>1 DEF IInv, TypeOK, HttpOK, RestOK, Connect, world, http, ram, ble, tcp, hist
    <2>3. MarksOK'
      BY <1>1 DEF IInv, TypeOK, MarksOK, Connect, world, http, ram, ble, tcp, hist
    <2>4. FlagsOK'
      BY <1>1 DEF IInv, TypeOK, FlagsOK, MarksOK, Connect, world, http, ram, ble, tcp, hist
    <2>5. RestOK'
      BY <1>1 DEF IInv, TypeOK, RestOK, HttpOK, Connect, world, http, ram, ble, tcp, hist
    <2>6. NeverAhead'
      BY <1>1 DEF IInv, TypeOK, NeverAhead, HttpOK, RestOK, Connect, world, http, ram, ble, tcp,
         hist
    <2>7. FreshInv'
      BY <1>1 DEF IInv, TypeOK, FreshInv, InviteIsFresh, NeverAhead, Gets, TasksOK, HttpOK,
         MarksOK, FlagsOK, RestOK, MainPlaces, BlePlaces, TcpPlaces, Connect, world, http, ram, ble,
         tcp, hist
    <2>8. RegisteredInv'
      BY <1>1 DEF IInv, TypeOK, RegisteredInv, TasksOK, HttpOK, MainPlaces, BlePlaces, TcpPlaces,
         NeverAhead, RestOK, Connect, world, http, ram, ble, tcp, hist
    <2>9. OffsetRecovers'
      BY <1>1 DEF IInv, TypeOK, OffsetRecovers, HttpOK, Connect, world, http, ram, ble, tcp, hist
    <2>10. KeyedInv'
      BY <1>1 DEF IInv, TypeOK, KeyedInv, KeyedCanGoOn, Handling, TasksOK, MainPlaces, BlePlaces,
         TcpPlaces, Connect, world, http, ram, ble, tcp, hist
    <2> QED
      BY <2>1, <2>2, <2>3, <2>4, <2>5, <2>6, <2>7, <2>8, <2>9, <2>10 DEF IInv, TypeOK
  <1>2. CASE Leave \/ Vanish
    <2>1. TasksOK'
      BY <1>2 DEF IInv, TypeOK, TasksOK, MainPlaces, BlePlaces, TcpPlaces, Leave, Vanish, Gone,
         Mishap, world, http, ram, ble, tcp, hist
    <2>2. HttpOK'
      BY <1>2 DEF IInv, TypeOK, HttpOK, RestOK, Leave, Vanish, Gone, Mishap, world, http, ram,
         ble, tcp, hist
    <2>3. MarksOK'
      BY <1>2 DEF IInv, TypeOK, MarksOK, Leave, Vanish, Gone, Mishap, world, http, ram, ble, tcp,
         hist
    <2>4. FlagsOK'
      BY <1>2 DEF IInv, TypeOK, FlagsOK, MarksOK, Leave, Vanish, Gone, Mishap, world, http, ram,
         ble, tcp, hist
    <2>5. RestOK'
      BY <1>2 DEF IInv, TypeOK, RestOK, HttpOK, Leave, Vanish, Gone, Mishap, world, http, ram,
         ble, tcp, hist
    <2>6. NeverAhead'
      BY <1>2 DEF IInv, TypeOK, NeverAhead, HttpOK, RestOK, Leave, Vanish, Gone, Mishap, world,
         http, ram, ble, tcp, hist
    <2>7. FreshInv'
      BY <1>2 DEF IInv, TypeOK, FreshInv, InviteIsFresh, NeverAhead, Gets, TasksOK, HttpOK,
         MarksOK, FlagsOK, RestOK, MainPlaces, BlePlaces, TcpPlaces, Leave, Vanish, Gone, Mishap,
         world, http, ram, ble, tcp, hist
    <2>8. RegisteredInv'
      BY <1>2 DEF IInv, TypeOK, RegisteredInv, TasksOK, HttpOK, MainPlaces, BlePlaces, TcpPlaces,
         NeverAhead, RestOK, Leave, Vanish, Gone, Mishap, world, http, ram, ble, tcp, hist
    <2>9. OffsetRecovers'
      BY <1>2 DEF IInv, TypeOK, OffsetRecovers, HttpOK, Leave, Vanish, Gone, Mishap, world, http,
         ram, ble, tcp, hist
    <2>10. KeyedInv'
      BY <1>2 DEF IInv, TypeOK, KeyedInv, KeyedCanGoOn, Handling, TasksOK, MainPlaces, BlePlaces,
         TcpPlaces, Leave, Vanish, Gone, Mishap, world, http, ram, ble, tcp, hist
    <2> QED
      BY <2>1, <2>2, <2>3, <2>4, <2>5, <2>6, <2>7, <2>8, <2>9, <2>10 DEF IInv, TypeOK
  <1>3. CASE Send \/ SendAmiss
    <2>1. TasksOK'
      <3>1. pc' = [pc EXCEPT !["ble"] = "get1"]
        BY <1>3 DEF Send, SendAmiss, Message, Goto
      <3> QED
        BY <3>1 DEF IInv, TypeOK, TasksOK, BlePlaces
    <2>2. HttpOK'
      BY <1>3 DEF IInv, TypeOK, HttpOK, RestOK, Send, SendAmiss, Message, Wanted, Goto, Each,
         Mishap, world, http, ram, ble, tcp, hist
    <2>3. MarksOK'
      BY <1>3 DEF IInv, TypeOK, MarksOK, Send, SendAmiss, Message, Wanted, Goto, Each, Mishap,
         world, http, ram, ble, tcp, hist
    <2>4. FlagsOK'
      <3>1. since' = FALSE /\ first' = FALSE
        BY <1>3 DEF Send, SendAmiss, Message
      <3>3. overlap' = (\E t \in Tasks : call[t] = "status") /\ bumped' = FALSE
        BY <1>3 DEF Send, SendAmiss, Message
      <3>2. UNCHANGED <<invited, saved, rsa, online, flag, link, crossed, cut>>
        BY <1>3 DEF Send, SendAmiss, Message, world, ram
      <3>4. overlap' \in BOOLEAN
        BY <3>3
      <3> QED
        BY <3>1, <3>2, <3>3, <3>4 DEF IInv, TypeOK, FlagsOK
    <2>5. RestOK'
      <3>1. /\ msg' \in {"SSC", "RFI", "BAD"} /\ view' = "wait" /\ mishaps' \in 0..MaxMishaps
            /\ UNCHANGED <<srv, status, record, peer>>
        <4>1. mishaps' \in 0..MaxMishaps
          BY <1>3 DEF Send, SendAmiss, Mishap, IInv, TypeOK, RestOK
        <4>2. \E m \in {Wanted, "BAD"} : Message(m)
          BY <1>3 DEF Send, SendAmiss
        <4>3. Wanted \in {"SSC", "RFI"}
          BY DEF Wanted
        <4> QED
          BY <4>1, <4>2, <4>3 DEF Message, world, ram
      <3> QED
        BY <3>1 DEF IInv, TypeOK, RestOK
    <2>6. NeverAhead'
      BY <1>3 DEF IInv, TypeOK, NeverAhead, HttpOK, RestOK, Send, SendAmiss, Message, Wanted,
         Goto, Each, Mishap, world, http, ram, ble, tcp, hist
    <2>7. FreshInv'
      <3>1. pc'["ble"] = "get1" /\ call' = call /\ srv' = srv /\ peer' = peer
        BY <1>3 DEF Send, SendAmiss, Message, Goto, http, world, IInv, TypeOK, TasksOK
      <3>2. (\E t \in Tasks : call[t] = "status") => overlap'
        BY <1>3 DEF Send, SendAmiss, Message
      <3> QED
        BY <3>1, <3>2 DEF IInv, FreshInv, InviteIsFresh, Gets
    <2>8. RegisteredInv'
      BY <1>3 DEF IInv, TypeOK, RegisteredInv, TasksOK, HttpOK, MainPlaces, BlePlaces, TcpPlaces,
         NeverAhead, RestOK, Send, SendAmiss, Message, Wanted, Goto, Each, Mishap, world, http, ram,
         ble, tcp, hist
    <2>9. OffsetRecovers'
      BY <1>3 DEF IInv, TypeOK, OffsetRecovers, HttpOK, Send, SendAmiss, Message, Wanted, Goto,
         Each, Mishap, world, http, ram, ble, tcp, hist
    <2>10. KeyedInv'
      BY <1>3 DEF IInv, TypeOK, KeyedInv, KeyedCanGoOn, Handling, TasksOK, MainPlaces, BlePlaces,
         TcpPlaces, Send, SendAmiss, Message, Wanted, Goto, Each, Mishap, world, http, ram, ble,
         tcp, hist
    <2> QED
      BY <2>1, <2>2, <2>3, <2>4, <2>5, <2>6, <2>7, <2>8, <2>9, <2>10 DEF IInv, TypeOK
  <1>4. CASE Redeem
    <2>1. TasksOK'
      BY <1>4 DEF IInv, TypeOK, TasksOK, MainPlaces, BlePlaces, TcpPlaces, Redeem, world, http,
         ram, ble, tcp, hist
    <2>2. HttpOK'
      BY <1>4 DEF IInv, TypeOK, HttpOK, RestOK, Redeem, world, http, ram, ble, tcp, hist
    <2>3. MarksOK'
      BY <1>4 DEF IInv, TypeOK, MarksOK, Redeem, world, http, ram, ble, tcp, hist
    <2>4. FlagsOK'
      BY <1>4 DEF IInv, TypeOK, FlagsOK, MarksOK, Redeem, world, http, ram, ble, tcp, hist
    <2>5. RestOK'
      BY <1>4 DEF IInv, TypeOK, RestOK, HttpOK, Redeem, world, http, ram, ble, tcp, hist
    <2>6. NeverAhead'
      BY <1>4 DEF IInv, TypeOK, NeverAhead, HttpOK, RestOK, Redeem, world, http, ram, ble, tcp,
         hist
    <2>7. FreshInv'
      BY <1>4 DEF IInv, TypeOK, FreshInv, InviteIsFresh, NeverAhead, Gets, TasksOK, HttpOK,
         MarksOK, FlagsOK, RestOK, MainPlaces, BlePlaces, TcpPlaces, Redeem, world, http, ram, ble,
         tcp, hist
    <2>8. RegisteredInv'
      BY <1>4 DEF IInv, TypeOK, RegisteredInv, TasksOK, HttpOK, MainPlaces, BlePlaces, TcpPlaces,
         NeverAhead, RestOK, Redeem, world, http, ram, ble, tcp, hist
    <2>9. OffsetRecovers'
      BY <1>4 DEF IInv, TypeOK, OffsetRecovers, HttpOK, Redeem, world, http, ram, ble, tcp, hist
    <2>10. KeyedInv'
      BY <1>4 DEF IInv, TypeOK, KeyedInv, KeyedCanGoOn, Handling, TasksOK, MainPlaces, BlePlaces,
         TcpPlaces, Redeem, world, http, ram, ble, tcp, hist
    <2> QED
      BY <2>1, <2>2, <2>3, <2>4, <2>5, <2>6, <2>7, <2>8, <2>9, <2>10 DEF IInv, TypeOK
  <1>5. CASE Sleep
    <2>1. Down("wake") /\ mishaps' \in 0..MaxMishaps
      BY <1>5 DEF Sleep, Mishap, IInv, TypeOK, RestOK
    <2> QED
      BY <2>1, DownHolds
  <1> QED
    BY <1>1, <1>2, <1>3, <1>4, <1>5

LEMMA Stutter == ASSUME IInv, UNCHANGED vars PROVE IInv'
  BY DEF IInv, TypeOK, TasksOK, HttpOK, MarksOK, FlagsOK, RestOK, NeverAhead, FreshInv, InviteIsFresh, RegisteredInv, OffsetRecovers,
     KeyedInv, KeyedCanGoOn, vars, world, http, ram, ble, tcp, hist

-----------------------------------------------------------------------------
(* The inductive invariant holds in every state.                           *)
THEOREM Invariant == Spec => []IInv
  <1>1. IInv /\ [Next]_vars => IInv'
    <2> SUFFICES ASSUME IInv, [Next]_vars PROVE IInv'
      OBVIOUS
    <2>1. CASE UNCHANGED vars
      BY <2>1, Stutter
    <2>2. ASSUME NEW t \in Tasks, Task(t) PROVE IInv'
      BY <2>2, StatusStep, MainStep, BleStep, TcpStep DEF Task
    <2>3. ASSUME NEW t \in Tasks, Wire(t) \/ Lose(t) PROVE IInv'
      BY <2>3, RequestStep
    <2>4. CASE Connect \/ Send \/ Leave \/ SendAmiss \/ Vanish \/ Redeem \/ Sleep
      BY <2>4, WorldStep
    <2>5. CASE Client
      BY <2>5, TcpStep
    <2> QED
      BY <2>1, <2>2, <2>3, <2>4, <2>5 DEF Next
  <1> QED
    BY InitHolds, <1>1, PTL DEF Spec

(* Every variable keeps its type.                                          *)
THEOREM TypeCorrect == Spec => []TypeOK
  <1>1. IInv => TypeOK
    BY DEF IInv
  <1> QED
    BY Invariant, <1>1, PTL

(* No interleaving of the three tasks, and no mishap, makes the lock think   *)
(* itself further registered than the server has it.                       *)
THEOREM StatusNeverAhead == Spec => []NeverAhead
  <1>1. IInv => NeverAhead
    BY DEF IInv
  <1> QED
    BY Invariant, <1>1, PTL

(* Over Bluetooth the first invite is asked for on a word of the server    *)
(* that is younger than the phone's request, unless another task was       *)
(* asking when the request came; over TCP the lock is registered.          *)
THEOREM InvitesAreFresh == Spec => []InviteIsFresh
  <1>1. IInv => InviteIsFresh
    BY DEF IInv, FreshInv
  <1> QED
    BY Invariant, <1>1, PTL

(* After the boot NOT_REGISTERED is true, unless the lock was registered   *)
(* while another task was being told it was not.                           *)
THEOREM UnregisteredIsTrue == Spec => []NotRegisteredIsTrue
  <1>1. IInv => NotRegisteredIsTrue
    BY DEF IInv, RegisteredInv, NotRegisteredIsTrue
  <1> QED
    BY Invariant, <1>1, PTL

(* An answer cut short spoils no request but the next.                     *)
THEOREM OffsetIsRecovered == Spec => []OffsetRecovers
  <1>1. IInv => OffsetRecovers
    BY DEF IInv
  <1> QED
    BY Invariant, <1>1, PTL

(* A phone that was answered ACK finds its key and the flag, and a record  *)
(* that only a command over TCP can have put back.                         *)
THEOREM KeyedPhonesGoOn == Spec => []KeyedCanGoOn
  <1>1. IInv => KeyedCanGoOn
    BY DEF IInv, KeyedInv
  <1> QED
    BY Invariant, <1>1, PTL
=============================================================================
