---------------------------- MODULE Registration ----------------------------
(***************************************************************************)
(* How a new lock gets its first user.  app_main registers the lock with   *)
(* the server (init_rsa_key of main.c); a phone then installs a session    *)
(* key over Bluetooth (SSC, answered ACK) and asks for the first invite    *)
(* (RFI, answered SFI).  A client of the TCP server may come between: it   *)
(* asks for an invite itself, and its other commands put the phone's       *)
(* record back to CONNECTING.  The three tasks read registration_status of *)
(* utils.c, a copy of what the server says, and make requests whose        *)
(* answers go through the event handler of database_util.c, which has one  *)
(* static offset for all of them.                                          *)
(*                                                                         *)
(* A call is split where another task can come between: at each read and   *)
(* write of registration_status, and at each event of a request.  What may *)
(* go wrong outside the program (a lost request, an answer cut short, a    *)
(* refusal, a phone that leaves or does not wait, a sleep) is a mishap,    *)
(* and so are a client over TCP and each of its commands that may make a   *)
(* request; MaxMishaps bounds them.                                        *)
(***************************************************************************)
EXTENDS Integers

CONSTANTS MaxMishaps,  \* bound of the model
          Chunks       \* HTTP_EVENT_ON_DATA events an answer may take

ASSUME BoundsAssumption == MaxMishaps \in Nat /\ Chunks \in Nat \ {0}

(* lock_registration_status_t                                              *)
UNKNOWN_STATUS == -1
NOT_REGISTERED == 0
REGISTERED     == 1
COMPLETE       == 2
Statuses == {UNKNOWN_STATUS, NOT_REGISTERED, REGISTERED, COMPLETE}

Tasks == {"main", "ble", "tcp"}

VARIABLES
    srv,      \* status of this lock on the server
    invited,  \* the server has registered a first invite
    mishaps,  \* how many so far
    saved,    \* flash: a Wi-Fi network is saved
    rsa,      \* RTC memory: privkey_2048_buf is set
    pc,       \* where each task is
    online,   \* isConnected
    status,   \* registration_status
    flag,     \* got_first_invite_session_key_s3
    call,     \* what a task's request, or its get_registration_status, is at
    phase,    \* how far the request is: "send", "body", "done"
    ans,      \* what the server answered it, as far as it can be read
    got,      \* parts of the answer copied to the local response buffer
    len,      \* output_len, shared by all requests
    link,     \* is_connected
    record,   \* state in users_info of ble_user_addr
    msg,      \* the message being handled
    first,    \* it took the branch of a first contact
    view,     \* what the phone has been told
    peer,     \* the client of the TCP server
    bumped,   \* history: it reset the record of a phone that has its key
    fresh,    \* history: the task asked for the status during the message
    since,    \* history: registration_status is the answer to such a request
    overlap,  \* history: another task was asking when the message came
    crossed,  \* history: the lock was registered while another task was
              \* being told it was not
    cut       \* history: the last request to end was cut short

world == <<srv, invited>>
http  == <<call, phase, ans, got, len>>
ram   == <<online, status, flag>>
ble   == <<link, record, msg, first, view>>
tcp   == <<peer, bumped>>
hist  == <<fresh, since, overlap, crossed, cut>>
vars  == <<world, mishaps, saved, rsa, pc, ram, http, ble, tcp, hist>>

Each(x) == [t \in Tasks |-> x]

Init ==
    /\ srv \in {NOT_REGISTERED, REGISTERED} /\ invited = FALSE /\ mishaps = 0
    /\ saved \in BOOLEAN /\ rsa = FALSE
    /\ pc = [main |-> "start", ble |-> "idle", tcp |-> "idle"]
    /\ online = FALSE /\ status = UNKNOWN_STATUS /\ flag = FALSE
    /\ call = Each("none") /\ phase = Each("done") /\ ans = Each(UNKNOWN_STATUS)
    /\ got = Each(0) /\ len = 0
    /\ link = FALSE /\ record = "disconnected" /\ msg = "SSC" /\ first = FALSE /\ view = "none"
    /\ peer = "none" /\ bumped = FALSE
    /\ fresh = Each(FALSE) /\ since = FALSE /\ overlap = FALSE /\ crossed = FALSE
    /\ cut = FALSE

(* Everything in RAM starts over; main is "start", or "wake" after deep    *)
(* sleep, which the key in RTC memory outlives.                            *)
Down(how) ==
    /\ UNCHANGED <<world, saved>>
    /\ rsa' = (rsa /\ how = "wake")
    /\ pc' = [main |-> how, ble |-> "idle", tcp |-> "idle"]
    /\ online' = FALSE /\ status' = UNKNOWN_STATUS /\ flag' = FALSE
    /\ call' = Each("none") /\ phase' = Each("done") /\ ans' = Each(UNKNOWN_STATUS)
    /\ got' = Each(0) /\ len' = 0
    /\ link' = FALSE /\ record' = "disconnected" /\ msg' = "SSC" /\ first' = FALSE
    /\ view' = "none" /\ peer' = "none" /\ bumped' = FALSE
    /\ fresh' = Each(FALSE) /\ since' = FALSE /\ overlap' = FALSE /\ crossed' = FALSE
    /\ cut' = FALSE

(* A NULL pointer is used: the program ends, and starts as after a reset.  *)
Restart == Down("start") /\ UNCHANGED mishaps

Mishap == mishaps < MaxMishaps /\ mishaps' = mishaps + 1

Goto(t, place) == pc' = [pc EXCEPT ![t] = place]

-----------------------------------------------------------------------------
(* Requests: esp_http_client_perform and _http_event_handler.              *)

Issue(t, what) ==
    /\ call'  = [call EXCEPT ![t] = what]
    /\ phase' = [phase EXCEPT ![t] = "send"]
    /\ ans'   = [ans EXCEPT ![t] = UNKNOWN_STATUS]
    /\ UNCHANGED <<got, len>>

(* The task takes the answer; its local buffer is gone.                    *)
Take(t, next) ==
    /\ call'  = [call EXCEPT ![t] = next]
    /\ ans'   = [ans EXCEPT ![t] = UNKNOWN_STATUS]
    /\ UNCHANGED <<phase, got, len>>

(* The server handles a request.  It never takes a registration back, and  *)
(* may refuse (a mishap).                                                  *)
Serve(t) ==
    /\ phase[t] = "send"
    /\ phase' = [phase EXCEPT ![t] = "body"]
    /\ \/ /\ srv' = IF call[t] = "register" /\ srv = NOT_REGISTERED THEN REGISTERED ELSE srv
          /\ invited' = (invited \/ call[t] = "invite")
          /\ ans' = [ans EXCEPT ![t] = srv']
          /\ UNCHANGED mishaps
       \/ Mishap /\ UNCHANGED <<world, ans>>
    /\ crossed' = \/ crossed
                  \/ srv' # srv /\ \E u \in Tasks \ {t} : ans[u] = NOT_REGISTERED
    /\ UNCHANGED <<saved, rsa, pc, ram, call, got, len, ble, tcp, fresh, since, overlap,
                   cut>>

(* HTTP_EVENT_ON_DATA: the part goes to user_data + output_len.  A buffer  *)
(* with parts out of place does not parse, which is "success": false.      *)
Data(t) ==
    /\ phase[t] = "body" /\ got[t] < Chunks
    /\ ans' = [ans EXCEPT ![t] = IF len = got[t] THEN @ ELSE UNKNOWN_STATUS]
    /\ got' = [got EXCEPT ![t] = @ + 1]
    /\ len' = len + 1
    /\ UNCHANGED <<world, mishaps, saved, rsa, pc, ram, call, phase, ble, tcp, hist>>

(* Variant of Finish: output_len is not reset.                             *)
FinishKeeps(t) ==
    /\ phase[t] = "body" /\ got[t] > 0
    /\ phase' = [phase EXCEPT ![t] = "done"] /\ got' = [got EXCEPT ![t] = 0]
    /\ cut' = FALSE
    /\ UNCHANGED <<world, mishaps, saved, rsa, pc, ram, call, ans, len, ble, tcp,
                   fresh, since, overlap, crossed>>

(* HTTP_EVENT_ON_FINISH: output_len starts over.                           *)
Finish(t) ==
    /\ phase[t] = "body" /\ got[t] > 0
    /\ phase' = [phase EXCEPT ![t] = "done"] /\ got' = [got EXCEPT ![t] = 0]
    /\ len' = 0
    /\ cut' = FALSE
    /\ UNCHANGED <<world, mishaps, saved, rsa, pc, ram, call, ans, ble, tcp,
                   fresh, since, overlap, crossed>>

(* No answer, or one that ends early: perform returns an error.            *)
(* HTTP_EVENT_DISCONNECTED leaves output_len as it is.                     *)
Lose(t) ==
    /\ phase[t] \in {"send", "body"} /\ Mishap
    /\ phase' = [phase EXCEPT ![t] = "done"] /\ got' = [got EXCEPT ![t] = 0]
    /\ ans' = [ans EXCEPT ![t] = UNKNOWN_STATUS]
    /\ cut' = TRUE
    /\ UNCHANGED <<world, saved, rsa, pc, ram, call, len, ble, tcp,
                   fresh, since, overlap, crossed>>

-----------------------------------------------------------------------------
(* get_registration_status and force_get_registration_status.              *)

Gets == {"get", "reget", "last", "get1", "get2", "get3", "get4", "tcpGet"}

(* Variant of Forced: the old value is used again.                         *)
ForcedNot == status

(* registration_status = UNKNOWN_STATUS                                    *)
Forced == UNKNOWN_STATUS

ForceGet(t) ==
    /\ \/ pc[t] = "force" /\ Goto(t, "reget")
       \/ pc[t] = "force2" /\ Goto(t, "get2")
       \/ pc[t] = "force4" /\ Goto(t, "get4")
    /\ status' = Forced
    /\ UNCHANGED <<world, mishaps, saved, rsa, online, flag, http, ble, tcp, hist>>

(* if (registration_status == UNKNOWN_STATUS) ask the server               *)
Ask(t) ==
    /\ pc[t] \in Gets /\ call[t] = "none"
    /\ IF status = UNKNOWN_STATUS
       THEN /\ Issue(t, "status")
            /\ fresh' = [fresh EXCEPT ![t] = (pc["ble"] # "idle")]
       ELSE /\ call' = [call EXCEPT ![t] = "return"]
            /\ UNCHANGED <<phase, ans, got, len, fresh>>
    /\ UNCHANGED <<world, mishaps, saved, rsa, pc, ram, ble, tcp, since, overlap, crossed, cut>>

(* Variant of Answer: the code of a refusal is returned as the status.     *)
AnswerCode(t) == IF ans[t] = UNKNOWN_STATUS THEN 404 ELSE ans[t]

(* Variant of Answer: a request that fails counts as registered.           *)
AnswerHopeful(t) == IF ans[t] = UNKNOWN_STATUS THEN REGISTERED ELSE ans[t]

(* get_registration_status_server(): UNKNOWN_STATUS when anything failed.  *)
Answer(t) == ans[t]

(* registration_status = get_registration_status_server()                  *)
Learn(t) ==
    /\ call[t] = "status" /\ phase[t] = "done"
    /\ status' = Answer(t)
    /\ since' = fresh[t] /\ fresh' = [fresh EXCEPT ![t] = FALSE]
    /\ Take(t, "return")
    /\ UNCHANGED <<world, mishaps, saved, rsa, pc, online, flag,
                   ble, tcp, overlap, crossed, cut>>

(* return registration_status, which is read once more.                    *)
Returns(t) == call[t] = "return" /\ call' = [call EXCEPT ![t] = "none"]
           /\ UNCHANGED <<phase, ans, got, len>>

-----------------------------------------------------------------------------
(* app_main, as far as it matters to registration.                         *)

(* Wi-Fi: connect_to_wifi sets isConnected on the saved network at once;   *)
(* ESP-Touch saves a network and leaves it to the end of the boot.  Then   *)
(* obtain_time.                                                            *)
Wifi ==
    /\ pc["main"] = "start"
    /\ \E ok \in BOOLEAN : online' = (saved /\ ok)
    /\ saved' = TRUE
    /\ Goto("main", "key")
    /\ UNCHANGED <<world, mishaps, rsa, status, flag, http, ble, tcp, hist>>

(* init_rsa_key loads the key, or gives up when the file system fails.     *)
SetKey ==
    /\ pc["main"] = "key"
    /\ \/ rsa' = TRUE /\ Goto("main", "get") /\ UNCHANGED mishaps
       \/ Mishap /\ Goto("main", "late") /\ UNCHANGED rsa
    /\ UNCHANGED <<world, saved, ram, http, ble, tcp, hist>>

MainReturn ==
    /\ Returns("main")
    /\ \/ pc["main"] = "get" /\ status = NOT_REGISTERED /\ Goto("main", "register")
       \/ pc["main"] = "get" /\ status # NOT_REGISTERED /\ Goto("main", "late")
       \/ pc["main"] = "reget" /\ Goto("main", "late")
       \/ pc["main"] = "last" /\ Goto("main", "done")
    /\ UNCHANGED <<world, mishaps, saved, rsa, online, status, flag, ble, tcp, hist>>

(* register_lock, unless the certificate cannot be read.                   *)
Register ==
    /\ pc["main"] = "register" /\ call["main"] = "none"
    /\ \/ Issue("main", "register") /\ UNCHANGED <<pc, mishaps>>
       \/ Mishap /\ Goto("main", "late") /\ UNCHANGED http
    /\ UNCHANGED <<world, saved, rsa, ram, ble, tcp, hist>>

(* Variant of Registered: the status is not asked again.                   *)
RegisteredOnce ==
    /\ call["main"] = "register" /\ phase["main"] = "done"
    /\ Take("main", "none")
    /\ Goto("main", "late")
    /\ UNCHANGED <<world, mishaps, saved, rsa, ram, ble, tcp, hist>>

(* Its result only goes to the log.                                        *)
Registered ==
    /\ call["main"] = "register" /\ phase["main"] = "done"
    /\ Take("main", "none")
    /\ Goto("main", "force")
    /\ UNCHANGED <<world, mishaps, saved, rsa, ram, ble, tcp, hist>>

(* tcp_main, setWifiConnected(true), server_online; after deep sleep the   *)
(* way here is short, and Bluetooth starts only now.                       *)
Late ==
    /\ pc["main"] \in {"late", "wake"}
    /\ online' = TRUE
    /\ Goto("main", "last")
    /\ UNCHANGED <<world, mishaps, saved, rsa, status, flag, http, ble, tcp, hist>>

-----------------------------------------------------------------------------
(* Bluetooth: the phone's side.                                            *)

(* ESP_GATTS_CONNECT_EVT                                                   *)
Connect ==
    /\ ~ link /\ pc["main"] # "wake"
    /\ link' = TRUE /\ record' = "connecting" /\ view' = "new"
    /\ UNCHANGED <<world, mishaps, saved, rsa, pc, online, status, flag, http, msg, first, tcp,
                   hist>>

(* ESP_GATTS_DISCONNECT_EVT: the flag of a first contact stays.            *)
Gone ==
    /\ link /\ pc["ble"] = "idle"
    /\ link' = FALSE /\ record' = "disconnected" /\ view' = "none"
    /\ msg' = "SSC" /\ first' = FALSE /\ bumped' = FALSE /\ since' = FALSE /\ overlap' = FALSE
    /\ UNCHANGED <<world, saved, rsa, pc, online, status, flag, http, peer, fresh, crossed, cut>>

(* A phone leaves when it has its invite, or an answer it cannot use.      *)
Leave == view \in {"happy", "stuck"} /\ Gone /\ UNCHANGED mishaps
Vanish == view \notin {"happy", "stuck"} /\ Mishap /\ Gone

(* Bluetooth messages are rejected until isWifiConnected().                *)
Message(m) ==
    /\ link /\ pc["ble"] = "idle" /\ online
    /\ msg' = m /\ view' = "wait" /\ first' = FALSE
    /\ Goto("ble", "get1")
    /\ fresh' = Each(FALSE) /\ since' = FALSE
    /\ overlap' = (\E t \in Tasks : call[t] = "status")
    /\ bumped' = FALSE
    /\ UNCHANGED <<world, saved, rsa, ram, http, link, record, peer, crossed, cut>>

Wanted == IF view = "new" THEN "SSC" ELSE "RFI"

(* The phone waits for LOK, its answer to PNG, and sends what is due: its  *)
(* session key first, then the request for an invite.                      *)
Send ==
    /\ view \in {"new", "keyed"}
    /\ pc["main"] \in {"last", "done"}
    /\ Message(Wanted) /\ UNCHANGED mishaps

(* It does not wait, or what it sends is not SSC.                          *)
SendAmiss ==
    /\ view \in {"new", "keyed"} /\ Mishap
    /\ \/ pc["main"] \notin {"last", "done"} /\ Message(Wanted)
       \/ Message("BAD")

(* The server finds the invite redeemed.                                   *)
Redeem ==
    /\ invited /\ srv = REGISTERED
    /\ srv' = COMPLETE
    /\ UNCHANGED <<invited, mishaps, saved, rsa, pc, ram, http, ble, tcp, hist>>

(* The deep sleep timer fires, be it under a client (Power has when).      *)
Sleep == Mishap /\ Down("wake")

-----------------------------------------------------------------------------
(* process_normal_data.                                                    *)

BleReturn ==
    /\ Returns("ble")
    /\ \/ /\ pc["ble"] = "get1"
          /\ Goto("ble", IF status = REGISTERED THEN "force2" ELSE "plain")
          /\ UNCHANGED view
       \/ /\ pc["ble"] = "get2"
          /\ Goto("ble", IF status = REGISTERED THEN "first" ELSE "plain")
          /\ UNCHANGED view
       \/ /\ pc["ble"] = "get3" /\ status = REGISTERED
          /\ Goto("ble", "verify") /\ UNCHANGED view
       \/ /\ pc["ble"] = "get3" /\ status # REGISTERED
          /\ Goto("ble", IF first THEN "force4" ELSE "idle") /\ view' \in {"new", "stuck"}
       \/ pc["ble"] = "get4" /\ Goto("ble", "idle") /\ UNCHANGED view
    /\ UNCHANGED <<world, mishaps, saved, rsa, ram, link, record, msg, first, tcp, hist>>

(* retrieve_session_credentials on a message under the lock's RSA key.     *)
(* Without the key, or on a message that is not under it, decrypt_RSA      *)
(* returns NULL, which is used.                                            *)
Decrypts == rsa /\ msg \in {"SSC", "BAD"}

(* Variant of FirstKey: the flag is not set.                               *)
FirstKeyUnset ==
    /\ pc["ble"] = "first" /\ ~ flag
    /\ \/ /\ Decrypts /\ msg = "SSC"
          /\ record' = "connected" /\ view' = "keyed"
          /\ Goto("ble", "force4")
       \/ /\ Decrypts /\ msg = "BAD"
          /\ view' = "stuck"
          /\ Goto("ble", "idle")
          /\ UNCHANGED record
    /\ UNCHANGED <<world, mishaps, saved, rsa, ram, http, link, msg, first, tcp, hist>>

(* Variant of FirstKey: the record stays CONNECTING.                       *)
FirstKeyConnecting ==
    /\ pc["ble"] = "first" /\ ~ flag
    /\ \/ /\ Decrypts /\ msg = "SSC"
          /\ flag' = TRUE /\ view' = "keyed"
          /\ Goto("ble", "force4")
       \/ /\ Decrypts /\ msg = "BAD"
          /\ view' = "stuck"
          /\ Goto("ble", "idle")
          /\ UNCHANGED flag
    /\ UNCHANGED <<world, mishaps, saved, rsa, online, status, http, link, record, msg,
                   first, tcp, hist>>

(* "Not auth, First comm", with no session key yet.                        *)
FirstKey ==
    /\ pc["ble"] = "first" /\ ~ flag
    /\ \/ /\ Decrypts /\ msg = "SSC"
          /\ record' = "connected" /\ flag' = TRUE /\ view' = "keyed"
          /\ Goto("ble", "force4")
       \/ /\ Decrypts /\ msg = "BAD"
          /\ view' = "stuck"
          /\ Goto("ble", "idle")
          /\ UNCHANGED <<record, flag>>
    /\ UNCHANGED <<world, mishaps, saved, rsa, online, status, http, link, msg, first,
                   tcp, hist>>

(* With one: the flag goes, the message is a command, here RFI.            *)
FirstCommand ==
    /\ pc["ble"] = "first" /\ flag /\ msg = "RFI"
    /\ flag' = FALSE /\ first' = TRUE
    /\ Goto("ble", "get3")
    /\ UNCHANGED <<world, mishaps, saved, rsa, online, status, http, link, record, msg,
                   view, tcp, hist>>

(* The branches of a lock that is not REGISTERED: RAC is an answer a phone *)
(* that wants its first invite cannot use.                                 *)
Plain ==
    /\ pc["ble"] = "plain"
    /\ \/ /\ record = "connecting" /\ Decrypts
          /\ record' = IF msg = "SSC" THEN "connected" ELSE record
          /\ view' = "stuck"
          /\ Goto("ble", "idle")
       \/ /\ record = "connected" /\ msg = "RFI"
          /\ Goto("ble", "get3")
          /\ UNCHANGED <<record, view>>
    /\ UNCHANGED <<world, mishaps, saved, rsa, ram, http, link, msg, first, tcp, hist>>

(* Credentials where a command is expected have no second word; a command  *)
(* where credentials are expected does not decrypt.                        *)
Mismatch ==
    /\ \/ pc["ble"] = "first" /\ (IF flag THEN msg # "RFI" ELSE ~ Decrypts)
       \/ pc["ble"] = "plain" /\ (IF record = "connected" THEN msg # "RFI" ELSE ~ Decrypts)
    /\ Restart

(* RFI: verifyTimestampsAndNonce, then create_invite.                      *)
Verify ==
    /\ pc["ble"] = "verify"
    /\ \/ Issue("ble", "invite") /\ Goto("ble", "invite") /\ UNCHANGED <<mishaps, view>>
       \/ /\ Mishap
          /\ Goto("ble", IF first THEN "force4" ELSE "idle")
          /\ view' \in {"new", "stuck"}
          /\ UNCHANGED http
    /\ UNCHANGED <<world, saved, rsa, ram, link, record, msg, first, tcp, hist>>

(* SFI and the id go out; without an id the program ends in strlen(NULL).  *)
Invited ==
    /\ pc["ble"] = "invite" /\ phase["ble"] = "done"
    /\ IF ans["ble"] # UNKNOWN_STATUS
       THEN /\ Take("ble", "none")
            /\ view' = "happy"
            /\ Goto("ble", IF first THEN "force4" ELSE "idle")
            /\ UNCHANGED <<world, mishaps, saved, rsa, ram, link, record, msg, first, tcp, hist>>
       ELSE Restart

-----------------------------------------------------------------------------
(* The TCP server: tcp_server_task and the commands of one client at a     *)
(* time.  Replies are not followed; a client that hears NAK is put out.    *)

(* accept, once tcp_main has run.                                          *)
TcpConnect ==
    /\ peer = "none" /\ pc["main"] \in {"last", "done"} /\ Mishap
    /\ peer' = "connecting"
    /\ UNCHANGED <<world, saved, rsa, pc, online, status, flag, http, ble, bumped, hist>>

Sends == peer # "none" /\ pc["tcp"] = "idle"
Commands == peer \in {"connected", "authorized"} /\ pc["tcp"] = "idle"

(* The end of do_retransmit.                                               *)
Out   == peer' = "none"
Stays == UNCHANGED peer

(* It closes, or sends what is answered NAK and changes nothing.           *)
TcpLeave ==
    /\ Sends /\ Out
    /\ UNCHANGED <<world, mishaps, saved, rsa, pc, online, status, flag, http, ble, bumped, hist>>

TcpKey ==
    /\ Sends /\ peer = "connecting" /\ rsa
    /\ peer' = "connected"
    /\ UNCHANGED <<world, mishaps, saved, rsa, pc, ram, http, ble, bumped, hist>>

(* What it sends does not decrypt, or is RUI from a stranger: NULL is used.*)
TcpAmiss == Sends /\ Restart

(* set_BLE_user_state_to_connecting.                                       *)
Bump ==
    /\ record' = IF link THEN "connecting" ELSE record
    /\ bumped' = (bumped \/ view = "keyed")
    /\ UNCHANGED <<link, msg, first, view>>

(* RUD, RLD, RDS, RNI, RUI and unknown commands end in it, done or refused.*)
TcpUse ==
    /\ Commands /\ Bump
    /\ Out \/ (peer = "authorized" /\ Stays)
    /\ UNCHANGED <<world, mishaps, saved, rsa, pc, online, status, flag, http, hist>>

(* RFI reads the status as it is.                                          *)
TcpFirst ==
    /\ Commands /\ Mishap /\ Goto("tcp", "tcpGet")
    /\ UNCHANGED <<world, saved, rsa, ram, http, ble, tcp, hist>>

TcpReturn ==
    /\ pc["tcp"] = "tcpGet" /\ call["tcp"] = "return"
    /\ \/ status = REGISTERED /\ Issue("tcp", "invite") /\ Goto("tcp", "tcpInvite") /\ Stays
       \/ Returns("tcp") /\ Goto("tcp", "idle") /\ Out
    /\ UNCHANGED <<world, mishaps, saved, rsa, online, status, flag, ble, bumped, hist>>

(* SAC: rights the lock does not have are asked for, and RNI and RUI of    *)
(* one who has them ask for an invite.                                     *)
TcpAsk ==
    /\ Commands /\ Mishap
    /\ \/ Issue("tcp", "rights") /\ Goto("tcp", "rights")
       \/ peer = "authorized" /\ Issue("tcp", "invite") /\ Goto("tcp", "newInvite")
    /\ UNCHANGED <<world, saved, rsa, ram, ble, tcp, hist>>

(* Only a lock whose first invite was redeemed has users with rights.      *)
Authorize(given) == \/ given /\ peer' = "authorized"
                    \/ Out

(* The rights are in flash.                                                *)
TcpKnown ==
    /\ Commands /\ Authorize(srv = COMPLETE)
    /\ UNCHANGED <<world, mishaps, saved, rsa, pc, online, status, flag, http, ble, bumped, hist>>

TcpRights ==
    /\ pc["tcp"] = "rights" /\ phase["tcp"] = "done"
    /\ Take("tcp", "none") /\ Goto("tcp", "idle") /\ Authorize(ans["tcp"] = COMPLETE)
    /\ UNCHANGED <<world, mishaps, saved, rsa, online, status, flag, ble, bumped, hist>>

(* As in Invited, strlen(NULL) without an id.                              *)
TcpInvited ==
    /\ pc["tcp"] \in {"tcpInvite", "newInvite"} /\ phase["tcp"] = "done"
    /\ IF ans["tcp"] # UNKNOWN_STATUS
       THEN /\ Take("tcp", "none") /\ Goto("tcp", "idle")
            /\ IF pc["tcp"] = "newInvite" THEN Bump ELSE UNCHANGED <<ble, bumped>>
            /\ UNCHANGED <<world, mishaps, saved, rsa, ram, peer, hist>>
       ELSE Restart

-----------------------------------------------------------------------------
app_main == Wifi \/ SetKey \/ MainReturn \/ Register \/ Registered \/ Late

process_normal_data ==
    BleReturn \/ FirstKey \/ FirstCommand \/ Plain \/ Mismatch \/ Verify \/ Invited

do_retransmit == TcpReturn \/ TcpRights \/ TcpInvited

Client == TcpConnect \/ TcpLeave \/ TcpKey \/ TcpAmiss \/ TcpUse \/ TcpFirst \/ TcpAsk \/ TcpKnown

(* What the code does by itself.                                           *)
Task(t) ==
    \/ Ask(t) \/ Learn(t) \/ ForceGet(t)
    \/ t = "main" /\ app_main
    \/ t = "ble" /\ process_normal_data
    \/ t = "tcp" /\ do_retransmit

(* A request goes through.                                                 *)
Wire(t) == Serve(t) \/ Data(t) \/ Finish(t)

Next ==
    \/ \E t \in Tasks : Task(t) \/ Wire(t) \/ Lose(t)
    \/ Connect \/ Send \/ Leave
    \/ SendAmiss \/ Vanish \/ Redeem \/ Sleep \/ Client

Spec == Init /\ [][Next]_vars

(* The scheduler runs the tasks, requests end, and phones keep trying; a   *)
(* client over TCP may be silent.                                          *)
FairSpec ==
    /\ Spec
    /\ \A t \in Tasks : WF_vars(Task(t)) /\ WF_vars(Wire(t))
    /\ WF_vars(Connect) /\ WF_vars(Send) /\ WF_vars(Leave)
-----------------------------------------------------------------------------
MainPlaces == {"start", "wake", "key", "get", "register", "force", "reget", "late", "last", "done"}
BlePlaces  == {"idle", "get1", "force2", "get2", "first", "plain", "get3", "verify", "invite",
               "force4", "get4"}
TcpPlaces  == {"idle", "tcpGet", "tcpInvite", "rights", "newInvite"}

(* Every variable has its type.                                            *)
TasksOK ==
    /\ pc \in [Tasks -> MainPlaces \cup BlePlaces \cup TcpPlaces]
    /\ pc["main"] \in MainPlaces /\ pc["ble"] \in BlePlaces /\ pc["tcp"] \in TcpPlaces

HttpOK ==
    /\ call \in [Tasks -> {"none", "status", "return", "register", "invite", "rights"}]
    /\ phase \in [Tasks -> {"send", "body", "done"}]
    /\ ans \in [Tasks -> Statuses]
    /\ got \in [Tasks -> 0..Chunks] /\ len \in Nat

MarksOK == fresh \in [Tasks -> BOOLEAN]

FlagsOK ==
    \A f \in {invited, saved, rsa, online, flag, link, first, bumped, since, overlap,
              crossed, cut} : f \in BOOLEAN

RestOK ==
    /\ srv \in Statuses \ {UNKNOWN_STATUS} /\ status \in Statuses
    /\ mishaps \in 0..MaxMishaps
    /\ record \in {"disconnected", "connecting", "connected"}
    /\ msg \in {"SSC", "RFI", "BAD"}
    /\ view \in {"none", "new", "wait", "keyed", "happy", "stuck"}
    /\ peer \in {"none", "connecting", "connected", "authorized"}

TypeOK == TasksOK /\ HttpOK /\ MarksOK /\ FlagsOK /\ RestOK

(* The copy of the registration status, and every answer on its way into   *)
(* it, is never ahead of the server: lost, garbled and late answers make   *)
(* the lock think itself less registered than it is, never more.           *)
NeverAhead == status <= srv /\ \A t \in Tasks : ans[t] <= srv

(* Over Bluetooth the first invite is asked for on the word of the server  *)
(* given after the phone's request arrived: force_get_registration_status  *)
(* at the head of process_normal_data keeps an old REGISTERED from being   *)
(* used, unless an answer another task had asked for earlier lands in      *)
(* between.  Over TCP RFI uses the copy as old as it is, so all that holds *)
(* there is that the server has the lock registered.                       *)
InviteIsFresh ==
    /\ pc["ble"] \in {"verify", "invite"} => since \/ overlap
    /\ \A t \in Tasks : call[t] = "invite" => srv # NOT_REGISTERED

(* A lock that has booted and thinks it is not registered is not: the      *)
(* status is asked again after register_lock, whatever became of that      *)
(* request.  Only an answer another task was waiting for while app_main    *)
(* registered the lock (the Bluetooth task: TCP starts later) can put the  *)
(* old status back, and nothing then asks again.                           *)
NotRegisteredIsTrue ==
    pc["main"] = "done" /\ status = NOT_REGISTERED => srv = NOT_REGISTERED \/ crossed

(* Between requests output_len is 0, unless the last one was cut short:    *)
(* requests of tasks that overlap spoil each other, and one that is cut    *)
(* short the next one, but none after that.                                *)
OffsetRecovers ==
    (\A t \in Tasks : phase[t] = "done") /\ ~ cut => len = 0

(* A phone that was answered ACK can go on: whatever becomes of the status *)
(* meanwhile, its key is in the record and the flag is set, which is what  *)
(* the branch of a first contact needs to read its RFI under that key.     *)
(* The other branch needs the record CONNECTED: so it is, and only a       *)
(* command over TCP takes that away.                                       *)
KeyedCanGoOn == view = "keyed" => link /\ flag /\ rsa /\ (record = "connected" \/ bumped)

(* Once the server has the lock registered, and no answer older than that  *)
(* is in the copy or on its way there, a phone gets its first invite: no   *)
(* mishap, restart, sleep or client over TCP on the way leaves the lock    *)
(* unable to give it, and only app_main asking for the status during the   *)
(* phone's messages, boot after boot, can put it off.                      *)
Current == status # NOT_REGISTERED /\ \A t \in Tasks : ans[t] # NOT_REGISTERED

Contended == pc["ble"] # "idle" /\ call["main"] = "status"

FirstInvite == srv = REGISTERED /\ Current ~> invited \/ Contended
=============================================================================
