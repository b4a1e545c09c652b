---------------------------- MODULE Authorization ----------------------------
(***************************************************************************)
(* Who may do what: the authorisations the lock keeps in flash             *)
(* (nvs_util.c), how it gets them from the server (database_util.c), and   *)
(* the two decisions it takes by them, canUseLock and canCreateInvite of   *)
(* tcp_server_handler.c.  An invite makes the server authorise another     *)
(* phone, which may then come to the lock, be looked up, and invite.       *)
(*                                                                         *)
(* Session has the protocol of a session; here a client is a phone that    *)
(* is AUTHORIZED on a channel or not.  The server is external: it changes  *)
(* its mind at any time, answers late, or does not answer.                 *)
(***************************************************************************)
EXTENDS Integers, FiniteSets

CONSTANTS
    Phones,       \* the phone_ids
    First,        \* the phone of the first invite
    Requests,     \* the rights clients ask invites for
    NvsFails,     \* whether flash may fail, to read or to write
    MaxDay,       \* bound of the model: the last day
    MaxInvites    \* bound of the model: invites registered

Chan == {"tcp", "ble"}

(* enum userType: 0 is higher than 1.  RNI takes any number.               *)
admin == 0
owner == 1
tenant == 2
periodic_user == 3
one_time_user == 4

(* The authorization structure without its key, and what an invite says.   *)
(* A field that the type does not use is -1, or empty.                     *)
Rights == [type : Nat, from : Int, until : Int, days : SUBSET (0 .. 6), day : Int]

Full(t) == [type |-> t, from |-> -1, until |-> -1, days |-> {}, day |-> -1]

(* No blob, or nothing that the server would say of a phone.               *)
NoRights == Full(-1)

(* What RNI reads into a request: the fields that belong to its type.      *)
Fits(q) ==
    /\ q.type \notin {tenant, periodic_user} => q.from = -1 /\ q.until = -1
    /\ q.type # periodic_user => q.days = {}
    /\ q.type # one_time_user => q.day = -1

ASSUME InputAssumption ==
    /\ First \in Phones
    /\ Requests \subseteq Rights
    /\ \A q \in Requests : Fits(q)
    /\ NvsFails \in BOOLEAN
    /\ MaxDay \in Nat
    /\ MaxInvites \in Nat

VARIABLES
    granted,   \* the server: what each phone is authorised for, if any
    ever,      \* history: all it ever was authorised for
    invites,   \* the server: invites registered, with the phone they are by
    known,     \* flash: the blob under each phone_id, if any
    today,     \* getTodayTimestamp(), in days
    who,       \* per channel: the phone of a record that is AUTHORIZED
    pc, job,   \* per channel: where its handler is, and with which command
    asks,      \* the phone_id of SAC
    got,       \* what get_authorization_db received
    req,       \* what RNI and RUI ask an invite for
    agent      \* history: the phone canCreateInvite decided about

server == <<granted, ever, invites>>
locals == <<job, asks, got, req, agent>>
vars   == <<server, known, today, who, pc, locals>>

None == "none"

Each(x) == [c \in Chan |-> x]

(* The server has authorised the phone of the first invite, and no other.  *)
Init ==
    /\ \E t \in {admin, owner} :
          /\ granted = [p \in Phones |-> IF p = First THEN Full(t) ELSE NoRights]
          /\ ever    = [p \in Phones |-> IF p = First THEN {Full(t)} ELSE {}]
    /\ invites = {}
    /\ known = [p \in Phones |-> NoRights]
    /\ today = 0
    /\ who = Each(None) /\ pc = Each("idle") /\ job = Each(None)
    /\ asks = Each(None) /\ got = Each(NoRights) /\ req = Each(NoRights)
    /\ agent = Each(None)

-----------------------------------------------------------------------------
(* The decisions.                                                          *)

Weekday(d) == d % 7

(* Day d is refused when valid_from is before it, and when valid_until is  *)
(* after it.                                                               *)
InWindow(r, d) == r.from >= d /\ r.until <= d

(* Variant of canUseLock: a one-day user comes in from that day on.        *)
SinceTheDay(r, d) ==
    \/ r.type \in {admin, owner}
    \/ r.type = tenant /\ InWindow(r, d)
    \/ r.type = periodic_user /\ InWindow(r, d) /\ Weekday(d) \in r.days
    \/ r.type = one_time_user /\ r.day <= d

canUseLock(r, d) ==
    \/ r.type \in {admin, owner}
    \/ r.type = tenant /\ InWindow(r, d)
    \/ r.type = periodic_user /\ InWindow(r, d) /\ Weekday(d) \in r.days
    \/ r.type = one_time_user /\ r.day = d

(* Variant of canCreateInvite: the order of the types is not looked at.    *)
AnyType(r, q) ==
    \/ r.type \in {admin, owner}
    \/ r.type = tenant /\ {q.from, q.until, q.day} \subseteq r.from .. r.until

(* All three of the dates must be in the window of a tenant, also those    *)
(* the invite does not have.                                               *)
canCreateInvite(r, q) ==
    /\ r.type <= q.type
    /\ \/ r.type \in {admin, owner}
       \/ r.type = tenant /\ {q.from, q.until, q.day} \subseteq r.from .. r.until

(* Variant of OnWire: a type of 0 is taken for no type.                    *)
ZeroIsUnset(q) == IF q.type = admin THEN [q EXCEPT !.type = -1] ELSE q

(* create_invite sends valid_until only along with a valid_from.           *)
OnWire(q) == IF q.from = -1 THEN [q EXCEPT !.until = -1] ELSE q

-----------------------------------------------------------------------------
(* The server and the calendar.                                            *)

(* A phone redeems an invite.                                              *)
Redeem(i, p) ==
    /\ granted' = [granted EXCEPT ![p] = i.rights]
    /\ ever' = [ever EXCEPT ![p] = @ \cup {i.rights}]
    /\ UNCHANGED <<invites, known, today, who, pc, locals>>

Withdraw(p) ==
    /\ granted' = [granted EXCEPT ![p] = NoRights]
    /\ UNCHANGED <<ever, invites, known, today, who, pc, locals>>

NextDay ==
    /\ today < MaxDay
    /\ today' = today + 1
    /\ UNCHANGED <<server, known, who, pc, locals>>

-----------------------------------------------------------------------------
Goto(c, l) == pc' = [pc EXCEPT ![c] = l]

(* verifyTimestampsAndNonce, in a step with what comes next: a command it  *)
(* refuses is answered NAK.  (NonceCache says which.)                      *)
Verified(c, l) == Goto(c, l) \/ Goto(c, "nak")

(* What get_authorization finds for the record of a channel.  None is      *)
(* found unless the record is AUTHORIZED, and any read of flash may fail.  *)
Blob(c) == IF who[c] = None THEN NoRights ELSE known[who[c]]

Forget ==
    /\ who' = Each(None) /\ pc' = Each("idle") /\ job' = Each(None)
    /\ asks' = Each(None) /\ got' = Each(NoRights) /\ req' = Each(NoRights)
    /\ agent' = Each(None)

(* A reset, or sleep: flash stays, and so do server and calendar.          *)
Restart == Forget /\ UNCHANGED <<server, known, today>>

(* SAC <phone> <code>: get_authorization looks in flash first.             *)
SAC(c, p) ==
    /\ pc[c] = "idle"
    /\ job'  = [job EXCEPT ![c] = "SAC"]
    /\ asks' = [asks EXCEPT ![c] = p]
    /\ \/ known[p] # NoRights /\ Verified(c, "verify")
       \/ (known[p] = NoRights \/ NvsFails) /\ Verified(c, "fetch")
    /\ UNCHANGED <<server, known, today, who, got, req, agent>>

(* Variant of Fetch: what the server said need not be stored to be used.   *)
FetchAndGo(c) ==
    /\ pc[c] = "fetch"
    /\ granted[asks[c]] # NoRights
    /\ got' = [got EXCEPT ![c] = granted[asks[c]]]
    /\ Goto(c, "verify")
    /\ UNCHANGED <<server, known, today, who, job, asks, req, agent>>

(* get_authorization_db: the server is asked, and may not answer.          *)
Fetch(c) ==
    /\ pc[c] = "fetch"
    /\ \/ /\ granted[asks[c]] # NoRights
          /\ got' = [got EXCEPT ![c] = granted[asks[c]]]
          /\ Goto(c, "save")
       \/ /\ Goto(c, "nak")
          /\ UNCHANGED got
    /\ UNCHANGED <<server, known, today, who, job, asks, req, agent>>

(* Variant of Save: the blob goes under the phone the record is for.       *)
SaveForRecord(c) ==
    /\ pc[c] = "save"
    /\ LET p == IF who[c] = None THEN asks[c] ELSE who[c]
       IN  known' = [known EXCEPT ![p] = got[c]]
    /\ Goto(c, "verify")
    /\ UNCHANGED <<server, today, who, locals>>

(* set_authorization, under the phone_id of the server's answer, which is  *)
(* the one it was asked about.  If it reports an error so does the whole   *)
(* look-up, though the blob may have been written.                         *)
Save(c) ==
    /\ pc[c] = "save"
    /\ \/ /\ known' = [known EXCEPT ![asks[c]] = got[c]]
          /\ Goto(c, "verify")
       \/ /\ NvsFails
          /\ known' \in {known, [known EXCEPT ![asks[c]] = got[c]]}
          /\ Goto(c, "nak")
    /\ UNCHANGED <<server, today, who, locals>>

(* The HMAC of the seed under the key of the authorisation is the code.    *)
Verify(c) ==
    /\ pc[c] = "verify"
    /\ \/ who' = [who EXCEPT ![c] = asks[c]] /\ Goto(c, "ack")
       \/ Goto(c, "nak") /\ UNCHANGED who
    /\ UNCHANGED <<server, known, today, locals>>

(* RUD and RLD.                                                            *)
Use(c) ==
    /\ pc[c] = "idle"
    /\ job' = [job EXCEPT ![c] = "use"]
    /\ Verified(c, "check")
    /\ UNCHANGED <<server, known, today, who, asks, got, req, agent>>

(* RNI: rights of the client's choice.                                     *)
RNI(c, q) ==
    /\ pc[c] = "idle"
    /\ job' = [job EXCEPT ![c] = "invite"]
    /\ req' = [req EXCEPT ![c] = q]
    /\ Verified(c, "check")
    /\ UNCHANGED <<server, known, today, who, asks, got, agent>>

(* RUI: the rights of the client itself.  When they cannot be read the     *)
(* answer is NULL; the weekdays are put together in memory that was not    *)
(* cleared, which may end the program too.                                 *)
RUI(c) ==
    /\ pc[c] = "idle"
    /\ \/ /\ Blob(c) # NoRights
          /\ job' = [job EXCEPT ![c] = "invite"]
          /\ req' = [req EXCEPT ![c] = Blob(c)]
          /\ Verified(c, "check")
          /\ UNCHANGED <<server, known, today, who, asks, got, agent>>
       \/ /\ Blob(c) = NoRights \/ NvsFails \/ Blob(c).type = periodic_user
          /\ Restart

(* canUseLock, for all of them.                                            *)
Check(c) ==
    /\ pc[c] = "check"
    /\ \/ /\ canUseLock(Blob(c), today)
          /\ Goto(c, IF job[c] = "use" THEN "act" ELSE "grant")
       \/ /\ NvsFails \/ ~ canUseLock(Blob(c), today)
          /\ Goto(c, "nak")
    /\ UNCHANGED <<server, known, today, who, locals>>

Act(c) ==
    /\ pc[c] = "act"
    /\ Goto(c, "ack")
    /\ UNCHANGED <<server, known, today, who, locals>>

(* canCreateInvite reads state, phone and blob again.                      *)
Grant(c) ==
    /\ pc[c] = "grant"
    /\ \/ /\ canCreateInvite(Blob(c), req[c])
          /\ agent' = [agent EXCEPT ![c] = who[c]]
          /\ Goto(c, "post")
       \/ /\ NvsFails \/ ~ canCreateInvite(Blob(c), req[c])
          /\ Goto(c, "nak")
          /\ UNCHANGED agent
    /\ UNCHANGED <<server, known, today, who, job, asks, got, req>>

(* create_invite.  A failure, also one after the server has registered the *)
(* invite, gives NULL, whose length is taken.                              *)
Post(c) ==
    /\ pc[c] = "post"
    /\ Cardinality(invites) < MaxInvites
    /\ LET i == [by |-> agent[c], rights |-> OnWire(req[c])]
       IN  \/ /\ invites' = invites \cup {i}
              /\ Goto(c, "ack")
              /\ UNCHANGED <<granted, ever, known, today, who, locals>>
           \/ /\ invites' \in {invites, invites \cup {i}}
              /\ Forget
              /\ UNCHANGED <<granted, ever, known, today>>

(* What is left of the records.  All commands but SAC reset the Bluetooth  *)
(* one; NAK ends a TCP connection.                                         *)
Remaining(c) ==
    [d \in Chan |-> IF \/ d = "ble" /\ job[c] # "SAC"
                       \/ d = "tcp" /\ c = "tcp" /\ pc[c] = "nak"
                    THEN None ELSE who[d]]

Reply(c) ==
    /\ pc[c] \in {"ack", "nak"}
    /\ who' = Remaining(c)
    /\ pc'  = [pc EXCEPT ![c] = "idle"]
    /\ job' = [job EXCEPT ![c] = None]
    /\ asks' = [asks EXCEPT ![c] = None]
    /\ got' = [got EXCEPT ![c] = NoRights]
    /\ req' = [req EXCEPT ![c] = NoRights]
    /\ agent' = [agent EXCEPT ![c] = None]
    /\ UNCHANGED <<server, known, today>>

(* The client goes, or another takes its place.                            *)
Leave(c) ==
    /\ pc[c] = "idle"
    /\ who' = [who EXCEPT ![c] = None]
    /\ UNCHANGED <<server, known, today, pc, locals>>

Client(c) ==
    \/ \E p \in Phones : SAC(c, p)
    \/ Use(c) \/ RUI(c) \/ Leave(c)
    \/ \E q \in Requests : RNI(c, q)

Handler(c) ==
    \/ Fetch(c) \/ Save(c) \/ Verify(c) \/ Check(c) \/ Act(c) \/ Grant(c)
    \/ Post(c) \/ Reply(c)

Server ==
    \/ \E i \in invites, p \in Phones : Redeem(i, p)
    \/ \E p \in Phones : Withdraw(p)

Next == \/ \E c \in Chan : Client(c) \/ Handler(c)
        \/ Server \/ NextDay \/ Restart

Spec == Init /\ [][Next]_vars

-----------------------------------------------------------------------------
Steps == {"idle", "fetch", "save", "verify", "check", "act", "grant", "post",
          "ack", "nak"}

SomeRights == Rights \cup {NoRights}
SomePhone  == Phones \cup {None}

TypeOK ==
    /\ granted \in [Phones -> SomeRights]
    /\ ever \in [Phones -> SUBSET Rights]
    /\ invites \subseteq [by : Phones, rights : Rights]
    /\ known \in [Phones -> SomeRights]
    /\ today \in 0 .. MaxDay
    /\ who \in [Chan -> SomePhone]
    /\ pc \in [Chan -> Steps]
    /\ job \in [Chan -> {None, "SAC", "use", "invite"}]
    /\ asks \in [Chan -> SomePhone]
    /\ got \in [Chan -> SomeRights]
    /\ req \in [Chan -> SomeRights]
    /\ agent \in [Chan -> SomePhone]

(* What flash holds for a phone the server once said of that phone:        *)
(* neither a failed write nor the other channel's look-up mixes them up.   *)
CachedWasGranted == \A p \in Phones : known[p] # NoRights => known[p] \in ever[p]

(* A client is only AUTHORIZED as a phone whose authorisation is in flash, *)
(* so that the decisions about its commands find one, whatever the server  *)
(* has forgotten since.                                                    *)
SessionsAreCached == \A c \in Chan : who[c] # None => known[who[c]] # NoRights

(* The windows clients ask for begin at a date, which is not negative.     *)
Dated == \A q \in Requests : q.type = tenant => q.from >= 0

(* Rights do not grow along a chain of invites: every invite registered is *)
(* by a phone that the server had made admin or owner, and is for a type   *)
(* no higher than that, though the two decisions and RUI's copy of the     *)
(* rights are three reads of flash with the other channel in between.      *)
InvitesShrink ==
    \A i \in invites : \E r \in ever[i.by] :
        r.type \in {admin, owner} /\ r.type <= i.rights.type

(* A phone that only ever had one-day rights operates the lock on one of   *)
(* its days, and one with no rights never does.                            *)
EntersOnItsDay(c) ==
    /\ who[c] # None /\ ever[who[c]] # {}
    /\ (\A r \in ever[who[c]] : r.type = one_time_user)
           => \E r \in ever[who[c]] : r.day = today

OnTheirDay ==
    [][ \A c \in Chan : (pc[c] = "check" /\ pc'[c] = "act") => EntersOnItsDay(c) ]_vars

(* A tenant is let in from valid_from_ts to valid_until_ts: on a day       *)
(* between the two it is not told it has no permission.                    *)
TenantsGetIn ==
    [][ \A c \in Chan : (pc[c] = "check" /\ pc'[c] = "nak") =>
            LET r == Blob(c)
            IN  ~ (r.type = tenant /\ r.from <= today /\ r.until >= today) ]_vars
=============================================================================
