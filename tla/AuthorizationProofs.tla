------------------------- MODULE AuthorizationProofs -------------------------
(***************************************************************************)
(* Theorems about Authorization, for any phones, requests and bounds.      *)
(* IInv is the inductive invariant of the flash and of a look-up; JInv     *)
(* adds what follows for invites when windows are Dated.                   *)
(***************************************************************************)
EXTENDS Authorization, TLAPS

(* The server's answer of today is among those it ever gave.               *)
Truthful == \A p \in Phones : granted[p] # NoRights => granted[p] \in ever[p]

(* A look-up is about a phone.                                             *)
Asked == \A c \in Chan : pc[c] \in {"fetch", "save", "verify"} => asks[c] \in Phones

(* What is about to be stored was said of that phone.                      *)
Received == \A c \in Chan : pc[c] = "save" => got[c] # NoRights /\ got[c] \in ever[asks[c]]

(* A code is only compared once the authorisation is in flash.             *)
Found == \A c \in Chan : pc[c] = "verify" => known[asks[c]] # NoRights

Inviting(c) == \/ pc[c] \in {"grant", "post"}
               \/ pc[c] = "check" /\ job[c] = "invite"

(* An invite in progress asks for rights.                                  *)
Wanted == \A c \in Chan : Inviting(c) => req[c] \in Rights

Signed == \A c \in Chan : pc[c] = "post" => agent[c] \in Phones

(* Only RUD, RLD, RNI and RUI come to the decision.                        *)
Deciding == \A c \in Chan : pc[c] = "check" => job[c] \in {"use", "invite"}

IInv == /\ TypeOK
        /\ Truthful /\ Asked /\ Received /\ Found /\ Wanted /\ Signed /\ Deciding
        /\ CachedWasGranted /\ SessionsAreCached

USE InputAssumption

LEMMA RightsFacts ==
    /\ NoRights \notin Rights
    /\ Rights \subseteq SomeRights
    /\ NoRights \in SomeRights
    /\ NoRights.type = -1
    /\ \A t \in Nat : Full(t) \in Rights
    /\ \A q \in Rights : OnWire(q) \in Rights
  BY DEF Rights, SomeRights, NoRights, Full, OnWire, admin, owner

LEMMA BlobFacts ==
    ASSUME TypeOK, SessionsAreCached, CachedWasGranted, NEW c \in Chan
    PROVE  /\ Blob(c) \in SomeRights
           /\ Blob(c) # NoRights =>
                /\ who[c] \in Phones /\ who[c] # None
                /\ Blob(c) \in ever[who[c]]
                /\ Blob(c) \in Rights
  BY RightsFacts DEF TypeOK, Blob, SomePhone, SomeRights, CachedWasGranted

LEMMA UseNeedsRights == ASSUME NEW d PROVE ~ canUseLock(NoRights, d)
  BY RightsFacts DEF canUseLock, admin, owner, tenant, periodic_user, one_time_user

LEMMA InviteNeedsRights == ASSUME NEW q PROVE ~ canCreateInvite(NoRights, q)
  BY RightsFacts DEF canCreateInvite, admin, owner, tenant

-----------------------------------------------------------------------------
(* The inductive invariant, one step per action.                           *)

LEMMA InitHolds == Init => IInv
  <1> SUFFICES ASSUME Init PROVE IInv
    OBVIOUS
  <1>1. PICK t \in {admin, owner} :
            /\ granted = [p \in Phones |-> IF p = First THEN Full(t) ELSE NoRights]
            /\ ever    = [p \in Phones |-> IF p = First THEN {Full(t)} ELSE {}]
    BY DEF Init
  <1>2. Full(t) \in Rights
    BY RightsFacts DEF admin, owner
  <1>3. TypeOK
    BY <1>1, <1>2, RightsFacts DEF Init, TypeOK, Each, SomePhone, Steps, SomeRights
  <1>4. Truthful
    BY <1>1 DEF Truthful
  <1> QED
    BY <1>3, <1>4 DEF Init, IInv, Each, Asked, Received, Found, Wanted, Inviting, Signed,
       Deciding, CachedWasGranted, SessionsAreCached

LEMMA Step ==
    ASSUME IInv, Next PROVE IInv'
  <1> USE RightsFacts DEF IInv, TypeOK, Truthful, Asked, Received, Found, Wanted,
      Inviting, Signed, Deciding, CachedWasGranted, SessionsAreCached, Steps, SomePhone,
      SomeRights, Chan, server, locals
  <1>1. ASSUME NEW i \in invites, NEW p \in Phones, Redeem(i, p) PROVE IInv'
    BY <1>1 DEF Redeem
  <1>2. ASSUME NEW p \in Phones, Withdraw(p) PROVE IInv'
    BY <1>2 DEF Withdraw
  <1>3. CASE NextDay
    BY <1>3 DEF NextDay
  <1>4. CASE Restart
    BY <1>4 DEF Restart, Forget, Each
  <1>5. ASSUME NEW c \in Chan, NEW p \in Phones, SAC(c, p) PROVE IInv'
    BY <1>5 DEF SAC, Verified, Goto
  <1>6. ASSUME NEW c \in Chan, Use(c) PROVE IInv'
    BY <1>6 DEF Use, Verified, Goto
  <1>7. ASSUME NEW c \in Chan, RUI(c) PROVE IInv'
    BY <1>7, <1>4, BlobFacts DEF RUI, Verified, Goto
  <1>8. ASSUME NEW c \in Chan, Leave(c) PROVE IInv'
    BY <1>8 DEF Leave
  <1>9. ASSUME NEW c \in Chan, NEW q \in Requests, RNI(c, q) PROVE IInv'
    BY <1>9 DEF RNI, Verified, Goto
  <1>10. ASSUME NEW c \in Chan, Fetch(c) PROVE IInv'
    BY <1>10 DEF Fetch, Goto
  <1>11. ASSUME NEW c \in Chan, Save(c) PROVE IInv'
    \* What is stored was Received for the phone it is stored under.
    <2>1. got[c] # NoRights /\ got[c] \in ever[asks[c]] /\ asks[c] \in Phones
      BY <1>11 DEF Save
    <2>2. known' \in {known, [known EXCEPT ![asks[c]] = got[c]]}
      BY <1>11 DEF Save
    <2>3. CachedWasGranted' /\ SessionsAreCached' /\ Found'
      BY <1>11, <2>1, <2>2 DEF Save, Goto
    <2> QED
      BY <1>11, <2>1, <2>2, <2>3 DEF Save, Goto
  <1>12. ASSUME NEW c \in Chan, Verify(c) PROVE IInv'
    BY <1>12 DEF Verify, Goto
  <1>13. ASSUME NEW c \in Chan, Check(c) PROVE IInv'
    BY <1>13 DEF Check, Goto
  <1>14. ASSUME NEW c \in Chan, Act(c) PROVE IInv'
    BY <1>14 DEF Act, Goto
  <1>15. ASSUME NEW c \in Chan, Grant(c) PROVE IInv'
    <2>1. CASE canCreateInvite(Blob(c), req[c])
      \* The phone is there, or there would be no rights to find.
      <3>1. who[c] \in Phones
        BY <2>1, BlobFacts, InviteNeedsRights
      <3> QED
        BY <1>15, <3>1 DEF Grant, Goto
    <2>2. CASE ~ canCreateInvite(Blob(c), req[c]) \/ NvsFails
      BY <1>15, BlobFacts, InviteNeedsRights DEF Grant, Goto
    <2> QED
      BY <2>1, <2>2
  <1>16. ASSUME NEW c \in Chan, Post(c) PROVE IInv'
    BY <1>16 DEF Post, Forget, Each, Goto
  <1>17. ASSUME NEW c \in Chan, Reply(c) PROVE IInv'
    BY <1>17 DEF Reply, Remaining
  <1> QED
    BY <1>1, <1>2, <1>3, <1>4, <1>5, <1>6, <1>7, <1>8, <1>9, <1>10, <1>11, <1>12,
       <1>13, <1>14, <1>15, <1>16, <1>17 DEF Next, Client, Handler, Server

-----------------------------------------------------------------------------
(* Invites.                                                                *)

(* No request names both a day and a window, and windows begin at a date.  *)
NoBoth(r) == /\ r.from = -1 \/ r.day = -1
             /\ r.type = tenant => r.from >= 0

Entitles(p, q) == \E r \in ever[p] : r.type \in {admin, owner} /\ r.type <= q.type

JInv == /\ \A p \in Phones : \A r \in ever[p] : NoBoth(r)
        /\ \A i \in invites : NoBoth(i.rights)
        /\ \A c \in Chan : Inviting(c) => NoBoth(req[c])
        /\ \A c \in Chan : pc[c] = "post" => Entitles(agent[c], req[c])
        /\ InvitesShrink

(* A tenant's window leaves out one of the three dates, which is -1.       *)
LEMMA OnlyOwnersInvite ==
    ASSUME NEW r \in Rights, NEW q \in Rights, NoBoth(r), NoBoth(q),
           canCreateInvite(r, q)
    PROVE  r.type \in {admin, owner} /\ r.type <= q.type
  <1>1. CASE r.type = tenant
    <2>1. r.from >= 0
      BY <1>1 DEF NoBoth
    <2>2. q.from >= r.from /\ q.day >= r.from
      BY <1>1 DEF canCreateInvite, Rights, tenant, admin, owner
    <2> QED
      BY <2>1, <2>2 DEF NoBoth, Rights
  <1> QED
    BY <1>1 DEF canCreateInvite

LEMMA RequestsAreNoBoth == ASSUME Dated, NEW q \in Requests PROVE NoBoth(q)
  BY DEF Dated, Fits, NoBoth, tenant, periodic_user, one_time_user, Rights

LEMMA OnWireKeeps ==
    ASSUME NEW q \in Rights, NoBoth(q)
    PROVE  NoBoth(OnWire(q)) /\ OnWire(q).type = q.type
  BY DEF OnWire, NoBoth, Rights

LEMMA JInitHolds == ASSUME Dated, Init PROVE JInv
  <1>1. PICK t \in {admin, owner} :
            ever = [p \in Phones |-> IF p = First THEN {Full(t)} ELSE {}]
    BY DEF Init
  <1>2. NoBoth(Full(t))
    BY DEF NoBoth, Full, tenant, admin, owner
  <1>3. /\ invites = {}
        /\ \A c \in Chan : pc[c] = "idle"
    BY DEF Init, Each
  <1> QED
    BY <1>1, <1>2, <1>3 DEF JInv, Inviting, InvitesShrink

LEMMA JStep ==
    ASSUME Dated, IInv, JInv, Next PROVE JInv'
  <1> USE DEF JInv, Inviting, Entitles, InvitesShrink, server, locals
  <1>1. ASSUME NEW i \in invites, NEW p \in Phones, Redeem(i, p) PROVE JInv'
    \* History only grows, and by rights an invite was for.
    <2>1. \A x \in Phones : ever[x] \subseteq ever'[x]
      BY <1>1 DEF Redeem, IInv, TypeOK
    <2>2. \A x \in Phones : \A r \in ever'[x] : NoBoth(r)
      BY <1>1 DEF Redeem, IInv, TypeOK
    <2>3. \A x \in Phones, q \in Rights : Entitles(x, q) => Entitles(x, q)'
      BY <2>1
    <2>4. \A c \in Chan : pc[c] = "post" => Entitles(agent[c], req[c])'
      BY <1>1, <2>1 DEF Redeem, IInv, Signed
    <2>5. InvitesShrink'
      BY <1>1, <2>1 DEF Redeem, IInv, TypeOK
    <2> QED
      BY <1>1, <2>2, <2>4, <2>5 DEF Redeem
  <1>2. ASSUME NEW p \in Phones, Withdraw(p) PROVE JInv'
    BY <1>2 DEF Withdraw
  <1>3. CASE NextDay
    BY <1>3 DEF NextDay
  <1>4. CASE Restart
    BY <1>4 DEF Restart, Forget, Each
  <1> USE DEF IInv, TypeOK, Chan
  <1>5. ASSUME NEW c \in Chan, NEW p \in Phones, SAC(c, p) PROVE JInv'
    BY <1>5 DEF SAC, Verified, Goto
  <1>6. ASSUME NEW c \in Chan, Use(c) PROVE JInv'
    BY <1>6 DEF Use, Verified, Goto
  <1>7. ASSUME NEW c \in Chan, RUI(c) PROVE JInv'
    <2>1. Blob(c) # NoRights => NoBoth(Blob(c))
      BY BlobFacts
    <2> QED
      BY <1>7, <1>4, <2>1 DEF RUI, Verified, Goto
  <1>8. ASSUME NEW c \in Chan, Leave(c) PROVE JInv'
    BY <1>8 DEF Leave
  <1>9. ASSUME NEW c \in Chan, NEW q \in Requests, RNI(c, q) PROVE JInv'
    BY <1>9, RequestsAreNoBoth DEF RNI, Verified, Goto
  <1>10. ASSUME NEW c \in Chan, Fetch(c) PROVE JInv'
    BY <1>10 DEF Fetch, Goto
  <1>11. ASSUME NEW c \in Chan, Save(c) PROVE JInv'
    BY <1>11 DEF Save, Goto
  <1>12. ASSUME NEW c \in Chan, Verify(c) PROVE JInv'
    BY <1>12 DEF Verify, Goto
  <1>13. ASSUME NEW c \in Chan, Check(c) PROVE JInv'
    BY <1>13 DEF Check, Goto, Deciding
  <1>14. ASSUME NEW c \in Chan, Act(c) PROVE JInv'
    BY <1>14 DEF Act, Goto
  <1>15. ASSUME NEW c \in Chan, Grant(c) PROVE JInv'
    <2>1. CASE canCreateInvite(Blob(c), req[c]) /\ pc'[c] = "post"
      <3>1. /\ Blob(c) \in ever[who[c]] /\ Blob(c) \in Rights /\ who[c] \in Phones
            /\ req[c] \in Rights
        BY <1>15, <2>1, BlobFacts, InviteNeedsRights DEF Grant, Wanted
      <3>2. Blob(c).type \in {admin, owner} /\ Blob(c).type <= req[c].type
        BY <1>15, <2>1, <3>1, OnlyOwnersInvite DEF Grant
      <3>3. agent' = [agent EXCEPT ![c] = who[c]] /\ Entitles(who[c], req[c])
        BY <1>15, <2>1, <3>1, <3>2 DEF Grant, Goto
      <3> QED
        BY <1>15, <2>1, <3>3 DEF Grant, Goto
    <2>2. CASE ~ (canCreateInvite(Blob(c), req[c]) /\ pc'[c] = "post")
      BY <1>15, <2>2 DEF Grant, Goto
    <2> QED
      BY <2>1, <2>2
  <1>16. ASSUME NEW c \in Chan, Post(c) PROVE JInv'
    <2> DEFINE i == [by |-> agent[c], rights |-> OnWire(req[c])]
    <2>1. NoBoth(i.rights) /\ i.rights.type = req[c].type /\ i.by = agent[c]
      BY <1>16, OnWireKeeps DEF Post, Wanted
    <2>2. Entitles(i.by, i.rights)
      BY <1>16, <2>1 DEF Post
    <2>3. /\ invites' \subseteq invites \cup {i} /\ ever' = ever
          /\ \/ pc' = [pc EXCEPT ![c] = "ack"] /\ UNCHANGED locals
             \/ pc' = [d \in Chan |-> "idle"]
      BY <1>16 DEF Post, Goto, Forget, Each
    <2> HIDE DEF i
    <2> QED
      BY <1>16, <2>1, <2>2, <2>3 DEF Post
  <1>17. ASSUME NEW c \in Chan, Reply(c) PROVE JInv'
    BY <1>17 DEF Reply
  <1> QED
    BY <1>1, <1>2, <1>3, <1>4, <1>5, <1>6, <1>7, <1>8, <1>9, <1>10, <1>11, <1>12,
       <1>13, <1>14, <1>15, <1>16, <1>17 DEF Next, Client, Handler, Server

-----------------------------------------------------------------------------
(* Only the decision leads to the lock.                                    *)
LEMMA OnlyCheckEnters ==
    ASSUME IInv, Next, NEW d \in Chan, pc[d] = "check", pc'[d] = "act"
    PROVE  Check(d)
  <1> USE DEF IInv, TypeOK, Goto, Verified, Forget, Each, Restart
  <1>1. CASE Server \/ NextDay \/ Restart
    BY <1>1 DEF Server, Redeem, Withdraw, NextDay
  <1>2. ASSUME NEW c \in Chan, Client(c) PROVE FALSE
    <2>1. pc[c] = "idle" /\ (pc' = Each("idle") \/ \E l : pc' = [pc EXCEPT ![c] = l])
      BY <1>2 DEF Client, SAC, Use, RUI, RNI, Leave
    <2>2. c # d
      BY <2>1
    <2> QED
      BY <1>2, <2>2 DEF Client, SAC, Use, RUI, RNI, Leave
  <1>3. ASSUME NEW c \in Chan, Handler(c), c # d PROVE FALSE
    BY <1>3 DEF Handler, Fetch, Save, Verify, Check, Act, Grant, Post, Reply
  <1>4. ASSUME Handler(d) PROVE Check(d)
    BY <1>4 DEF Handler, Fetch, Save, Verify, Act, Grant, Post, Reply
  <1> QED
    BY <1>1, <1>2, <1>3, <1>4 DEF Next

LEMMA EntersStep ==
    ASSUME IInv, Next, NEW c \in Chan, pc[c] = "check", pc'[c] = "act"
    PROVE  EntersOnItsDay(c)
  <1>1. Check(c)
    BY OnlyCheckEnters
  <1>2. canUseLock(Blob(c), today)
    BY <1>1 DEF Check, Goto, IInv, TypeOK
  <1>3. who[c] # None /\ Blob(c) \in ever[who[c]]
    BY <1>2, UseNeedsRights, BlobFacts DEF IInv
  <1>4. Blob(c).type = one_time_user => Blob(c).day = today
    BY <1>2 DEF canUseLock, admin, owner, tenant, periodic_user, one_time_user
  <1> QED
    BY <1>3, <1>4 DEF EntersOnItsDay

-----------------------------------------------------------------------------
LEMMA Stutter == ASSUME IInv, UNCHANGED vars PROVE IInv'
  BY DEF vars, server, locals, IInv, TypeOK, Truthful, Asked, Received, Found, Wanted,
     Inviting, Signed, Deciding, CachedWasGranted, SessionsAreCached

LEMMA JStutter == ASSUME JInv, UNCHANGED vars PROVE JInv'
  BY DEF vars, server, locals, JInv, Inviting, Entitles, InvitesShrink

(* The inductive invariant holds in every state.                           *)
THEOREM Invariant == Spec => []IInv
  <1>1. IInv /\ [Next]_vars => IInv'
    BY Step, Stutter
  <1> QED
    BY InitHolds, <1>1, PTL DEF Spec

(* Every variable keeps its type, whatever is asked for and answered.      *)
THEOREM TypeCorrect == Spec => []TypeOK
  <1>1. IInv => TypeOK
    BY DEF IInv
  <1> QED
    BY Invariant, <1>1, PTL

(* set_authorization never stores for a phone what the server did not say  *)
(* of it.                                                                  *)
THEOREM FlashIsTrue == Spec => []CachedWasGranted
  <1>1. IInv => CachedWasGranted
    BY DEF IInv
  <1> QED
    BY Invariant, <1>1, PTL

(* A record that SAC has made AUTHORIZED has its blob in flash.            *)
THEOREM SessionsHaveRights == Spec => []SessionsAreCached
  <1>1. IInv => SessionsAreCached
    BY DEF IInv
  <1> QED
    BY Invariant, <1>1, PTL

(* canUseLock holds one-day users to their days.                           *)
THEOREM OneDayUsers == Spec => OnTheirDay
  <1>1. IInv /\ [Next]_vars =>
            [\A c \in Chan : (pc[c] = "check" /\ pc'[c] = "act") => EntersOnItsDay(c)]_vars
    BY EntersStep
  <1> QED
    BY Invariant, <1>1, PTL DEF Spec, OnTheirDay

(* canCreateInvite lets only an admin or owner invite, for no more than    *)
(* they have, as long as windows begin at a date.                          *)
THEOREM ShrinkingInvites == ASSUME Dated PROVE Spec => []InvitesShrink
  <1>1. IInv /\ JInv /\ [Next]_vars => JInv'
    BY JStep, JStutter
  <1>2. Init => JInv
    BY JInitHolds
  <1>3. JInv => InvitesShrink
    BY DEF JInv
  <1> QED
    BY Invariant, <1>1, <1>2, <1>3, PTL DEF Spec

=============================================================================
