------------------------------ MODULE NonceList ------------------------------
(***************************************************************************)
(* The list of used nonces of utils/nonce.c as it lies in memory: structs  *)
(* on the heap, linked by next, walked one entry at a time, each freed     *)
(* where the code frees it.  One task runs a call to its end, so the walk  *)
(* of one call never meets that of another; a restart may come between any *)
(* two statements.  NonceCache says what a whole call comes to.            *)
(***************************************************************************)
EXTENDS Integers, Sequences, FiniteSets

CONSTANTS
    Messages, Margin, MaxInt, LongMax, MaxTime, MaxAccept,  \* of NonceCache
    Cells,      \* the places malloc can give a nonce_t
    Null


VARIABLES
    now,      \* getNowTimestamp()
    heap,     \* the allocated structs: a function from their places
    head,     \* the first entry, or Null
    pc,       \* the call in progress: "idle", "check" or "add"
    msg,      \* the message it is for
    temp,     \* the entry its walk is at
    valid,    \* what checkNonce will return
    chain,    \* history: the places of the entries, from head on
    list,     \* history: the entries from head when the last call returned
    times,    \* history: how often each message was accepted since boot
    refused,  \* history: the messages refused for their nonce since boot
    ordered   \* history: all acceptances since boot were in order, unwrapped

walk == <<pc, msg, temp, valid>>
vars == <<now, heap, head, walk, chain, list, times, refused, ordered>>

Cache == INSTANCE NonceCache

ASSUME ParametersAssumption ==
    Cache!MessagesAssumption /\ Cache!NumbersAssumption

ASSUME CellsAssumption == Null \notin Cells

-----------------------------------------------------------------------------
nonce_t == [nonce : Int, expires : Int, next : Cells \cup {Null}]

(* The entries at the places of c, as NonceCache has them.                 *)
EntryAt(h, d) == [nonce |-> h[d].nonce, expires |-> h[d].expires]

Entries(h, c) == [i \in DOMAIN c |-> EntryAt(h, c[i])]

Places(c) == {c[i] : i \in DOMAIN c}

(* Where on the chain the walk is.                                         *)
PlaceOf(c, t) == CHOOSE i \in DOMAIN c : c[i] = t

Position == PlaceOf(chain, temp)

Behind == SubSeq(chain, Position + 1, Len(chain))

Freed(h, c) == [d \in DOMAIN h \ {c} |-> h[d]]

(* malloc: any place would do, so one is enough; without one it is NULL,   *)
(* which addNonceSorted writes to: the device restarts.                    *)
Fresh == CHOOSE c \in Cells : c \notin DOMAIN heap

IsLast(c) == heap[c].next = Null

-----------------------------------------------------------------------------
Init ==
    /\ now = 0
    /\ heap = <<>>
    /\ head = Null
    /\ pc = "idle" /\ msg = Null /\ temp = Null /\ valid = TRUE
    /\ chain = <<>>
    /\ list = <<>>
    /\ times = [m \in Messages |-> 0]
    /\ refused = {}
    /\ ordered = TRUE

(* verifyTimestampsAndNonce inside the window, and checkNonce up to its    *)
(* loop.  Outside the window && calls nothing.                             *)
Call(m) ==
    /\ pc = "idle"
    /\ times[m] < MaxAccept
    /\ Cache!InWindow(m, now)
    /\ pc' = "check" /\ msg' = m /\ temp' = head
    /\ valid' = (head = Null \/ heap[head].nonce # Cache!Nonce(m))
    /\ UNCHANGED <<now, heap, head, chain, list, times, refused, ordered>>

Looping == pc = "check" /\ temp # Null /\ ~ IsLast(temp)

(* valid once the entry at temp was compared.                              *)
StillValid == valid /\ heap[temp].nonce # Cache!Nonce(msg)

(* Variant of Drop: the entry passed over is not freed.                    *)
DropLeaks ==
    /\ Looping
    /\ heap[temp].expires <= now
    /\ head' = heap[temp].next
    /\ temp' = heap[temp].next
    /\ valid' = StillValid
    /\ chain' = Behind
    /\ UNCHANGED <<now, heap, pc, msg, list, times, refused, ordered>>

(* Variant of Drop: expired entries are only compared.                     *)
DropNothing ==
    /\ Looping
    /\ heap[temp].expires <= now
    /\ temp' = heap[temp].next
    /\ valid' = StillValid
    /\ UNCHANGED <<now, heap, head, pc, msg, chain, list, times, refused, ordered>>

(* An expired entry: its successor becomes the head, and what was the head *)
(* is freed, be it this entry or not.                                      *)
Drop ==
    /\ Looping
    /\ heap[temp].expires <= now
    /\ head' = heap[temp].next
    /\ temp' = heap[temp].next
    /\ heap' = Freed(heap, head)
    /\ valid' = StillValid
    /\ chain' = Behind
    /\ UNCHANGED <<now, pc, msg, list, times, refused, ordered>>

Skip ==
    /\ Looping
    /\ heap[temp].expires > now
    /\ StillValid
    /\ temp' = heap[temp].next
    /\ UNCHANGED <<now, heap, head, pc, msg, valid, chain, list, times, refused, ordered>>

(* The loop breaks at an unexpired entry, or has come to the last one.     *)
Refuse ==
    /\ pc = "check"
    /\ IF Looping THEN heap[temp].expires > now /\ ~ StillValid ELSE ~ valid
    /\ pc' = "idle" /\ msg' = Null /\ temp' = Null /\ valid' = FALSE
    /\ list' = Entries(heap, chain)
    /\ refused' = refused \cup {msg}
    /\ UNCHANGED <<now, heap, head, chain, times, ordered>>

(* checkNonce returns true: addNonceSorted starts its walk at the head.    *)
Add ==
    /\ pc = "check"
    /\ ~ Looping /\ valid
    /\ pc' = "add" /\ temp' = head
    /\ UNCHANGED <<now, heap, head, msg, valid, chain, list, times, refused, ordered>>

(* The end of addNonceSorted and of the call, with head, heap, chain set.  *)
Accepted ==
    /\ pc' = "idle" /\ msg' = Null /\ temp' = Null /\ valid' = TRUE
    /\ list' = Entries(heap', chain')
    /\ times' = [times EXCEPT ![msg] = @ + 1]
    /\ ordered' = (/\ ordered
                   /\ Cache!InOrder(msg)
                   /\ Cache!Expiry(msg) = msg.until + Margin)
    /\ UNCHANGED <<now, refused>>

NewNonce(next) == [nonce |-> Cache!Nonce(msg),
                   expires |-> Cache!Expiry(msg),
                   next |-> next]

With(h, new) == [c \in DOMAIN h \cup {Fresh} |-> IF c = Fresh THEN new ELSE h[c]]

First ==
    /\ pc = "add" /\ temp = Null
    /\ DOMAIN heap # Cells
    /\ heap' = With(heap, NewNonce(Null))
    /\ head' = Fresh
    /\ chain' = <<Fresh>>
    /\ Accepted

Walk ==
    /\ pc = "add" /\ temp # Null
    /\ DOMAIN heap # Cells
    /\ heap[temp].expires <= Cache!Expiry(msg)
    /\ ~ IsLast(temp)
    /\ temp' = heap[temp].next
    /\ UNCHANGED <<now, heap, head, pc, msg, valid, chain, list, times, refused, ordered>>

(* Variant of Link: the new entry becomes the last.                        *)
LinkLast ==
    /\ pc = "add" /\ temp # Null
    /\ DOMAIN heap # Cells
    /\ \/ IsLast(temp)
       \/ heap[temp].expires > Cache!Expiry(msg)
    /\ heap' = With([heap EXCEPT ![temp].next = Fresh], NewNonce(Null))
    /\ chain' = SubSeq(chain, 1, Position) \o <<Fresh>>
    /\ UNCHANGED head
    /\ Accepted

(* The new entry goes after the last entry, or after the one that expires  *)
(* later and stopped the walk.                                             *)
Link ==
    /\ pc = "add" /\ temp # Null
    /\ DOMAIN heap # Cells
    /\ \/ IsLast(temp)
       \/ heap[temp].expires > Cache!Expiry(msg)
    /\ heap' = With([heap EXCEPT ![temp].next = Fresh], NewNonce(heap[temp].next))
    /\ chain' = Cache!PutAfter(chain, Position, Fresh)
    /\ UNCHANGED head
    /\ Accepted

(* The clock; a call takes no time, as in NonceCache.                      *)
Tick ==
    /\ pc = "idle"
    /\ now < MaxTime
    /\ now' = now + 1
    /\ UNCHANGED <<heap, head, walk, chain, list, times, refused, ordered>>

(* A reset, a sleep, or a malloc that failed, anywhere in a call.          *)
Restart ==
    /\ heap' = <<>>
    /\ head' = Null
    /\ pc' = "idle" /\ msg' = Null /\ temp' = Null /\ valid' = TRUE
    /\ chain' = <<>>
    /\ list' = <<>>
    /\ times' = [m \in Messages |-> 0]
    /\ refused' = {}
    /\ ordered' = TRUE
    /\ UNCHANGED now

Next == \/ \E m \in Messages : Call(m)
        \/ Drop \/ Skip \/ Refuse
        \/ Add \/ First \/ Walk \/ Link
        \/ Tick
        \/ Restart

Spec == Init /\ [][Next]_vars

-----------------------------------------------------------------------------
(* The pointers do what NonceCache promises: each call, walked statement   *)
(* by statement, leaves the entries that one step of NonceCache leaves and *)
(* decides as it does.                                                     *)
Implements == Cache!Spec

(* The pointers from head on make one chain that ends, no struct twice in  *)
(* it and none of it freed.                                                *)
Linked ==
    /\ head = IF chain = <<>> THEN Null ELSE chain[1]
    /\ Places(chain) \subseteq DOMAIN heap
    /\ \A i \in DOMAIN chain :
          heap[chain[i]].next = IF i = Len(chain) THEN Null ELSE chain[i + 1]
    /\ \A i, j \in DOMAIN chain : chain[i] = chain[j] => i = j

(* No pointer of the list, or of a call in progress, leads to a struct     *)
(* that was freed; and while commands were accepted in order nothing stays *)
(* allocated that the list has lost.  (Out of order it does: the purge     *)
(* frees the head, not the expired entry further down that it passes.)     *)
HeapIsList ==
    /\ Linked
    /\ temp \in Places(chain) \cup {Null}
    /\ ordered => DOMAIN heap = Places(chain)

(* At most one older entry is expired when a command has just been         *)
(* accepted: the walks leave no dead entries but the last.                 *)
FewDead == Cache!FewDead
=============================================================================
