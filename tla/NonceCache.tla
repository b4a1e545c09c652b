----------------------------- MODULE NonceCache -----------------------------
(***************************************************************************)
(* The list of used nonces of utils/nonce.c and the one function that      *)
(* consults it, verifyTimestampsAndNonce of tcp_server_handler.c.  Every   *)
(* command of the lock protocol ends with <ts1> <ts2> <nonce>: the window  *)
(* in which the command may be executed and a number that identifies it.   *)
(* A command is accepted when the clock is inside the window and           *)
(* checkNonce does not find the nonce; the nonce is then remembered until  *)
(* ts2 + 10.                                                               *)
(*                                                                         *)
(* One call of verifyTimestampsAndNonce is one step here; the walk over    *)
(* the pointers is summarised by which entries it compares and drops.      *)
(***************************************************************************)
EXTENDS Integers, Sequences, FiniteSets

CONSTANTS
    Messages,   \* the commands that may be delivered, any number of times
    Margin,     \* how long a nonce is kept after its window closes (10)
    MaxInt,     \* the largest value of int: ts2 + 10 wraps beyond it
    LongMax,    \* the largest value of long: strtol saturates there
    MaxTime,    \* bound of the model: the last value of the clock
    MaxAccept   \* bound of the model: acceptances of one message per boot

ASSUME MessagesAssumption ==
    \A m \in Messages : /\ m.nonce \in Nat
                        /\ m.from  \in Int
                        /\ m.until \in Int

ASSUME NumbersAssumption ==
    /\ Margin  \in Nat \ {0}
    /\ MaxInt  \in Nat
    /\ LongMax \in Nat
    /\ MaxTime \in Nat
    /\ MaxAccept \in Nat

VARIABLES
    now,      \* getNowTimestamp()
    list,     \* the linked list at head, first entry first
    times,    \* history: how often each message was accepted since boot
    refused   \* history: the messages refused for their nonce since boot

vars == <<now, list, times, refused>>

-----------------------------------------------------------------------------
(* strtol into a 32-bit long: what does not fit becomes LONG_MAX.          *)
Nonce(m) == IF m.nonce > LongMax THEN LongMax ELSE m.nonce

(* Variant of Expiry: a nonce is kept until its window closes.             *)
ExpiryNoMargin(m) == m.until

(* The int addition ts2 + 10 wraps past the largest int.                   *)
Expiry(m) == LET sum == m.until + Margin
             IN  IF sum > MaxInt THEN sum - 2 * (MaxInt + 1) ELSE sum

InWindow(m, t) == m.from <= t /\ m.until >= t

Entry == [nonce : Int, expires : Int]

EntryOf(m) == [nonce |-> Nonce(m), expires |-> Expiry(m)]

(* Variant of StopsAt: the comparison is turned round.                     *)
StopsAtEarlier(l, e, p) == \/ /\ p \in DOMAIN l
                              /\ l[p].expires < e
                              /\ \A i \in 1 .. p - 1 : l[i].expires >= e
                           \/ /\ p = Len(l)
                              /\ \A i \in DOMAIN l : l[i].expires >= e

(* The walk of addNonceSorted stops at the first entry that expires later, *)
(* or at the last one; the new entry goes AFTER the entry it stopped at.   *)
StopsAt(l, e, p) == \/ /\ p \in DOMAIN l
                       /\ l[p].expires > e
                       /\ \A i \in 1 .. p - 1 : l[i].expires <= e
                    \/ /\ p = Len(l)
                       /\ \A i \in DOMAIN l : l[i].expires <= e

PutAfter(l, p, x) == SubSeq(l, 1, p) \o <<x>> \o SubSeq(l, p + 1, Len(l))

addNonceSorted(l, x) ==
    PutAfter(l, CHOOSE q \in 0 .. Len(l) : StopsAt(l, x.expires, q), x)

(* Variant of Compared: only the head is compared.                         *)
ComparedHead(l) == {i \in DOMAIN l : i = 1}

(* checkNonce compares the head before its loop, and in the loop every     *)
(* entry that has a successor; the last of several is never compared.      *)
Compared(l) == {i \in DOMAIN l : i = 1 \/ i < Len(l)}

Valid(l, n) == \A i \in Compared(l) : l[i].nonce # n

(* The entries the loop visits: it breaks at the first unexpired entry     *)
(* reached with the nonce already found.                                   *)
Visited(l, n, t) ==
    {i \in 1 .. Len(l) - 1 :
        \A j \in 1 .. i - 1 : l[j].expires > t =>
                              \A k \in 1 .. j : l[k].nonce # n}

(* Each expired entry that is visited makes its successor the head, so     *)
(* every entry up to the last such one is dropped, expired or not.         *)
Expired(l, n, t) == {i \in Visited(l, n, t) : l[i].expires <= t}

Purged(l, n, t) ==
    LET first == IF Expired(l, n, t) = {} THEN 1
                 ELSE 1 + CHOOSE i \in Expired(l, n, t) :
                              \A j \in Expired(l, n, t) : j <= i
    IN  SubSeq(l, first, Len(l))

-----------------------------------------------------------------------------
Init ==
    /\ now = 0
    /\ list = <<>>
    /\ times = [m \in Messages |-> 0]
    /\ refused = {}

(* Variant of RefuseWindow: the nonce is checked, and stored, regardless.  *)
RefuseWindowStores(m) ==
    /\ ~ InWindow(m, now)
    /\ Len(list) < 3
    /\ list' = addNonceSorted(list, EntryOf(m))
    /\ UNCHANGED <<now, times, refused>>

(* verifyTimestampsAndNonce: && evaluates the nonce only in the window.    *)
RefuseWindow(m) ==
    /\ ~ InWindow(m, now)
    /\ UNCHANGED vars

RefuseNonce(m) ==
    /\ InWindow(m, now)
    /\ ~ Valid(list, Nonce(m))
    /\ list' = Purged(list, Nonce(m), now)
    /\ refused' = refused \cup {m}
    /\ UNCHANGED <<now, times>>

Accept(m) ==
    /\ times[m] < MaxAccept
    /\ InWindow(m, now)
    /\ Valid(list, Nonce(m))
    /\ list' = addNonceSorted(Purged(list, Nonce(m), now), EntryOf(m))
    /\ times' = [times EXCEPT ![m] = @ + 1]
    /\ UNCHANGED <<now, refused>>

verifyTimestampsAndNonce(m) == RefuseWindow(m) \/ RefuseNonce(m) \/ Accept(m)

(* Variant of Tick: the clock is set back to its value at the first boot.  *)
TickUnset ==
    /\ now < MaxTime
    /\ now' = -1
    /\ UNCHANGED <<list, times, refused>>

Tick ==
    /\ now < MaxTime
    /\ now' = now + 1
    /\ UNCHANGED <<list, times, refused>>

(* A reset or a deep sleep: head is in ordinary RAM, the clock in the RTC. *)
Restart ==
    /\ list' = <<>>
    /\ times' = [m \in Messages |-> 0]
    /\ refused' = {}
    /\ UNCHANGED now

Next == \/ \E m \in Messages : verifyTimestampsAndNonce(m)
        \/ Tick
        \/ Restart

Spec == Init /\ [][Next]_vars

(* Deliveries in order: a message accepted for the first time since boot   *)
(* closes no earlier than those accepted before it; a redelivery may come  *)
(* at any time.  It is what clients with one clock and one window length   *)
(* produce, and the only case in which the list is sorted.                 *)
InOrder(m) == \/ times[m] > 0
              \/ \A k \in Messages : times[k] > 0 => k.until <= m.until

NextInOrder == \/ \E m \in Messages : InOrder(m) /\ verifyTimestampsAndNonce(m)
               \/ Tick
               \/ Restart

SpecInOrder == Init /\ [][NextInOrder]_vars

-----------------------------------------------------------------------------
TypeOK ==
    /\ now \in 0 .. MaxTime
    /\ list \in Seq(Entry)
    /\ times \in [Messages -> Nat]
    /\ refused \subseteq Messages

(* A command is refused for its nonce only when a command with that nonce  *)
(* was executed since boot: purging and inserting never put in the list a  *)
(* nonce that was not accepted, and a refusal never marks one as used.     *)
RefusedIsRepeat ==
    \A m \in refused : \E k \in Messages : times[k] > 0 /\ Nonce(k) = Nonce(m)

(* Once a command was accepted the list is never empty again before the    *)
(* next boot: the purge cannot remove the last entry, even though it       *)
(* advances head past expired entries.                                     *)
NeverForgetsAll == (\E m \in Messages : times[m] > 0) => list # <<>>

(* The list does not grow with dead entries: when a command has just been  *)
(* accepted at most one older entry is expired (the old tail, which the    *)
(* loop never looks at), and besides it only the new entry itself can be,  *)
(* when ts2 + 10 wrapped.                                                  *)
Dead(l, t) == {i \in DOMAIN l : l[i].expires <= t}

FewDead ==
    [][ \A m \in Messages : times'[m] > times[m] =>
            Cardinality(Dead(list', now)) <= IF Expiry(m) > now THEN 1 ELSE 2 ]_vars

(* The list is ordered by expiry: what the name addNonceSorted promises.   *)
Sorted == \A i, j \in DOMAIN list : i < j => list[i].expires <= list[j].expires

(* While a command could still be executed its nonce is in the list: no    *)
(* purge drops a nonce whose window is open.                               *)
RemembersOpen ==
    \A m \in Messages : (times[m] > 0 /\ m.until >= now) =>
        \E i \in DOMAIN list : list[i] = EntryOf(m)

(* No command is executed a third time: the tail of the list is not        *)
(* compared, so a redelivery may be executed once, but that leaves a copy  *)
(* in a compared position for as long as the window is open.               *)
AtMostTwice == \A m \in Messages : times[m] <= 2

(* No command is executed twice between two boots.                         *)
AcceptedOnce == \A m \in Messages : times[m] <= 1
=============================================================================
