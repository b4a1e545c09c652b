--------------------------- MODULE NonceListProofs ---------------------------
(***************************************************************************)
(* Proofs about NonceList: the list stays linked through every walk, and   *)
(* what the walks do to it is what NonceCache promises.                    *)
(***************************************************************************)
EXTENDS NonceList, SequenceTheorems, TLAPS

CP == INSTANCE NonceCacheProofs

(* The assumptions under which the lemmas of NonceCacheProofs are stated.  *)
LEMMA Parameters == CP!MessagesAssumption /\ CP!NumbersAssumption
BY ParametersAssumption
  DEF Cache!MessagesAssumption, Cache!NumbersAssumption
-----------------------------------------------------------------------------
(* The inductive invariant.  How many entries the call has dropped, and    *)
(* which entry of the list it is at.                                       *)
Dropped == Len(list) - Len(chain)

Reached == Dropped + Position

MemoryOK ==
    /\ DOMAIN heap \subseteq Cells
    /\ \A c \in DOMAIN heap : heap[c] \in nonce_t
    /\ pc \in {"idle", "check", "add"}
    /\ valid \in BOOLEAN
    /\ ordered \in BOOLEAN
    /\ chain \in Seq(Cells)

(* What is linked is what is left of the list; the last is always left.    *)
Remembered ==
    /\ Len(chain) <= Len(list)
    /\ list # <<>> => chain # <<>>
    /\ \A i \in DOMAIN chain : EntryAt(heap, chain[i]) = list[Dropped + i]

Idle == pc = "idle" => Len(chain) = Len(list) /\ temp = Null

InCall ==
    pc # "idle" =>
        /\ msg \in Messages
        /\ times[msg] < MaxAccept
        /\ Cache!InWindow(msg, now)
        /\ chain = <<>> => temp = Null
        /\ chain # <<>> => temp \in Places(chain)

(* The head, and the entries before k, do not have the nonce.              *)
Clean(l, k, n) == \A i \in DOMAIN l : i = 1 \/ i < k => l[i].nonce # n

(* The walk of checkNonce has visited all it passed, and dropped up to the *)
(* last expired entry among them.                                          *)
Checked ==
    pc = "check" =>
        /\ chain = <<>> => valid
        /\ chain # <<>> =>
            /\ valid <=> Clean(list, Reached, Cache!Nonce(msg))
            /\ \A j \in 1 .. Reached - 1 :
                  list[j].expires > now =>
                      \A i \in 1 .. j : list[i].nonce # Cache!Nonce(msg)
            /\ Dropped > 0 => list[Dropped].expires <= now
            /\ \A i \in Dropped + 1 .. Reached - 1 : list[i].expires > now

(* The walk of addNonceSorted starts from what the purge of NonceCache     *)
(* leaves, and passes what expires no later than the new entry.            *)
Adding ==
    pc = "add" =>
        /\ Cache!Valid(list, Cache!Nonce(msg))
        /\ Entries(heap, chain) = Cache!Purged(list, Cache!Nonce(msg), now)
        /\ chain # <<>> =>
              \A i \in 1 .. Position - 1 : heap[chain[i]].expires <= Cache!Expiry(msg)

(* While acceptances were in order the list is sorted and nothing leaks.   *)
InOrderInv == ordered => CP!SInv /\ DOMAIN heap = Places(chain)

IInv ==
    /\ CP!GInv
    /\ MemoryOK
    /\ Linked
    /\ Remembered
    /\ Idle
    /\ InCall
    /\ Checked
    /\ Adding
    /\ InOrderInv
-----------------------------------------------------------------------------
(* The operators of NonceCache are one and the same in both instances.     *)
LEMMA Same ==
    /\ \A m : Cache!Nonce(m) = CP!Nonce(m) /\ Cache!Expiry(m) = CP!Expiry(m)
    /\ \A m : Cache!EntryOf(m) = CP!EntryOf(m)
    /\ \A m, t : Cache!InWindow(m, t) = CP!InWindow(m, t)
    /\ \A l, n : Cache!Valid(l, n) = CP!Valid(l, n)
    /\ \A l, n, t : Cache!Purged(l, n, t) = CP!Purged(l, n, t)
    /\ \A l, p, x : Cache!PutAfter(l, p, x) = CP!PutAfter(l, p, x)
    /\ \A l, x : Cache!addNonceSorted(l, x) = CP!addNonceSorted(l, x)
<1>1. \A m : Cache!Nonce(m) = CP!Nonce(m) /\ Cache!Expiry(m) = CP!Expiry(m)
  BY DEF Cache!Nonce, CP!Nonce, Cache!Expiry, CP!Expiry
<1>2. \A m : Cache!EntryOf(m) = CP!EntryOf(m)
  BY <1>1 DEF Cache!EntryOf, CP!EntryOf
<1>3. \A m, t : Cache!InWindow(m, t) = CP!InWindow(m, t)
  BY DEF Cache!InWindow, CP!InWindow
<1>4. \A l, n : Cache!Valid(l, n) = CP!Valid(l, n)
  BY DEF Cache!Valid, CP!Valid, Cache!Compared, CP!Compared
<1>5. \A l, n, t : Cache!Purged(l, n, t) = CP!Purged(l, n, t)
  BY DEF Cache!Purged, CP!Purged, Cache!Expired, CP!Expired, Cache!Visited, CP!Visited
<1>6. \A l, p, x : Cache!PutAfter(l, p, x) = CP!PutAfter(l, p, x)
  BY DEF Cache!PutAfter, CP!PutAfter
<1>7. \A l, x : Cache!addNonceSorted(l, x) = CP!addNonceSorted(l, x)
  BY DEF Cache!addNonceSorted, CP!addNonceSorted, Cache!PutAfter, CP!PutAfter,
         Cache!StopsAt, CP!StopsAt
<1> QED BY <1>1, <1>2, <1>3, <1>4, <1>5, <1>6, <1>7

LEMMA PlaceIs ==
    ASSUME NEW c, NEW p \in DOMAIN c,
           \A i, j \in DOMAIN c : c[i] = c[j] => i = j
    PROVE  PlaceOf(c, c[p]) = p
<1>1. PlaceOf(c, c[p]) \in DOMAIN c /\ c[PlaceOf(c, c[p])] = c[p]
  BY Zenon DEF PlaceOf
<1> QED BY <1>1

(* What the invariant says of lengths and places, cited everywhere.        *)
LEMMA Lengths ==
    ASSUME IInv
    PROVE  /\ list \in Seq(CP!Entry)
           /\ now \in Int
           /\ Len(list) \in Nat /\ DOMAIN list = 1 .. Len(list)
           /\ Len(chain) \in Nat /\ DOMAIN chain = 1 .. Len(chain)
           /\ Dropped \in Nat /\ Dropped + Len(chain) = Len(list)
           /\ chain # <<>> <=> Len(chain) > 0
           /\ list # <<>> <=> Len(list) > 0
           /\ \A i \in DOMAIN list : /\ list[i] \in CP!Entry
                                     /\ list[i].nonce \in Int
                                     /\ list[i].expires \in Int
           /\ \A i \in DOMAIN chain : /\ chain[i] \in Cells
                                      /\ chain[i] \in DOMAIN heap
                                      /\ chain[i] # Null
                                      /\ Dropped + i \in DOMAIN list
                                      /\ heap[chain[i]].nonce = list[Dropped + i].nonce
                                      /\ heap[chain[i]].expires = list[Dropped + i].expires
<1>1. list \in Seq(CP!Entry) /\ chain \in Seq(Cells) /\ now \in Int
  BY Parameters DEF IInv, CP!GInv, CP!TypeOK, MemoryOK, CP!NumbersAssumption
<1>2. Len(list) \in Nat /\ DOMAIN list = 1 .. Len(list)
  BY <1>1, LenProperties
<1>3. Len(chain) \in Nat /\ DOMAIN chain = 1 .. Len(chain)
  BY <1>1, LenProperties
<1>4. Len(chain) <= Len(list)
  BY DEF IInv, Remembered
<1>5. Dropped \in Nat /\ Dropped + Len(chain) = Len(list)
  BY <1>2, <1>3, <1>4 DEF Dropped
<1>6. (chain # <<>> <=> Len(chain) > 0) /\ (list # <<>> <=> Len(list) > 0)
  BY <1>1, <1>2, <1>3, EmptySeq
<1>7. \A i \in DOMAIN list : /\ list[i] \in CP!Entry
                             /\ list[i].nonce \in Int
                             /\ list[i].expires \in Int
  <2>1. \A i \in DOMAIN list : list[i] \in CP!Entry
    BY <1>1, <1>2, ElementOfSeq
  <2> QED BY <2>1 DEF CP!Entry
<1>8. ASSUME NEW i \in DOMAIN chain
      PROVE  /\ chain[i] \in Cells
             /\ chain[i] \in DOMAIN heap
             /\ chain[i] # Null
             /\ Dropped + i \in DOMAIN list
             /\ heap[chain[i]].nonce = list[Dropped + i].nonce
             /\ heap[chain[i]].expires = list[Dropped + i].expires
  <2>1. chain[i] \in Cells
    BY <1>1, <1>3, ElementOfSeq
  <2>2. chain[i] \in DOMAIN heap
    BY DEF IInv, Linked, Places
  <2>3. Dropped + i \in DOMAIN list
    BY <1>2, <1>3, <1>5
  <2>4. EntryAt(heap, chain[i]) = list[Dropped + i]
    BY DEF IInv, Remembered
  <2>5. /\ heap[chain[i]].nonce = list[Dropped + i].nonce
        /\ heap[chain[i]].expires = list[Dropped + i].expires
    BY <2>4 DEF EntryAt
  <2> QED BY <2>1, <2>2, <2>3, <2>5, CellsAssumption
<1> QED BY <1>1, <1>2, <1>3, <1>5, <1>6, <1>7, <1>8

(* Where the walk of a call is.                                            *)
LEMMA Walking ==
    ASSUME IInv, pc # "idle", temp # Null
    PROVE  /\ chain # <<>>
           /\ Position \in 1 .. Len(chain)
           /\ chain[Position] = temp
           /\ IsLast(temp) <=> Position = Len(chain)
           /\ Position < Len(chain) => heap[temp].next = chain[Position + 1]
           /\ Reached \in 1 .. Len(list)
           /\ heap[temp].nonce = list[Reached].nonce
           /\ heap[temp].expires = list[Reached].expires
<1>1. chain # <<>> /\ temp \in Places(chain)
  BY DEF IInv, InCall
<1>2. PICK p \in DOMAIN chain : temp = chain[p]
  BY <1>1 DEF Places
<1>3. Position = p
  BY <1>2, PlaceIs DEF Position, IInv, Linked
<1>4. heap[temp].next = IF p = Len(chain) THEN Null ELSE chain[p + 1]
  BY <1>2 DEF IInv, Linked
<1>5. p \in 1 .. Len(chain) /\ Len(chain) \in Nat
  BY Lengths
<1>6. p < Len(chain) => p + 1 \in DOMAIN chain
  BY <1>5, Lengths
<1>7. p < Len(chain) => chain[p + 1] # Null
  BY <1>6, Lengths
<1>8. Reached = Dropped + p /\ Reached \in 1 .. Len(list)
  BY <1>3, <1>5, Lengths DEF Reached
<1>9. /\ heap[temp].nonce = list[Reached].nonce
      /\ heap[temp].expires = list[Reached].expires
  BY <1>2, <1>8, Lengths
<1>10. p = Len(chain) \/ p < Len(chain)
  BY <1>5
<1> QED BY <1>1, <1>2, <1>3, <1>4, <1>5, <1>7, <1>8, <1>9, <1>10 DEF IsLast
-----------------------------------------------------------------------------
(* The steps of a call that leave the state of NonceCache alone.           *)
LEMMA CacheUnchanged ==
    ASSUME UNCHANGED <<now, list, times, refused>>
    PROVE  /\ CP!GInv => CP!GInv'
           /\ CP!SInv => CP!SInv'
<1>1. CP!GInv => CP!GInv'
  BY Parameters, CP!GInvNext DEF CP!vars
<1>2. CP!SInv => CP!SInv'
  BY <1>1 DEF CP!SInv, CP!AcceptedUnwrapped, CP!Unwrapped, CP!Sorted,
              CP!RemembersOpen, CP!AtMostTwice, CP!CopyCompared,
              CP!EntryOf, CP!Nonce, CP!Expiry, CP!Compared
<1> QED BY <1>1, <1>2

LEMMA CallKeeps == ASSUME IInv, NEW m \in Messages, Call(m) PROVE IInv'
<1>1. /\ pc = "idle" /\ times[m] < MaxAccept /\ Cache!InWindow(m, now)
      /\ pc' = "check" /\ msg' = m /\ temp' = head
      /\ valid' = (head = Null \/ heap[head].nonce # Cache!Nonce(m))
      /\ UNCHANGED <<now, heap, head, chain, list, times, refused, ordered>>
  BY DEF Call
<1>2. CP!GInv' /\ InOrderInv'
  BY <1>1, CacheUnchanged DEF IInv, InOrderInv, Places
<1>3. MemoryOK'
  BY <1>1 DEF IInv, MemoryOK, nonce_t
<1>4. Linked'
  BY <1>1 DEF IInv, Linked, Places
<1>5. Dropped = 0 /\ Dropped' = 0
  BY <1>1, Lengths DEF IInv, Idle, Dropped
<1>6. Remembered'
  BY <1>1 DEF IInv, Remembered, Dropped, EntryAt
<1>7. head = IF chain = <<>> THEN Null ELSE chain[1]
  BY DEF IInv, Linked
<1>8. chain # <<>> => /\ 1 \in DOMAIN chain /\ head = chain[1] /\ head # Null
                      /\ Position' = 1 /\ Reached' = 1
                      /\ heap[head].nonce = list[1].nonce
  <2> SUFFICES ASSUME chain # <<>>
               PROVE  /\ 1 \in DOMAIN chain /\ head = chain[1] /\ head # Null
                      /\ Position' = 1 /\ Reached' = 1
                      /\ heap[head].nonce = list[1].nonce
    OBVIOUS
  <2>1. 1 \in DOMAIN chain /\ head = chain[1]
    BY <1>7, Lengths
  <2>2. head # Null /\ heap[head].nonce = list[Dropped + 1].nonce
    BY <2>1, Lengths
  <2>3. PlaceOf(chain, chain[1]) = 1
    BY <2>1, PlaceIs DEF IInv, Linked
  <2>4. Position' = 1
    BY <1>1, <2>1, <2>3 DEF Position
  <2> QED BY <1>5, <2>1, <2>2, <2>4 DEF Reached
<1>9. Idle' /\ Adding'
  BY <1>1 DEF Idle, Adding
<1>10. InCall'
  <2>1. chain # <<>> => temp' \in Places(chain)
    BY <1>1, <1>8 DEF Places
  <2>2. chain = <<>> => temp' = Null
    BY <1>1, <1>7
  <2> QED BY <1>1, <2>1, <2>2 DEF InCall, Cache!InWindow, Places
<1>11. Checked'
  <2>1. chain = <<>> => valid'
    BY <1>1, <1>7
  <2>2. ASSUME chain # <<>>
        PROVE  valid' <=> Clean(list, 1, Cache!Nonce(m))
    <3>1. 1 \in DOMAIN list /\ \A i \in DOMAIN list : ~ (i < 1)
      BY <2>2, Lengths DEF IInv, Remembered
    <3>2. Clean(list, 1, Cache!Nonce(m)) <=> list[1].nonce # Cache!Nonce(m)
      BY <3>1 DEF Clean
    <3> QED BY <1>1, <1>8, <2>2, <3>2
  <2>3. chain # <<>> => 1 .. Reached' - 1 = {} /\ Dropped' + 1 .. Reached' - 1 = {}
    BY <1>5, <1>8
  <2>4. chain' = chain /\ list' = list /\ Cache!Nonce(m)' = Cache!Nonce(m) /\ msg' = m
    BY <1>1 DEF Cache!Nonce
  <2>5. ASSUME chain # <<>>
        PROVE  (valid <=> Clean(list, Reached, Cache!Nonce(msg)))'
    <3>1. Reached' = 1
      BY <1>8, <2>5
    <3>2. Cache!Nonce(msg)' = Cache!Nonce(m)
      BY <1>1 DEF Cache!Nonce
    <3>3. Clean(list, Reached, Cache!Nonce(msg))' <=> Clean(list, 1, Cache!Nonce(m))
      BY <1>1, <3>1, <3>2 DEF Clean
    <3> QED BY <2>2, <2>5, <3>3
  <2> QED BY <1>1, <1>5, <2>1, <2>3, <2>4, <2>5 DEF Checked
<1> QED BY <1>2, <1>3, <1>4, <1>6, <1>9, <1>10, <1>11 DEF IInv

(* Comparing one entry more.                                               *)
LEMMA CleanNext ==
    ASSUME NEW l, NEW n, NEW k \in DOMAIN l, NEW N \in Nat, DOMAIN l = 1 .. N
    PROVE  Clean(l, k + 1, n) <=> Clean(l, k, n) /\ l[k].nonce # n
<1>1. \A i \in DOMAIN l : i < k + 1 <=> i < k \/ i = k
  OBVIOUS
<1> QED BY <1>1 DEF Clean

(* A step of the loop of checkNonce, up to what it drops.                  *)
LEMMA Compares ==
    ASSUME IInv, Looping
    PROVE  /\ pc = "check" /\ temp # Null
           /\ msg \in Messages
           /\ Position \in 1 .. Len(chain) - 1
           /\ Reached \in 1 .. Len(list) - 1
           /\ heap[temp].next = chain[Position + 1]
           /\ heap[temp].expires = list[Reached].expires
           /\ StillValid <=> Clean(list, Reached + 1, Cache!Nonce(msg))
           /\ list[Reached].expires > now /\ StillValid =>
                \A i \in 1 .. Reached : list[i].nonce # Cache!Nonce(msg)
<1>1. pc = "check" /\ temp # Null /\ ~ IsLast(temp)
  BY DEF Looping
<1>2. /\ chain # <<>>
      /\ Position \in 1 .. Len(chain)
      /\ Position # Len(chain)
      /\ Position < Len(chain) => heap[temp].next = chain[Position + 1]
      /\ Reached \in 1 .. Len(list)
      /\ heap[temp].nonce = list[Reached].nonce
      /\ heap[temp].expires = list[Reached].expires
  BY <1>1, Walking
<1>3. Position \in 1 .. Len(chain) - 1 /\ Position < Len(chain)
  BY <1>2, Lengths
<1>4. Reached \in 1 .. Len(list) - 1
  BY <1>3, Lengths DEF Reached
<1>5. msg \in Messages /\ (valid <=> Clean(list, Reached, Cache!Nonce(msg)))
  BY <1>1, <1>2 DEF IInv, InCall, Checked
<1>6. /\ Reached \in DOMAIN list /\ Len(list) \in Nat /\ DOMAIN list = 1 .. Len(list)
  BY <1>2, Lengths
<1>7. Clean(list, Reached + 1, Cache!Nonce(msg))
        <=> /\ Clean(list, Reached, Cache!Nonce(msg))
            /\ list[Reached].nonce # Cache!Nonce(msg)
  BY <1>6, CleanNext
<1>8. StillValid <=> Clean(list, Reached + 1, Cache!Nonce(msg))
  BY <1>2, <1>5, <1>7 DEF StillValid
<1>9. Clean(list, Reached + 1, Cache!Nonce(msg)) =>
         \A i \in 1 .. Reached : list[i].nonce # Cache!Nonce(msg)
  BY <1>6 DEF Clean
<1> QED BY <1>1, <1>2, <1>3, <1>4, <1>5, <1>8, <1>9
LEMMA SkipKeeps == ASSUME IInv, Skip PROVE IInv'
<1> DEFINE n == Cache!Nonce(msg)
<1>1. /\ Looping /\ heap[temp].expires > now /\ StillValid
      /\ temp' = heap[temp].next
      /\ UNCHANGED <<now, heap, head, pc, msg, valid, chain, list, times, refused, ordered>>
  BY DEF Skip
<1>2. /\ pc = "check" /\ msg \in Messages
      /\ Position \in 1 .. Len(chain) - 1
      /\ Reached \in 1 .. Len(list) - 1
      /\ temp' = chain[Position + 1]
      /\ list[Reached].expires > now
      /\ Clean(list, Reached + 1, n)
      /\ \A i \in 1 .. Reached : list[i].nonce # n
  BY <1>1, Compares
<1>3. CP!GInv' /\ InOrderInv'
  BY <1>1, CacheUnchanged DEF IInv, InOrderInv, Places
<1>4. MemoryOK'
  BY <1>1 DEF IInv, MemoryOK, nonce_t
<1>5. Linked'
  BY <1>1 DEF IInv, Linked, Places
<1>6. Remembered'
  BY <1>1 DEF IInv, Remembered, Dropped, EntryAt
<1>7. Position + 1 \in DOMAIN chain /\ chain # <<>>
  BY <1>2, Lengths
<1>8. Position' = Position + 1
  <2>1. PlaceOf(chain, chain[Position + 1]) = Position + 1
    BY <1>7, PlaceIs DEF IInv, Linked
  <2> QED BY <1>1, <1>2, <2>1 DEF Position
<1>9. Dropped' = Dropped /\ Reached' = Reached + 1
  BY <1>1, <1>2, <1>8, Lengths DEF Dropped, Reached
<1>10. Idle' /\ Adding'
  BY <1>1, <1>2 DEF Idle, Adding
<1>11. InCall'
  <2>1. temp' \in Places(chain)
    BY <1>2, <1>7 DEF Places
  <2> QED BY <1>1, <1>2, <1>7, <2>1 DEF IInv, InCall, Cache!InWindow, Places
<1>12. Checked'
  <2>1. valid
    BY <1>1 DEF StillValid
  <2>2. \A j \in 1 .. Reached : list[j].expires > now =>
                                   \A i \in 1 .. j : list[i].nonce # n
    BY <1>2
  <2>3. Dropped > 0 => list[Dropped].expires <= now
    BY <1>2, <1>7 DEF IInv, Checked
  <2>4. \A i \in Dropped + 1 .. Reached - 1 : list[i].expires > now
    BY <1>2, <1>7 DEF IInv, Checked
  <2>5. \A i \in Dropped + 1 .. Reached : list[i].expires > now
    <3> TAKE i \in Dropped + 1 .. Reached
    <3>1. i = Reached \/ i \in Dropped + 1 .. Reached - 1
      BY <1>2, Lengths
    <3> QED BY <1>2, <2>4, <3>1
  <2>6. Reached' - 1 = Reached
    BY <1>2, <1>9
  <2>7. n' = n /\ Clean(list, Reached, Cache!Nonce(msg))'
    BY <1>1, <1>2, <1>9 DEF Clean, Cache!Nonce
  <2>8. /\ (\A j \in 1 .. Reached - 1 :
                list[j].expires > now =>
                   \A i \in 1 .. j : list[i].nonce # Cache!Nonce(msg))'
        /\ (Dropped > 0 => list[Dropped].expires <= now)'
        /\ (\A i \in Dropped + 1 .. Reached - 1 : list[i].expires > now)'
    BY <1>1, <1>9, <2>2, <2>3, <2>5, <2>6, <2>7
  <2> QED BY <1>1, <1>7, <2>1, <2>7, <2>8 DEF Checked
<1> QED BY <1>3, <1>4, <1>5, <1>6, <1>10, <1>11, <1>12 DEF IInv

(* While the list is sorted, what checkNonce frees is the entry it drops:  *)
(* the walk has not yet passed an unexpired one.                           *)
LEMMA DropsHead ==
    ASSUME IInv, ordered, Looping, heap[temp].expires <= now
    PROVE  Position = 1
<1>1. /\ pc = "check"
      /\ Position \in 1 .. Len(chain) - 1
      /\ Reached \in 1 .. Len(list) - 1
      /\ heap[temp].expires = list[Reached].expires
  BY Compares
<1>2. chain # <<>>
  BY <1>1, Lengths
<1>3. SUFFICES ASSUME Position > 1 PROVE FALSE
  BY <1>1
<1>4. Dropped + 1 \in Dropped + 1 .. Reached - 1
  BY <1>1, <1>3, Lengths DEF Reached
<1>5. list[Dropped + 1].expires > now
  BY <1>1, <1>2, <1>4 DEF IInv, Checked
<1>6. Dropped + 1 \in DOMAIN list /\ Reached \in DOMAIN list /\ Dropped + 1 < Reached
  BY <1>1, <1>3, Lengths DEF Reached
<1>7. list[Dropped + 1].expires <= list[Reached].expires
  BY <1>6 DEF IInv, InOrderInv, CP!SInv, CP!Sorted
<1>8. /\ list[Dropped + 1].expires \in Int
      /\ list[Reached].expires \in Int
      /\ now \in Int
  BY <1>6, Lengths
<1> QED BY <1>1, <1>5, <1>7, <1>8

LEMMA DropKeeps == ASSUME IInv, Drop PROVE IInv'
<1> DEFINE n == Cache!Nonce(msg)
           p == Position
           k == Reached
<1>1. /\ Looping /\ heap[temp].expires <= now
      /\ head' = heap[temp].next /\ temp' = heap[temp].next
      /\ heap' = [d \in DOMAIN heap \ {head} |-> heap[d]]
      /\ valid' = StillValid
      /\ chain' = SubSeq(chain, p + 1, Len(chain))
      /\ UNCHANGED <<now, pc, msg, list, times, refused, ordered>>
  BY DEF Drop, Freed, Behind
<1>2. /\ pc = "check" /\ msg \in Messages
      /\ p \in 1 .. Len(chain) - 1
      /\ k \in 1 .. Len(list) - 1
      /\ temp' = chain[p + 1] /\ head' = chain[p + 1]
      /\ list[k].expires <= now
      /\ StillValid <=> Clean(list, k + 1, n)
  BY <1>1, Compares
<1>3. k = Dropped + p
  BY DEF Reached
<1> HIDE DEF n, p, k
<1>4. /\ chain' \in Seq(Cells)
      /\ Len(chain') = Len(chain) - p
      /\ DOMAIN chain' = 1 .. Len(chain) - p
      /\ \A i \in 1 .. Len(chain) - p : chain'[i] = chain[p + i]
  <2>1. \A i \in p + 1 .. Len(chain) : chain[i] \in Cells
    BY <1>2, Lengths
  <2>2. p + 1 \in Int /\ Len(chain) \in Int /\ p + 1 <= Len(chain)
    BY <1>2, Lengths
  <2>3. /\ chain' \in Seq(Cells)
        /\ Len(chain') = IF p + 1 <= Len(chain) THEN Len(chain) - (p + 1) + 1 ELSE 0
        /\ \A i \in 1 .. Len(chain) - (p + 1) + 1 : chain'[i] = chain[p + 1 + i - 1]
    BY <1>1, <2>1, <2>2, SubSeqProperties
  <2>4. Len(chain) - (p + 1) + 1 = Len(chain) - p
    BY <1>2, Lengths
  <2>5. \A i \in 1 .. Len(chain) - p : p + 1 + i - 1 = p + i
    BY <1>2, Lengths
  <2>6. Len(chain') = Len(chain) - p
    BY <2>2, <2>3, <2>4
  <2> QED BY <2>3, <2>4, <2>5, <2>6, LenProperties
<1>5. /\ p \in Nat /\ Len(chain) \in Nat /\ Len(chain) - p \in Nat
      /\ 1 \in DOMAIN chain' /\ chain' # <<>>
      /\ DOMAIN chain = 1 .. Len(chain)
      /\ \A i \in DOMAIN chain' : p + i \in DOMAIN chain
  <2>1. 1 \in DOMAIN chain' /\ Len(chain') # 0
    BY <1>2, <1>4, Lengths
  <2> QED BY <2>1, <1>2, <1>4, Lengths, EmptySeq
<1>6. head = chain[1] /\ 1 \in DOMAIN chain
  BY <1>2, Lengths DEF IInv, Linked
<1>7. \A i, j \in DOMAIN chain : chain[i] = chain[j] => i = j
  BY DEF IInv, Linked
<1>8. \A i \in DOMAIN chain' : /\ chain'[i] = chain[p + i]
                               /\ chain'[i] # head
                               /\ chain'[i] \in DOMAIN heap'
                               /\ heap'[chain'[i]] = heap[chain[p + i]]
  <2> TAKE i \in DOMAIN chain'
  <2>1. chain'[i] = chain[p + i] /\ p + i \in DOMAIN chain /\ p + i # 1
    BY <1>2, <1>4, <1>5
  <2>2. chain'[i] # head
    BY <1>6, <1>7, <2>1
  <2>3. chain'[i] \in DOMAIN heap
    BY <2>1, Lengths
  <2> QED BY <1>1, <2>1, <2>2, <2>3
<1>9. \A i, j \in DOMAIN chain' : chain'[i] = chain'[j] => i = j
  <2> SUFFICES ASSUME NEW i \in DOMAIN chain', NEW j \in DOMAIN chain', chain'[i] = chain'[j]
               PROVE  i = j
    OBVIOUS
  <2>1. p + i = p + j
    BY <1>5, <1>7, <1>8
  <2> QED BY <2>1, <1>2, <1>4
<1>10. Linked'
  <2>1. head' = chain'[1]
    BY <1>2, <1>4, <1>5
  <2>2. Places(chain') \subseteq DOMAIN heap'
    BY <1>8 DEF Places
  <2>3. ASSUME NEW i \in DOMAIN chain'
        PROVE  heap'[chain'[i]].next = IF i = Len(chain') THEN Null ELSE chain'[i + 1]
    <3>1. heap[chain[p + i]].next = IF p + i = Len(chain) THEN Null ELSE chain[p + i + 1]
      BY <1>5 DEF IInv, Linked
    <3>2. heap'[chain'[i]].next = heap[chain[p + i]].next
      BY <1>8
    <3>3. p + i = Len(chain) <=> i = Len(chain')
      BY <1>4, <1>5
    <3>4. i # Len(chain') => chain'[i + 1] = chain[p + (i + 1)] /\ p + (i + 1) = p + i + 1
      BY <1>4, <1>5
    <3> QED BY <3>1, <3>2, <3>3, <3>4
  <2> QED BY <1>5, <1>9, <2>1, <2>2, <2>3 DEF Linked
<1>11. Dropped' = k /\ k = Dropped + p /\ k \in Nat
  BY <1>1, <1>2, <1>3, <1>4, Lengths DEF Dropped
<1>12. Remembered'
  <2>1. Len(chain') <= Len(list')
    BY <1>1, <1>4, <1>5, Lengths
  <2>2. ASSUME NEW i \in DOMAIN chain'
        PROVE  EntryAt(heap', chain'[i]) = list[k + i]
    <3>1. EntryAt(heap', chain'[i]) = EntryAt(heap, chain[p + i])
      BY <1>8 DEF EntryAt
    <3>2. EntryAt(heap, chain[p + i]) = list[Dropped + (p + i)]
      BY <1>5 DEF IInv, Remembered
    <3>3. Dropped + (p + i) = k + i
      BY <1>4, <1>5, <1>11, Lengths
    <3> QED BY <3>1, <3>2, <3>3
  <2>3. (\A i \in DOMAIN chain : EntryAt(heap, chain[i]) = list[Dropped + i])'
    BY <1>1, <1>11, <2>2 DEF EntryAt
  <2> QED BY <1>5, <2>1, <2>3 DEF Remembered
<1>13. MemoryOK'
  <2>1. DOMAIN heap' \subseteq Cells /\ \A c \in DOMAIN heap' : heap'[c] \in nonce_t
    BY <1>1 DEF IInv, MemoryOK
  <2>2. valid' \in BOOLEAN
    BY <1>1 DEF IInv, MemoryOK, StillValid
  <2> QED BY <1>1, <1>4, <2>1, <2>2 DEF IInv, MemoryOK, nonce_t
<1>14. Idle' /\ Adding'
  BY <1>1, <1>2 DEF Idle, Adding
<1>15. InCall'
  <2>1. temp' \in Places(chain')
    BY <1>2, <1>5, <1>8 DEF Places
  <2> QED BY <1>1, <1>2, <1>5, <2>1 DEF IInv, InCall, Cache!InWindow, Places
<1>16. Position' = 1 /\ Reached' = k + 1
  <2>1. temp' = chain'[1]
    BY <1>2, <1>5, <1>8
  <2>2. PlaceOf(chain', chain'[1]) = 1
    BY <1>5, <1>9, PlaceIs
  <2> QED BY <1>11, <2>1, <2>2 DEF Position, Reached
<1>17. Checked'
  <2>1. (valid <=> Clean(list, Reached, Cache!Nonce(msg)))'
    BY <1>1, <1>2, <1>16 DEF Clean, Cache!Nonce, n
  <2>2. \A j \in 1 .. k - 1 : list[j].expires > now =>
                                 \A i \in 1 .. j : list[i].nonce # n
    BY <1>2, Lengths DEF IInv, Checked, n, k
  <2>3. \A j \in 1 .. k : list[j].expires > now =>
                                 \A i \in 1 .. j : list[i].nonce # n
    <3> SUFFICES ASSUME NEW j \in 1 .. k, list[j].expires > now
                 PROVE  \A i \in 1 .. j : list[i].nonce # n
      OBVIOUS
    <3>1. k \in DOMAIN list
      BY <1>2, Lengths
    <3>2. ~ (list[k].expires > now)
      BY <1>2, <3>1, Lengths
    <3>3. j \in 1 .. k - 1
      BY <1>2, <3>2
    <3> QED BY <2>2, <3>3
  <2>4. Reached' - 1 = k /\ Dropped' + 1 .. Reached' - 1 = {}
    BY <1>11, <1>16
  <2>5. Cache!Nonce(msg)' = n
    BY <1>1 DEF Cache!Nonce, n
  <2>6. /\ (\A j \in 1 .. Reached - 1 :
                list[j].expires > now =>
                   \A i \in 1 .. j : list[i].nonce # Cache!Nonce(msg))'
        /\ (Dropped > 0 => list[Dropped].expires <= now)'
        /\ (\A i \in Dropped + 1 .. Reached - 1 : list[i].expires > now)'
    BY <1>1, <1>2, <1>11, <2>3, <2>4, <2>5
  <2> QED BY <1>5, <2>1, <2>6 DEF Checked
<1>18. CP!GInv' /\ (ordered' => CP!SInv')
  BY <1>1, CacheUnchanged DEF IInv, InOrderInv
<1>19. ASSUME ordered' PROVE DOMAIN heap' = Places(chain')
  <2>1. p = 1 /\ DOMAIN heap = Places(chain)
    BY <1>1, <1>19, DropsHead DEF p, IInv, InOrderInv
  <2>2. ASSUME NEW c \in DOMAIN heap' PROVE c \in Places(chain')
    <3>1. c \in DOMAIN heap /\ c # head
      BY <1>1
    <3>2. PICK i \in DOMAIN chain : c = chain[i]
      BY <2>1, <3>1 DEF Places
    <3>3. i - 1 \in DOMAIN chain' /\ p + (i - 1) = i
      BY <1>4, <1>5, <1>6, <2>1, <3>1, <3>2
    <3> QED BY <1>8, <3>2, <3>3 DEF Places
  <2> QED BY <1>8, <2>2 DEF Places
<1> QED
  BY <1>10, <1>12, <1>13, <1>14, <1>15, <1>17, <1>18, <1>19 DEF IInv, InOrderInv
-----------------------------------------------------------------------------
(* The end of checkNonce.  What is linked then is what NonceCache purges   *)
(* to: when the walk came to the last entry, and when it broke off at an   *)
(* unexpired one with the nonce already found.                             *)
Ended == temp = Null \/ IsLast(temp)

Broken == temp # Null /\ ~ IsLast(temp) /\ heap[temp].expires > now /\ ~ StillValid

(* A list of which the walk has dropped as much as it does.                *)
LEMMA PurgesTo ==
    ASSUME NEW l \in Seq(CP!Entry), NEW n \in Int, NEW t \in Int,
           NEW d \in Nat, NEW k \in 1 .. Len(l), d < k,
           \A j \in 1 .. k - 1 : l[j].expires > t => \A i \in 1 .. j : l[i].nonce # n,
           d > 0 => l[d].expires <= t,
           \A i \in d + 1 .. k - 1 : l[i].expires > t,
           \/ k = Len(l)
           \/ l[k].expires > t /\ \E i \in 1 .. k : l[i].nonce = n
    PROVE  CP!Purged(l, n, t) = SubSeq(l, d + 1, Len(l))
<1>1. Len(l) \in Nat /\ d \in 0 .. Len(l)
  BY LenProperties
<1>2. ASSUME d > 0 PROVE d \in CP!Visited(l, n, t)
  <2>1. d \in 1 .. Len(l) - 1
    BY <1>1, <1>2
  <2>2. \A j \in 1 .. d - 1 : j \in 1 .. k - 1
    BY <1>1
  <2> QED BY <2>1, <2>2 DEF CP!Visited
<1>3. ASSUME NEW i \in CP!Visited(l, n, t), i > d PROVE l[i].expires > t
  <2>1. /\ i \in 1 .. Len(l) - 1
        /\ \A j \in 1 .. i - 1 : l[j].expires > t => \A h \in 1 .. j : l[h].nonce # n
    BY DEF CP!Visited
  <2>2. CASE i < k
    BY <1>1, <1>3, <2>1, <2>2
  <2>3. CASE i = k
    BY <1>1, <2>1, <2>3
  <2>4. CASE i > k
    <3>1. k # Len(l) /\ k \in 1 .. i - 1
      BY <1>1, <2>1, <2>4
    <3> QED BY <2>1, <3>1
  <2> QED BY <1>1, <2>1, <2>2, <2>3, <2>4
<1> QED BY <1>1, <1>2, <1>3, Parameters, CP!PurgedIs

LEMMA CheckEnds ==
    ASSUME IInv, pc = "check", Ended \/ Broken
    PROVE  /\ Entries(heap, chain) = Cache!Purged(list, Cache!Nonce(msg), now)
           /\ Ended => (valid <=> Cache!Valid(list, Cache!Nonce(msg)))
           /\ Broken => ~ Cache!Valid(list, Cache!Nonce(msg))
<1> DEFINE n == Cache!Nonce(msg)
           r == SubSeq(list, Dropped + 1, Len(list))
<1>0. msg \in Messages /\ n \in Int
  <2>1. msg \in Messages
    BY DEF IInv, InCall
  <2> QED BY <2>1, Same, Parameters, CP!EntryTyped
<1> HIDE DEF n
<1>1. /\ r \in Seq(CP!Entry)
      /\ Len(r) = Len(chain)
      /\ \A i \in 1 .. Len(chain) : r[i] = list[Dropped + i]
  <2>1. /\ Dropped + 1 \in Int /\ Len(list) \in Int
        /\ \A i \in Dropped + 1 .. Len(list) : list[i] \in CP!Entry
    BY Lengths
  <2>2. /\ r \in Seq(CP!Entry)
        /\ Len(r) = IF Dropped + 1 <= Len(list) THEN Len(list) - (Dropped + 1) + 1 ELSE 0
        /\ \A i \in 1 .. Len(list) - (Dropped + 1) + 1 : r[i] = list[Dropped + 1 + i - 1]
    BY <2>1, SubSeqProperties
  <2>3. /\ Len(list) - (Dropped + 1) + 1 = Len(chain)
        /\ ~ (Dropped + 1 <= Len(list)) => Len(chain) = 0
        /\ \A i \in 1 .. Len(chain) : Dropped + 1 + i - 1 = Dropped + i
    BY Lengths
  <2>4. Len(r) = Len(chain)
    BY <2>2, <2>3
  <2> QED BY <2>2, <2>3, <2>4
<1>2. Entries(heap, chain) = r
  <2> DEFINE e == Entries(heap, chain)
  <2>1. DOMAIN e = 1 .. Len(chain) /\ \A i \in 1 .. Len(chain) : e[i] = list[Dropped + i]
    BY Lengths DEF Entries, IInv, Remembered
  <2>2. DOMAIN r = 1 .. Len(chain)
    BY <1>1, LenProperties
  <2>3. e = [i \in DOMAIN e |-> e[i]]
    BY DEF Entries
  <2>4. r = [i \in DOMAIN r |-> r[i]]
    BY <1>1, LenProperties
  <2> HIDE DEF e, r
  <2>5. e = r
    BY <1>1, <2>1, <2>2, <2>3, <2>4
  <2> QED BY <2>5 DEF e
<1>3. CASE chain = <<>>
  <2>1. list = <<>> /\ temp = Null /\ valid
    BY <1>3 DEF IInv, Remembered, InCall, Checked
  <2>2. DOMAIN list = {}
    BY <2>1
  <2>3. CP!Valid(list, n)
    BY <2>2 DEF CP!Valid, CP!Compared
  <2>4. CP!Purged(list, n, now) = <<>>
    <3>1. list \in Seq(CP!Entry) /\ now \in Int
      BY Lengths
    <3>2. list = <<>> => CP!Purged(list, n, now) = <<>>
      BY <3>1, <1>0, Parameters, CP!PurgeDropsPrefix, Zenon
    <3> QED BY <2>1, <3>2
  <2>5. r = <<>>
    BY <1>1, <1>3, EmptySeq
  <2> QED BY <1>2, <2>1, <2>3, <2>4, <2>5, Same DEF Broken, n
<1>4. CASE chain # <<>>
  <2> DEFINE k == Reached
  <2>1. temp # Null
    <3>1. PICK i \in DOMAIN chain : temp = chain[i]
      BY <1>4 DEF IInv, InCall, Places
    <3> QED BY <3>1, Lengths
  <2>2. /\ Position \in 1 .. Len(chain)
        /\ IsLast(temp) <=> Position = Len(chain)
        /\ k \in 1 .. Len(list)
        /\ heap[temp].nonce = list[k].nonce
        /\ heap[temp].expires = list[k].expires
    BY <2>1, Walking
  <2>3. k = Dropped + Position
    BY DEF Reached
  <2> HIDE DEF k
  <2>4. Dropped < k /\ Dropped \in Nat /\ (IsLast(temp) <=> k = Len(list))
    <3>1. Dropped \in Nat /\ Len(chain) \in Nat /\ Dropped + Len(chain) = Len(list)
      BY Lengths
    <3>2. Position = Len(chain) <=> k = Len(list)
      BY <2>2, <2>3, <3>1
    <3>3. Dropped < k
      BY <2>2, <2>3, <3>1
    <3> QED BY <2>2, <3>1, <3>2, <3>3
  <2>5. /\ valid <=> Clean(list, k, n)
        /\ \A j \in 1 .. k - 1 : list[j].expires > now =>
                                    \A i \in 1 .. j : list[i].nonce # n
        /\ Dropped > 0 => list[Dropped].expires <= now
        /\ \A i \in Dropped + 1 .. k - 1 : list[i].expires > now
    BY <1>4 DEF IInv, Checked, n, k
  <2>6. ASSUME Ended PROVE k = Len(list) /\ (valid <=> CP!Valid(list, n))
    <3>1. k = Len(list)
      BY <2>1, <2>4, <2>6 DEF Ended
    <3>2. Clean(list, Len(list), n) <=> CP!Valid(list, n)
      BY DEF Clean, CP!Valid, CP!Compared
    <3> QED BY <2>5, <3>1, <3>2
  <2>7. ASSUME Broken
        PROVE  /\ list[k].expires > now /\ \E i \in 1 .. k : list[i].nonce = n
               /\ ~ CP!Valid(list, n)
    <3>1. Looping
      BY <2>7 DEF Broken, Looping
    <3>2. ~ Clean(list, k + 1, n) /\ k \in 1 .. Len(list) - 1
      BY <2>7, <3>1, Compares DEF Broken, n, k
    <3>3. PICK i \in DOMAIN list : (i = 1 \/ i < k + 1) /\ list[i].nonce = n
      BY <3>2 DEF Clean
    <3>4. i \in 1 .. k /\ i < Len(list)
      BY <3>2, <3>3, Lengths
    <3>5. ~ CP!Valid(list, n)
      BY <3>3, <3>4 DEF CP!Valid, CP!Compared
    <3> QED BY <2>2, <2>7, <3>3, <3>4, <3>5 DEF Broken
  <2>8. CP!Purged(list, n, now) = r
    <3>1. \/ k = Len(list)
          \/ list[k].expires > now /\ \E i \in 1 .. k : list[i].nonce = n
      BY <2>6, <2>7
    <3> QED BY <1>0, <2>2, <2>4, <2>5, <3>1, Lengths, PurgesTo
  <2> QED BY <1>2, <2>6, <2>7, <2>8, Same DEF n
<1> QED BY <1>3, <1>4
-----------------------------------------------------------------------------
(* A call has ended: the list is what is linked.                           *)
LEMMA SameInterval ==
    ASSUME NEW a \in Nat, NEW b \in Nat, 1 .. a = 1 .. b
    PROVE  a = b
<1>1. ~ (a < b)
  <2> SUFFICES ASSUME a < b PROVE FALSE
    OBVIOUS
  <2>1. b \in 1 .. b /\ b \notin 1 .. a
    OBVIOUS
  <2> QED BY <2>1
<1>2. ~ (b < a)
  <2> SUFFICES ASSUME b < a PROVE FALSE
    OBVIOUS
  <2>1. a \in 1 .. a /\ a \notin 1 .. b
    OBVIOUS
  <2> QED BY <2>1
<1> QED BY <1>1, <1>2

LEMMA ReturnRemembers ==
    ASSUME list' \in Seq(CP!Entry), chain' \in Seq(Cells),
           list' = Entries(heap', chain')
    PROVE  /\ Remembered'
           /\ Len(chain') = Len(list')
<1>1. /\ Len(list') \in Nat /\ DOMAIN list' = 1 .. Len(list')
      /\ Len(chain') \in Nat /\ DOMAIN chain' = 1 .. Len(chain')
  BY LenProperties
<1>2. DOMAIN list' = DOMAIN chain' /\ \A i \in DOMAIN chain' : list'[i] = EntryAt(heap', chain'[i])
  BY DEF Entries
<1>3. Len(chain') = Len(list')
  BY <1>1, <1>2, SameInterval
<1>4. list' # <<>> => chain' # <<>>
  BY <1>1, <1>3, EmptySeq
<1>5. Dropped' = 0 /\ \A i \in DOMAIN chain' : Dropped' + i = i
  BY <1>1, <1>3 DEF Dropped
<1>6. (\A i \in DOMAIN chain : EntryAt(heap, chain[i]) = list[Dropped + i])'
  BY <1>2, <1>5 DEF EntryAt
<1> QED BY <1>1, <1>3, <1>4, <1>6 DEF Remembered

(* Refuse is the refusal of NonceCache.                                    *)
LEMMA RefuseRefuses ==
    ASSUME IInv, Refuse
    PROVE  /\ msg \in Messages
           /\ CP!RefuseNonce(msg)
           /\ list' \in Seq(CP!Entry)
<1>1. /\ pc = "check" /\ list' = Entries(heap, chain)
      /\ refused' = refused \cup {msg}
      /\ UNCHANGED <<now, times>>
      /\ Ended \/ Broken
      /\ Ended => ~ valid
  BY DEF Refuse, Looping, Ended, Broken
<1>2. /\ Entries(heap, chain) = Cache!Purged(list, Cache!Nonce(msg), now)
      /\ ~ Cache!Valid(list, Cache!Nonce(msg))
  BY <1>1, CheckEnds
<1>3. msg \in Messages /\ Cache!InWindow(msg, now)
  BY <1>1 DEF IInv, InCall
<1>4. CP!RefuseNonce(msg)
  BY <1>1, <1>2, <1>3, Same DEF CP!RefuseNonce
<1>5. list' \in Seq(CP!Entry)
  <2>1. CP!Nonce(msg) \in Int /\ list \in Seq(CP!Entry) /\ now \in Int
    BY <1>3, Parameters, CP!EntryTyped, Lengths
  <2>2. CP!Purged(list, CP!Nonce(msg), now) \in Seq(CP!Entry)
    BY <2>1, Parameters, CP!PurgeKeeps, Zenon
  <2> QED BY <1>1, <1>2, <2>2, Same
<1> QED BY <1>3, <1>4, <1>5

LEMMA RefuseKeeps == ASSUME IInv, Refuse PROVE IInv'
<1>1. /\ pc' = "idle" /\ temp' = Null /\ valid' = FALSE
      /\ list' = Entries(heap, chain)
      /\ UNCHANGED <<now, heap, head, chain, times, ordered>>
  BY DEF Refuse
<1>2. msg \in Messages /\ CP!RefuseNonce(msg) /\ list' \in Seq(CP!Entry)
  BY RefuseRefuses
<1>3. CP!GInv'
  <2>1. [CP!Next]_CP!vars
    BY <1>2 DEF CP!Next, CP!verifyTimestampsAndNonce
  <2> QED BY <2>1, Parameters, CP!GInvNext DEF IInv
<1>4. InOrderInv'
  <2>1. CP!SInv => CP!SInv'
    BY <1>2, <1>3, Parameters, CP!SInvRefuse
  <2> QED BY <1>1, <2>1 DEF IInv, InOrderInv, Places
<1>5. MemoryOK'
  BY <1>1 DEF IInv, MemoryOK, nonce_t
<1>6. Linked'
  BY <1>1 DEF IInv, Linked, Places
<1>7. Remembered' /\ Len(chain') = Len(list')
  <2>1. list' = Entries(heap', chain')
    BY <1>1
  <2> QED BY <1>2, <1>5, <2>1, ReturnRemembers DEF MemoryOK
<1>8. Idle' /\ InCall' /\ Checked' /\ Adding'
  BY <1>1, <1>7 DEF Idle, InCall, Checked, Adding
<1> QED BY <1>3, <1>4, <1>5, <1>6, <1>7, <1>8 DEF IInv

LEMMA SamePurge ==
    ASSUME UNCHANGED <<now, heap, chain, list, msg>>
    PROVE  /\ Cache!Valid(list, Cache!Nonce(msg))' = Cache!Valid(list, Cache!Nonce(msg))
           /\ Entries(heap, chain)' = Entries(heap, chain)
           /\ Cache!Purged(list, Cache!Nonce(msg), now)'
                 = Cache!Purged(list, Cache!Nonce(msg), now)
<1>1. Cache!Valid(list, Cache!Nonce(msg))' = Cache!Valid(list, Cache!Nonce(msg))
  BY DEF Cache!Valid, Cache!Nonce, Cache!Compared
<1>2. Entries(heap, chain)' = Entries(heap, chain)
  BY DEF Entries, EntryAt
<1>3. Cache!Purged(list, Cache!Nonce(msg), now)'
        = Cache!Purged(list, Cache!Nonce(msg), now)
  BY DEF Cache!Purged, Cache!Expired, Cache!Visited, Cache!Nonce
<1> QED BY <1>1, <1>2, <1>3

LEMMA AddKeeps == ASSUME IInv, Add PROVE IInv'
<1>1. /\ pc = "check" /\ Ended /\ valid
      /\ pc' = "add" /\ temp' = head
      /\ UNCHANGED <<now, heap, head, msg, valid, chain, list, times, refused, ordered>>
  BY DEF Add, Looping, Ended
<1>2. /\ Entries(heap, chain) = Cache!Purged(list, Cache!Nonce(msg), now)
      /\ Cache!Valid(list, Cache!Nonce(msg))
  BY <1>1, CheckEnds
<1>3. CP!GInv' /\ InOrderInv'
  BY <1>1, CacheUnchanged DEF IInv, InOrderInv, Places
<1>4. MemoryOK'
  BY <1>1 DEF IInv, MemoryOK, nonce_t
<1>5. Linked'
  BY <1>1 DEF IInv, Linked, Places
<1>6. Remembered'
  BY <1>1 DEF IInv, Remembered, Dropped, EntryAt
<1>7. Idle' /\ Checked'
  BY <1>1 DEF Idle, Checked
<1>8. head = IF chain = <<>> THEN Null ELSE chain[1]
  BY DEF IInv, Linked
<1>9. chain # <<>> => 1 \in DOMAIN chain
  BY Lengths
<1>10. InCall'
  <2>1. chain # <<>> => temp' \in Places(chain)
    BY <1>1, <1>8, <1>9 DEF Places
  <2>2. chain = <<>> => temp' = Null
    BY <1>1, <1>8
  <2> QED BY <1>1, <2>1, <2>2 DEF IInv, InCall, Cache!InWindow, Places
<1>11. Adding'
  <2>1. ASSUME chain # <<>> PROVE Position' = 1
    <3>1. PlaceOf(chain, chain[1]) = 1
      BY <1>9, <2>1, PlaceIs DEF IInv, Linked
    <3> QED BY <1>1, <1>8, <2>1, <3>1 DEF Position
  <2>2. chain # <<>> => 1 .. Position' - 1 = {}
    BY <2>1
  <2>3. (chain # <<>> =>
            \A i \in 1 .. Position - 1 : heap[chain[i]].expires <= Cache!Expiry(msg))'
    BY <1>1, <2>2
  <2>4. /\ Cache!Valid(list, Cache!Nonce(msg))'
        /\ (Entries(heap, chain) = Cache!Purged(list, Cache!Nonce(msg), now))'
    BY <1>1, <1>2, SamePurge
  <2> QED BY <2>3, <2>4 DEF Adding
<1> QED BY <1>3, <1>4, <1>5, <1>6, <1>7, <1>10, <1>11 DEF IInv

LEMMA WalkKeeps == ASSUME IInv, Walk PROVE IInv'
<1>1. /\ pc = "add" /\ temp # Null
      /\ heap[temp].expires <= Cache!Expiry(msg)
      /\ ~ IsLast(temp)
      /\ temp' = heap[temp].next
      /\ UNCHANGED <<now, heap, head, pc, msg, valid, chain, list, times, refused, ordered>>
  BY DEF Walk
<1>2. /\ chain # <<>>
      /\ Position \in 1 .. Len(chain)
      /\ chain[Position] = temp
      /\ Position # Len(chain)
      /\ Position < Len(chain) => heap[temp].next = chain[Position + 1]
  BY <1>1, Walking
<1>12. Position \in 1 .. Len(chain) /\ Position # Len(chain)
  BY <1>2
<1>3. Position + 1 \in DOMAIN chain /\ temp' = chain[Position + 1]
  <2>1. Len(chain) \in Nat
    BY Lengths
  <2>2. Position < Len(chain) /\ Position + 1 \in 1 .. Len(chain)
    BY <1>12, <2>1
  <2>3. temp' = chain[Position + 1]
    BY <1>1, <1>2, <2>2
  <2> QED BY <2>2, <2>3, Lengths
<1>4. CP!GInv' /\ InOrderInv'
  BY <1>1, CacheUnchanged DEF IInv, InOrderInv, Places
<1>5. MemoryOK'
  BY <1>1 DEF IInv, MemoryOK, nonce_t
<1>6. Linked'
  BY <1>1 DEF IInv, Linked, Places
<1>7. Remembered'
  BY <1>1 DEF IInv, Remembered, Dropped, EntryAt
<1>8. Idle' /\ Checked'
  BY <1>1 DEF Idle, Checked
<1>9. InCall'
  <2>1. temp' \in Places(chain)
    BY <1>3 DEF Places
  <2> QED BY <1>1, <1>2, <2>1 DEF IInv, InCall, Cache!InWindow, Places
<1>10. Position' = Position + 1
  <2>1. PlaceOf(chain, chain[Position + 1]) = Position + 1
    BY <1>3, PlaceIs DEF IInv, Linked
  <2> QED BY <1>1, <1>3, <2>1 DEF Position
<1>11. Adding'
  <2>1. \A i \in 1 .. Position - 1 : heap[chain[i]].expires <= Cache!Expiry(msg)
    BY <1>1, <1>2 DEF IInv, Adding
  <2>2. \A i \in 1 .. Position : heap[chain[i]].expires <= Cache!Expiry(msg)
    <3> TAKE i \in 1 .. Position
    <3>1. i = Position \/ i \in 1 .. Position - 1
      BY <1>2
    <3> QED BY <1>1, <1>2, <2>1, <3>1
  <2>3. Position' - 1 = Position
    BY <1>2, <1>10
  <2>4. Cache!Expiry(msg)' = Cache!Expiry(msg)
    BY <1>1 DEF Cache!Expiry
  <2>5. (\A i \in 1 .. Position - 1 : heap[chain[i]].expires <= Cache!Expiry(msg))'
    BY <1>1, <2>2, <2>3, <2>4
  <2>6. /\ Cache!Valid(list, Cache!Nonce(msg))'
        /\ (Entries(heap, chain) = Cache!Purged(list, Cache!Nonce(msg), now))'
    BY <1>1, SamePurge DEF IInv, Adding
  <2> QED BY <2>5, <2>6 DEF Adding
<1> QED BY <1>4, <1>5, <1>6, <1>7, <1>8, <1>9, <1>11 DEF IInv
-----------------------------------------------------------------------------
(* The end of addNonceSorted: the new struct comes after the first p.      *)
Inserts(p) ==
    /\ pc = "add"
    /\ p \in 0 .. Len(chain)
    /\ p = 0 => chain = <<>>
    /\ CP!StopsAt(Entries(heap, chain), CP!Expiry(msg), p)
    /\ Fresh \in Cells \ DOMAIN heap
    /\ chain' = CP!PutAfter(chain, p, Fresh)
    /\ head' = IF p = 0 THEN Fresh ELSE head
    /\ DOMAIN heap' = DOMAIN heap \cup {Fresh}
    /\ heap'[Fresh] = NewNonce(IF p = Len(chain) THEN Null ELSE chain[p + 1])
    /\ \A c \in DOMAIN heap :
          heap'[c] = IF p > 0 /\ c = chain[p] THEN [heap[c] EXCEPT !.next = Fresh]
                                              ELSE heap[c]
    /\ Accepted

LEMMA FreshIsFree ==
    ASSUME IInv, DOMAIN heap # Cells
    PROVE  Fresh \in Cells \ DOMAIN heap
<1>1. \E c \in Cells : c \notin DOMAIN heap
  BY DEF IInv, MemoryOK
<1> QED BY <1>1, Zenon DEF Fresh

LEMMA FirstInserts == ASSUME IInv, First PROVE Inserts(0)
<1>1. /\ pc = "add" /\ temp = Null
      /\ DOMAIN heap # Cells
      /\ heap' = With(heap, NewNonce(Null))
      /\ head' = Fresh
      /\ chain' = <<Fresh>>
      /\ Accepted
  BY DEF First
<1>2. chain = <<>>
  <2>1. chain # <<>> => temp \in Places(chain)
    BY <1>1 DEF IInv, InCall
  <2>2. Null \notin Places(chain)
    BY Lengths DEF Places
  <2> QED BY <1>1, <2>1, <2>2
<1>3. Len(chain) = 0 /\ DOMAIN chain = {}
  BY <1>2
<1>4. Fresh \in Cells \ DOMAIN heap
  BY <1>1, FreshIsFree
<1>5. CP!PutAfter(<<>>, 0, Fresh) = <<Fresh>>
  <2>1. SubSeq(<<>>, 1, 0) = <<>> /\ SubSeq(<<>>, 0 + 1, Len(<<>>)) = <<>>
    BY SubSeqEmpty
  <2>2. <<Fresh>> \in Seq({Fresh})
    OBVIOUS
  <2>3. (<<>> \o <<Fresh>>) \o <<>> = <<Fresh>>
    BY <2>2, ConcatEmptySeq
  <2> QED BY <2>1, <2>3 DEF CP!PutAfter
<1>6. CP!StopsAt(Entries(heap, chain), CP!Expiry(msg), 0)
  <2>1. Entries(heap, chain) = <<>>
    BY <1>3 DEF Entries
  <2> QED BY <2>1 DEF CP!StopsAt
<1>7. /\ DOMAIN heap' = DOMAIN heap \cup {Fresh}
      /\ heap'[Fresh] = NewNonce(Null)
      /\ \A c \in DOMAIN heap : heap'[c] = heap[c]
  BY <1>1, <1>4 DEF With
<1> QED BY <1>1, <1>2, <1>3, <1>4, <1>5, <1>6, <1>7 DEF Inserts

LEMMA LinkInserts == ASSUME IInv, Link PROVE Inserts(Position)
<1> DEFINE p == Position
           e == Entries(heap, chain)
<1>1. /\ pc = "add" /\ temp # Null
      /\ DOMAIN heap # Cells
      /\ IsLast(temp) \/ heap[temp].expires > Cache!Expiry(msg)
      /\ heap' = With([heap EXCEPT ![temp].next = Fresh], NewNonce(heap[temp].next))
      /\ chain' = Cache!PutAfter(chain, p, Fresh)
      /\ head' = head
      /\ Accepted
  BY DEF Link
<1>2. /\ chain # <<>>
      /\ p \in 1 .. Len(chain)
      /\ chain[p] = temp
      /\ IsLast(temp) <=> p = Len(chain)
      /\ p < Len(chain) => heap[temp].next = chain[p + 1]
  BY <1>1, Walking
<1>3. Len(chain) \in Nat
  BY Lengths
<1>13. p \in 1 .. Len(chain)
  BY <1>2
<1>4. Fresh \in Cells \ DOMAIN heap
  BY <1>1, FreshIsFree
<1>5. heap[temp].next = IF p = Len(chain) THEN Null ELSE chain[p + 1]
  <2>1. p = Len(chain) \/ p < Len(chain)
    BY <1>3, <1>13
  <2>2. p = Len(chain) => heap[temp].next = Null
    BY <1>2 DEF IsLast
  <2> QED BY <1>2, <1>3, <2>1, <2>2
<1>6. \A i \in 1 .. p - 1 : heap[chain[i]].expires <= Cache!Expiry(msg)
  BY <1>1, <1>2 DEF IInv, Adding
<1>7. CP!StopsAt(e, CP!Expiry(msg), p)
  <2>1. /\ DOMAIN e = 1 .. Len(chain)
        /\ \A i \in 1 .. Len(chain) : e[i].expires = heap[chain[i]].expires
    BY Lengths DEF Entries, EntryAt
  <2>2. e = Cache!Purged(list, Cache!Nonce(msg), now) /\ msg \in Messages
    BY <1>1 DEF IInv, Adding, InCall
  <2>3. e \in Seq(CP!Entry)
    <3>1. CP!Nonce(msg) \in Int /\ list \in Seq(CP!Entry) /\ now \in Int
      BY <2>2, Parameters, CP!EntryTyped, Lengths
    <3>2. CP!Purged(list, CP!Nonce(msg), now) \in Seq(CP!Entry)
      BY <3>1, Parameters, CP!PurgeKeeps, Zenon
    <3> QED BY <2>2, <3>2, Same
  <2>4. Len(e) = Len(chain)
    <3>1. Len(e) \in Nat /\ DOMAIN e = 1 .. Len(e)
      BY <2>3, LenProperties
    <3> QED BY <1>3, <2>1, <3>1, SameInterval
  <2> HIDE DEF e, p
  <2>5. \A i \in 1 .. p - 1 : i \in 1 .. Len(chain)
    BY <1>3, <1>13
  <2>6. \A i \in 1 .. p - 1 : e[i].expires <= CP!Expiry(msg)
    BY <1>6, <2>1, <2>5, Same
  <2>7. CP!Expiry(msg) \in Int /\ e[p].expires \in Int
    <3>1. CP!Expiry(msg) \in Int
      BY <2>2, Parameters, CP!EntryTyped
    <3>2. e[p] \in CP!Entry
      BY <1>13, <2>3, <2>4, ElementOfSeq
    <3> QED BY <3>1, <3>2 DEF CP!Entry
  <2>8. CASE e[p].expires > CP!Expiry(msg)
    BY <1>13, <2>1, <2>6, <2>8 DEF CP!StopsAt
  <2>9. CASE ~ (e[p].expires > CP!Expiry(msg))
    <3>1. e[p].expires = heap[temp].expires
      BY <1>2, <2>1
    <3>2. p = Len(chain)
      BY <1>1, <1>2, <2>9, <3>1, Same
    <3>3. e[p].expires <= CP!Expiry(msg)
      BY <2>7, <2>9
    <3>4. \A i \in 1 .. Len(chain) : i \in 1 .. p - 1 \/ i = p
      BY <1>3, <3>2
    <3>5. \A i \in DOMAIN e : e[i].expires <= CP!Expiry(msg)
      BY <2>1, <2>6, <3>3, <3>4
    <3> QED BY <2>4, <3>2, <3>5 DEF CP!StopsAt
  <2> QED BY <2>8, <2>9
<1>8. /\ DOMAIN heap' = DOMAIN heap \cup {Fresh}
      /\ heap'[Fresh] = NewNonce(heap[temp].next)
      /\ \A c \in DOMAIN heap :
            heap'[c] = IF c = temp THEN [heap[c] EXCEPT !.next = Fresh] ELSE heap[c]
  BY <1>1, <1>4 DEF With
<1>9. chain' = CP!PutAfter(chain, p, Fresh)
  BY <1>1, Same
<1>10. p \in 0 .. Len(chain) /\ p # 0 /\ p > 0
  BY <1>3, <1>13
<1> HIDE DEF p
<1> QED
  BY <1>1, <1>2, <1>4, <1>5, <1>7, <1>8, <1>9, <1>10 DEF Inserts, p
(* The chain after it, place by place.                                     *)
LEMMA ChainAfter ==
    ASSUME IInv, NEW p, Inserts(p)
    PROVE  /\ chain' \in Seq(Cells)
           /\ DOMAIN chain' = 1 .. Len(chain) + 1
           /\ Len(chain') = Len(chain) + 1
           /\ \A i \in 1 .. p : chain'[i] = chain[i]
           /\ chain'[p + 1] = Fresh
           /\ \A i \in p + 1 .. Len(chain) : chain'[i + 1] = chain[i]
<1>1. /\ p \in 0 .. Len(chain) /\ Fresh \in Cells
      /\ chain' = CP!PutAfter(chain, p, Fresh)
      /\ chain \in Seq(Cells)
  BY DEF Inserts, IInv, MemoryOK
<1>2. /\ CP!PutAfter(chain, p, Fresh) \in Seq(Cells)
      /\ CP!IsPutAfter(CP!PutAfter(chain, p, Fresh), chain, p, Fresh)
  BY <1>1, Parameters, CP!PutAfterPlaces, Zenon
<1>3. chain' \in Seq(Cells) /\ CP!IsPutAfter(chain', chain, p, Fresh)
  BY <1>1, <1>2
<1> QED BY <1>3, LenProperties DEF CP!IsPutAfter

(* Each place after it is the new one or one of before.                    *)
LEMMA PlaceAfter ==
    ASSUME IInv, NEW p, Inserts(p), NEW i \in DOMAIN chain'
    PROVE  \/ i = p + 1 /\ chain'[i] = Fresh
           \/ i \in 1 .. p /\ i \in DOMAIN chain /\ chain'[i] = chain[i]
           \/ i > p + 1 /\ i - 1 \in DOMAIN chain /\ chain'[i] = chain[i - 1]
<1>1. /\ i \in 1 .. Len(chain) + 1 /\ p \in 0 .. Len(chain) /\ Len(chain) \in Nat
      /\ DOMAIN chain = 1 .. Len(chain)
  BY ChainAfter, Lengths DEF Inserts
<1>2. CASE i = p + 1
  BY <1>2, ChainAfter
<1>3. CASE i <= p
  BY <1>1, <1>3, ChainAfter
<1>4. CASE i > p + 1
  <2>1. i - 1 \in p + 1 .. Len(chain) /\ (i - 1) + 1 = i
    BY <1>1, <1>4
  <2>2. chain'[i] = chain[i - 1]
    BY <2>1, ChainAfter
  <2> QED BY <1>1, <1>4, <2>1, <2>2
<1> QED BY <1>1, <1>2, <1>3, <1>4

LEMMA InsertLinks == ASSUME IInv, NEW p, Inserts(p) PROVE Linked'
<1>1. /\ p \in 0 .. Len(chain) /\ Len(chain) \in Nat
      /\ DOMAIN chain = 1 .. Len(chain)
      /\ DOMAIN chain' = 1 .. Len(chain) + 1
      /\ Len(chain') = Len(chain) + 1
  BY ChainAfter, Lengths DEF Inserts
<1>2. /\ p = 0 => chain = <<>>
      /\ Fresh \notin DOMAIN heap
      /\ head' = IF p = 0 THEN Fresh ELSE head
      /\ DOMAIN heap' = DOMAIN heap \cup {Fresh}
      /\ heap'[Fresh] = NewNonce(IF p = Len(chain) THEN Null ELSE chain[p + 1])
      /\ \A c \in DOMAIN heap :
            heap'[c] = IF p > 0 /\ c = chain[p] THEN [heap[c] EXCEPT !.next = Fresh]
                                                ELSE heap[c]
  BY DEF Inserts
<1>3. /\ head = IF chain = <<>> THEN Null ELSE chain[1]
      /\ \A i \in DOMAIN chain :
            heap[chain[i]].next = IF i = Len(chain) THEN Null ELSE chain[i + 1]
      /\ \A i, j \in DOMAIN chain : chain[i] = chain[j] => i = j
  BY DEF IInv, Linked
<1>4. \A i \in DOMAIN chain : chain[i] \in DOMAIN heap /\ chain[i] # Fresh
  BY <1>2, Lengths
<1>5. head' = chain'[1] /\ chain' # <<>>
  <2>1. CASE p = 0
    <3>1. chain'[1] = Fresh
      BY <2>1, ChainAfter
    <3> QED BY <1>1, <1>2, <2>1, <3>1
  <2>2. CASE p # 0
    <3>1. 1 \in 1 .. p /\ 1 \in DOMAIN chain
      BY <1>1, <2>2
    <3>2. chain'[1] = chain[1] /\ chain # <<>>
      BY <3>1, ChainAfter
    <3> QED BY <1>1, <1>2, <1>3, <2>2, <3>2
  <2> QED BY <2>1, <2>2
<1>6. \A i \in DOMAIN chain' : chain'[i] \in DOMAIN heap'
  BY <1>2, <1>4, PlaceAfter
<1>7. ASSUME NEW i \in DOMAIN chain', NEW j \in DOMAIN chain', chain'[i] = chain'[j]
      PROVE  i = j
  <2>1. i \in Int /\ j \in Int /\ p \in Int
    BY <1>1
  <2>2. CASE i = p + 1
    BY <1>4, <1>7, <2>1, <2>2, PlaceAfter
  <2>3. CASE j = p + 1
    BY <1>4, <1>7, <2>1, <2>3, PlaceAfter
  <2>4. CASE i # p + 1 /\ j # p + 1
    <3>1. \/ i \in 1 .. p /\ i \in DOMAIN chain /\ chain'[i] = chain[i]
          \/ i > p + 1 /\ i - 1 \in DOMAIN chain /\ chain'[i] = chain[i - 1]
      BY <2>4, PlaceAfter
    <3>2. \/ j \in 1 .. p /\ j \in DOMAIN chain /\ chain'[j] = chain[j]
          \/ j > p + 1 /\ j - 1 \in DOMAIN chain /\ chain'[j] = chain[j - 1]
      BY <2>4, PlaceAfter
    <3>3. CASE i \in 1 .. p /\ j \in 1 .. p
      BY <1>3, <1>7, <2>1, <3>1, <3>2, <3>3
    <3>4. CASE i > p + 1 /\ j > p + 1
      <4>1. i - 1 = j - 1
        BY <1>3, <1>7, <2>1, <3>1, <3>2, <3>4
      <4> QED BY <2>1, <4>1
    <3>5. CASE i \in 1 .. p /\ j > p + 1
      <4>1. i = j - 1
        BY <1>3, <1>7, <2>1, <3>1, <3>2, <3>5
      <4> QED BY <2>1, <3>5, <4>1
    <3>6. CASE i > p + 1 /\ j \in 1 .. p
      <4>1. i - 1 = j
        BY <1>3, <1>7, <2>1, <3>1, <3>2, <3>6
      <4> QED BY <2>1, <3>6, <4>1
    <3> QED BY <3>1, <3>2, <3>3, <3>4, <3>5, <3>6
  <2> QED BY <2>2, <2>3, <2>4
<1>8. ASSUME NEW i \in DOMAIN chain'
      PROVE  heap'[chain'[i]].next = IF i = Len(chain') THEN Null ELSE chain'[i + 1]
  <2>1. CASE i = p + 1
    <3>1. heap'[chain'[i]].next = IF p = Len(chain) THEN Null ELSE chain[p + 1]
      BY <1>2, <2>1, ChainAfter DEF NewNonce
    <3>0. p \in 0 .. Len(chain) /\ Len(chain) \in Nat
      BY <1>1
    <3>2. p # Len(chain) => p + 1 \in p + 1 .. Len(chain)
      BY <3>0
    <3>3. p # Len(chain) => chain'[(p + 1) + 1] = chain[p + 1]
      BY <3>2, ChainAfter
    <3>5. Len(chain') = Len(chain) + 1
      BY <1>1
    <3>4. p = Len(chain) <=> i = Len(chain')
      BY <3>0, <3>5, <2>1
    <3> QED BY <2>1, <3>1, <3>3, <3>4
  <2>2. CASE i \in 1 .. p
    <3>1. i \in DOMAIN chain /\ chain'[i] = chain[i] /\ i # Len(chain')
      BY <1>1, <2>2, ChainAfter
    <3>2. CASE i = p
      <4>1. p > 0 /\ chain[i] \in DOMAIN heap
        BY <1>1, <1>4, <3>1, <3>2
      <4>2. heap'[chain[i]] = [heap[chain[i]] EXCEPT !.next = Fresh]
        BY <1>2, <3>2, <4>1
      <4>3. heap[chain[i]] \in nonce_t
        BY <4>1 DEF IInv, MemoryOK
      <4>4. heap'[chain[i]].next = Fresh
        BY <4>2, <4>3 DEF nonce_t
      <4> QED BY <3>1, <3>2, <4>4, ChainAfter
    <3>3. CASE i # p
      <4>1. chain[i] # chain[p] /\ i # Len(chain) /\ i + 1 \in 1 .. p
        BY <1>1, <1>3, <2>2, <3>1, <3>3
      <4>2. heap'[chain[i]] = heap[chain[i]]
        BY <1>2, <1>4, <3>1, <4>1
      <4>3. heap[chain[i]].next = chain[i + 1] /\ chain'[i + 1] = chain[i + 1]
        BY <1>3, <3>1, <4>1, ChainAfter
      <4> QED BY <3>1, <4>2, <4>3
    <3> QED BY <3>2, <3>3
  <2>3. CASE i > p + 1
    <3>1. i - 1 \in DOMAIN chain /\ chain'[i] = chain[i - 1]
      BY <1>1, <2>3, PlaceAfter
    <3>2. p > 0 => p \in DOMAIN chain /\ p # i - 1
      BY <1>1, <2>3
    <3>3. p > 0 => chain[i - 1] # chain[p]
      BY <1>3, <3>1, <3>2
    <3>4. heap'[chain[i - 1]] = heap[chain[i - 1]]
      BY <1>2, <1>4, <3>1, <3>3
    <3>5. heap[chain[i - 1]].next = IF i - 1 = Len(chain) THEN Null ELSE chain[(i - 1) + 1]
      BY <1>3, <3>1
    <3>6. (i - 1) + 1 = i /\ (i - 1 = Len(chain) <=> i = Len(chain'))
      BY <1>1
    <3>7. i # Len(chain') => i \in p + 1 .. Len(chain)
      BY <1>1, <2>3
    <3>8. i # Len(chain') => chain'[i + 1] = chain[i]
      BY <3>7, ChainAfter
    <3> QED BY <3>1, <3>4, <3>5, <3>6, <3>8
  <2>4. i = p + 1 \/ i \in 1 .. p \/ i > p + 1
    BY <1>1
  <2> QED BY <2>1, <2>2, <2>3, <2>4
<1> QED BY <1>5, <1>6, <1>7, <1>8 DEF Linked, Places
-----------------------------------------------------------------------------
(* It is the acceptance of NonceCache.                                     *)
LEMMA InsertIsCache ==
    ASSUME IInv, NEW p, Inserts(p)
    PROVE  list' = CP!addNonceSorted(Entries(heap, chain), CP!EntryOf(msg))
<1> DEFINE e == Entries(heap, chain)
           x == CP!EntryOf(msg)
           r == CP!PutAfter(e, p, x)
<1>1. /\ p \in 0 .. Len(chain) /\ Len(chain) \in Nat
      /\ DOMAIN chain = 1 .. Len(chain)
      /\ DOMAIN chain' = 1 .. Len(chain) + 1
  BY ChainAfter, Lengths DEF Inserts
<1>2. /\ msg \in Messages
      /\ e = Cache!Purged(list, Cache!Nonce(msg), now)
      /\ CP!StopsAt(e, CP!Expiry(msg), p)
      /\ list' = Entries(heap', chain')
  BY DEF Inserts, IInv, InCall, Adding, Accepted
<1>3. x \in CP!Entry /\ x.expires = CP!Expiry(msg)
  BY <1>2, Parameters, CP!EntryTyped
<1>4. e \in Seq(CP!Entry)
  <2>1. CP!Nonce(msg) \in Int /\ list \in Seq(CP!Entry) /\ now \in Int
    BY <1>2, Parameters, CP!EntryTyped, Lengths
  <2>2. CP!Purged(list, CP!Nonce(msg), now) \in Seq(CP!Entry)
    BY <2>1, Parameters, CP!PurgeKeeps, Zenon
  <2> QED BY <1>2, <2>2, Same
<1>5. Len(e) = Len(chain) /\ \A i \in 1 .. Len(chain) : e[i] = EntryAt(heap, chain[i])
  <2>1. DOMAIN e = DOMAIN chain /\ \A i \in DOMAIN chain : e[i] = EntryAt(heap, chain[i])
    BY DEF Entries
  <2>2. Len(e) \in Nat /\ DOMAIN e = 1 .. Len(e)
    BY <1>4, LenProperties
  <2>3. Len(e) = Len(chain)
    BY <1>1, <2>1, <2>2, SameInterval
  <2> QED BY <1>1, <2>1, <2>3
<1> HIDE DEF e, x
<1>6. CP!addNonceSorted(e, x) = r
  BY <1>1, <1>2, <1>3, <1>4, <1>5, Parameters, CP!InsertAt
<1>7. r \in Seq(CP!Entry) /\ CP!IsPutAfter(r, e, p, x)
  BY <1>1, <1>3, <1>4, <1>5, Parameters, CP!PutAfterPlaces, Zenon
<1> HIDE DEF r
<1>8. /\ DOMAIN r = 1 .. Len(chain) + 1
      /\ \A i \in 1 .. p : r[i] = e[i]
      /\ r[p + 1] = x
      /\ \A i \in p + 1 .. Len(chain) : r[i + 1] = e[i]
  BY <1>5, <1>7, LenProperties DEF CP!IsPutAfter
<1>9. \A c \in DOMAIN heap : EntryAt(heap', c) = EntryAt(heap, c)
  <2> TAKE c \in DOMAIN heap
  <2>1. heap[c] \in nonce_t
    BY DEF IInv, MemoryOK
  <2>2. heap'[c].nonce = heap[c].nonce /\ heap'[c].expires = heap[c].expires
    BY <2>1 DEF Inserts, nonce_t
  <2> QED BY <2>2 DEF EntryAt
<1>10. EntryAt(heap', Fresh) = x
  <2>1. heap'[Fresh].nonce = Cache!Nonce(msg) /\ heap'[Fresh].expires = Cache!Expiry(msg)
    BY DEF Inserts, NewNonce
  <2> QED BY <2>1, Same DEF EntryAt, x, CP!EntryOf
<1>11. ASSUME NEW i \in DOMAIN chain' PROVE EntryAt(heap', chain'[i]) = r[i]
  <2>1. CASE i = p + 1 /\ chain'[i] = Fresh
    BY <1>8, <1>10, <2>1
  <2>2. CASE i \in 1 .. p /\ i \in DOMAIN chain /\ chain'[i] = chain[i]
    <3>1. chain[i] \in DOMAIN heap /\ i \in 1 .. Len(chain)
      BY <2>2, Lengths
    <3> QED BY <1>5, <1>8, <1>9, <2>2, <3>1
  <2>3. CASE i > p + 1 /\ i - 1 \in DOMAIN chain /\ chain'[i] = chain[i - 1]
    <3>1. chain[i - 1] \in DOMAIN heap /\ i - 1 \in 1 .. Len(chain)
      BY <2>3, Lengths
    <3>0. p \in 0 .. Len(chain) /\ Len(chain) \in Nat /\ i \in Int
      BY <1>1
    <3>2. i - 1 \in p + 1 .. Len(chain) /\ (i - 1) + 1 = i
      BY <2>3, <3>0, <3>1
    <3>3. r[i] = e[i - 1]
      BY <1>8, <3>2
    <3> QED BY <1>5, <1>9, <2>3, <3>1, <3>3
  <2> QED BY <2>1, <2>2, <2>3, PlaceAfter
<1>12. list' = r
  <2> DEFINE a == Entries(heap', chain')
  <2>1. DOMAIN a = DOMAIN r /\ \A i \in DOMAIN r : a[i] = r[i]
    BY <1>1, <1>8, <1>11 DEF Entries
  <2>2. a = [i \in DOMAIN a |-> a[i]]
    BY DEF Entries
  <2>3. r = [i \in DOMAIN r |-> r[i]]
    BY <1>7, LenProperties
  <2> HIDE DEF a
  <2>4. a = r
    BY <2>1, <2>2, <2>3
  <2> QED BY <1>2, <2>4 DEF a
<1> QED BY <1>6, <1>12 DEF e, x

LEMMA InsertAccepts ==
    ASSUME IInv, NEW p, Inserts(p)
    PROVE  msg \in Messages /\ CP!Accept(msg)
<1>1. /\ msg \in Messages
      /\ times[msg] < MaxAccept
      /\ Cache!InWindow(msg, now)
      /\ Cache!Valid(list, Cache!Nonce(msg))
      /\ Entries(heap, chain) = Cache!Purged(list, Cache!Nonce(msg), now)
      /\ times' = [times EXCEPT ![msg] = @ + 1]
      /\ UNCHANGED <<now, refused>>
  BY DEF Inserts, IInv, InCall, Adding, Accepted
<1>2. list' = CP!addNonceSorted(Entries(heap, chain), CP!EntryOf(msg))
  BY InsertIsCache
<1> QED BY <1>1, <1>2, Same DEF CP!Accept

LEMMA InsertMemory == ASSUME IInv, NEW p, Inserts(p) PROVE MemoryOK'
<1>1. /\ msg \in Messages
      /\ p \in 0 .. Len(chain)
      /\ Fresh \in Cells
      /\ DOMAIN heap' = DOMAIN heap \cup {Fresh}
      /\ heap'[Fresh] = NewNonce(IF p = Len(chain) THEN Null ELSE chain[p + 1])
      /\ \A c \in DOMAIN heap :
            heap'[c] = IF p > 0 /\ c = chain[p] THEN [heap[c] EXCEPT !.next = Fresh]
                                                ELSE heap[c]
  BY DEF Inserts, IInv, InCall
<1>2. /\ DOMAIN heap \subseteq Cells
      /\ \A c \in DOMAIN heap : heap[c] \in nonce_t
  BY DEF IInv, MemoryOK
<1>3. heap'[Fresh] \in nonce_t
  <2>1. Cache!Nonce(msg) \in Int /\ Cache!Expiry(msg) \in Int
    BY <1>1, Same, Parameters, CP!EntryTyped
  <2>2. p # Len(chain) => p + 1 \in DOMAIN chain
    <3>1. Len(chain) \in Nat /\ p \in 0 .. Len(chain)
      BY <1>1, Lengths
    <3>2. p # Len(chain) => p + 1 \in 1 .. Len(chain)
      BY <3>1
    <3> QED BY <3>2, Lengths
  <2>3. (IF p = Len(chain) THEN Null ELSE chain[p + 1]) \in Cells \cup {Null}
    BY <2>2, Lengths
  <2> QED BY <1>1, <2>1, <2>3 DEF NewNonce, nonce_t
<1>4. \A c \in DOMAIN heap : heap'[c] \in nonce_t
  <2> TAKE c \in DOMAIN heap
  <2>1. heap[c] \in nonce_t
    BY <1>2
  <2>2. [heap[c] EXCEPT !.next = Fresh] \in nonce_t
    BY <1>1, <2>1 DEF nonce_t
  <2> QED BY <1>1, <2>1, <2>2
<1>5. DOMAIN heap' \subseteq Cells /\ \A c \in DOMAIN heap' : heap'[c] \in nonce_t
  BY <1>1, <1>2, <1>3, <1>4
<1>6. /\ pc' = "idle" /\ valid' = TRUE /\ ordered' \in BOOLEAN
  BY DEF Inserts, Accepted
<1>7. chain' \in Seq(Cells)
  BY ChainAfter
<1> QED BY <1>5, <1>6, <1>7 DEF MemoryOK, nonce_t

LEMMA InsertKeeps == ASSUME IInv, NEW p, Inserts(p) PROVE IInv'
<1>1. /\ pc' = "idle" /\ temp' = Null
      /\ list' = Entries(heap', chain')
      /\ ordered' = (/\ ordered
                     /\ Cache!InOrder(msg)
                     /\ Cache!Expiry(msg) = msg.until + Margin)
      /\ DOMAIN heap' = DOMAIN heap \cup {Fresh}
  BY DEF Inserts, Accepted
<1>2. msg \in Messages /\ CP!Accept(msg)
  BY InsertAccepts
<1>3. CP!GInv'
  <2>1. [CP!Next]_CP!vars
    BY <1>2 DEF CP!Next, CP!verifyTimestampsAndNonce
  <2> QED BY <2>1, Parameters, CP!GInvNext DEF IInv
<1>4. MemoryOK' /\ Linked'
  BY InsertMemory, InsertLinks
<1>5. Remembered' /\ Len(chain') = Len(list')
  <2>1. list' \in Seq(CP!Entry)
    BY <1>3 DEF CP!GInv, CP!TypeOK
  <2> QED BY <1>1, <2>1, ChainAfter, ReturnRemembers
<1>6. Idle' /\ InCall' /\ Checked' /\ Adding'
  BY <1>1, <1>5 DEF Idle, InCall, Checked, Adding
<1>7. ASSUME ordered' PROVE CP!SInv'
  <2>1. CP!SInv /\ Cache!InOrder(msg) /\ CP!Unwrapped(msg)
    BY <1>1, <1>7, Same DEF IInv, InOrderInv, CP!Unwrapped
  <2>2. CP!InOrder(msg)
    BY <2>1 DEF Cache!InOrder, CP!InOrder
  <2> QED BY <1>2, <1>3, <2>1, <2>2, Parameters, CP!SInvAccept
<1>8. ASSUME ordered' PROVE DOMAIN heap' = Places(chain')
  <2>1. DOMAIN heap = Places(chain)
    BY <1>1, <1>8 DEF IInv, InOrderInv
  <2>2. \A i \in DOMAIN chain' : chain'[i] \in DOMAIN heap'
    BY <1>4 DEF Linked, Places
  <2>3. p \in 0 .. Len(chain) /\ Len(chain) \in Nat
    BY Lengths DEF Inserts
  <2>4. p + 1 \in DOMAIN chain' /\ chain'[p + 1] = Fresh
    <3>1. p + 1 \in 1 .. Len(chain) + 1
      BY <2>3
    <3> QED BY <3>1, ChainAfter
  <2>5. ASSUME NEW i \in DOMAIN chain PROVE \E j \in DOMAIN chain' : chain'[j] = chain[i]
    <3>1. i \in 1 .. Len(chain)
      BY Lengths
    <3>2. CASE i \in 1 .. p
      <4>1. i \in 1 .. Len(chain) + 1
        BY <2>3, <3>1
      <4> QED BY <3>2, <4>1, ChainAfter
    <3>3. CASE i \in p + 1 .. Len(chain)
      <4>1. i + 1 \in 1 .. Len(chain) + 1
        BY <2>3, <3>1
      <4> QED BY <3>3, <4>1, ChainAfter
    <3>4. i \in 1 .. p \/ i \in p + 1 .. Len(chain)
      BY <2>3, <3>1
    <3> QED BY <3>2, <3>3, <3>4
  <2> QED BY <1>1, <2>1, <2>2, <2>4, <2>5 DEF Places
<1> QED BY <1>3, <1>4, <1>5, <1>6, <1>7, <1>8 DEF IInv, InOrderInv
-----------------------------------------------------------------------------
(* The steps outside a call.                                               *)
LEMMA TickKeeps == ASSUME IInv, Tick PROVE IInv'
<1>1. /\ pc = "idle" /\ now < MaxTime /\ now' = now + 1
      /\ UNCHANGED <<heap, head, pc, msg, temp, valid, chain, list, times, refused, ordered>>
  BY DEF Tick, walk
<1>2. CP!GInv'
  <2>1. CP!Tick
    BY <1>1 DEF CP!Tick
  <2> QED BY <2>1, Parameters, CP!GInvNext DEF CP!Next, IInv
<1>3. ASSUME CP!SInv PROVE CP!SInv'
  <2>1. now \in Int
    BY Lengths
  <2>2. \A m \in Messages : m.until >= now' => m.until >= now
    BY <1>1, <2>1, Parameters DEF CP!MessagesAssumption
  <2> QED BY <1>1, <1>2, <1>3, <2>2
    DEF CP!SInv, CP!AcceptedUnwrapped, CP!Unwrapped, CP!Sorted, CP!RemembersOpen,
        CP!AtMostTwice, CP!CopyCompared, CP!EntryOf, CP!Nonce, CP!Expiry, CP!Compared
<1>4. InOrderInv'
  BY <1>1, <1>3 DEF IInv, InOrderInv, Places
<1>5. MemoryOK'
  BY <1>1 DEF IInv, MemoryOK, nonce_t
<1>6. Linked'
  BY <1>1 DEF IInv, Linked, Places
<1>7. Remembered'
  BY <1>1 DEF IInv, Remembered, Dropped, EntryAt
<1>8. Idle' /\ InCall' /\ Checked' /\ Adding'
  BY <1>1 DEF IInv, Idle, InCall, Checked, Adding
<1> QED BY <1>2, <1>4, <1>5, <1>6, <1>7, <1>8 DEF IInv

(* An empty list, at boot and after a restart.                             *)
Empty ==
    /\ heap = <<>> /\ head = Null
    /\ pc = "idle" /\ temp = Null /\ valid = TRUE
    /\ chain = <<>> /\ list = <<>>
    /\ times = [m \in Messages |-> 0]
    /\ ordered = TRUE
    /\ CP!GInv

LEMMA EmptyIsList == Empty => IInv
<1> SUFFICES ASSUME Empty PROVE IInv
  OBVIOUS
<1> USE DEF Empty
<1>1. chain \in Seq(Cells) /\ Len(chain) = 0 /\ DOMAIN chain = {} /\ Places(chain) = {}
  BY EmptySeq DEF Places
<1>2. DOMAIN heap = {} /\ DOMAIN list = {} /\ Len(list) = 0
  OBVIOUS
<1>3. CP!SInv
  BY <1>2 DEF CP!SInv, CP!AcceptedUnwrapped, CP!Sorted, CP!RemembersOpen,
              CP!AtMostTwice, CP!CopyCompared
<1>4. InOrderInv /\ MemoryOK
  BY <1>1, <1>2, <1>3 DEF InOrderInv, MemoryOK
<1>5. Linked
  BY <1>1, <1>2 DEF Linked
<1>6. Remembered /\ Idle
  BY <1>1, <1>2 DEF Remembered, Idle
<1>7. InCall /\ Checked /\ Adding
  BY DEF InCall, Checked, Adding
<1> QED BY <1>4, <1>5, <1>6, <1>7 DEF IInv

LEMMA RestartKeeps == ASSUME IInv, Restart PROVE IInv'
<1>1. /\ heap' = <<>> /\ head' = Null /\ pc' = "idle" /\ temp' = Null /\ valid' = TRUE
      /\ chain' = <<>> /\ list' = <<>> /\ times' = [m \in Messages |-> 0]
      /\ ordered' = TRUE /\ refused' = {} /\ now' = now
  BY DEF Restart
<1>2. CP!GInv'
  <2>1. CP!Restart
    BY <1>1 DEF CP!Restart
  <2> QED BY <2>1, Parameters, CP!GInvNext DEF CP!Next, IInv
<1>3. Empty'
  BY <1>1, <1>2 DEF Empty
<1> QED BY <1>3, EmptyIsList, PTL

LEMMA StutterKeeps == ASSUME IInv, UNCHANGED vars PROVE IInv'
<1>1. UNCHANGED <<now, heap, head, pc, msg, temp, valid, chain, list, times, refused, ordered>>
  BY DEF vars, walk
<1>2. CP!GInv' /\ InOrderInv'
  BY <1>1, CacheUnchanged DEF IInv, InOrderInv, Places
<1>3. MemoryOK'
  BY <1>1 DEF IInv, MemoryOK, nonce_t
<1>4. Linked' /\ Idle'
  BY <1>1 DEF IInv, Linked, Places, Idle
<1>5. Remembered'
  BY <1>1 DEF IInv, Remembered, Dropped, EntryAt
<1>6. InCall'
  BY <1>1 DEF IInv, InCall, Cache!InWindow, Places
<1>7. Checked'
  BY <1>1 DEF IInv, Checked, Clean, Reached, Position, PlaceOf, Dropped, Cache!Nonce
<1>8. Adding'
  <2>1. (chain # <<>> =>
            \A i \in 1 .. Position - 1 : heap[chain[i]].expires <= Cache!Expiry(msg))'
        <=> (chain # <<>> =>
            \A i \in 1 .. Position - 1 : heap[chain[i]].expires <= Cache!Expiry(msg))
    BY <1>1 DEF Position, PlaceOf, Cache!Expiry
  <2> QED BY <1>1, <2>1, SamePurge DEF IInv, Adding
<1> QED BY <1>2, <1>3, <1>4, <1>5, <1>6, <1>7, <1>8 DEF IInv

LEMMA IInvInit == Init => IInv
<1> SUFFICES ASSUME Init PROVE IInv
  OBVIOUS
<1>1. CP!Init
  BY DEF Init, CP!Init
<1>2. CP!GInv
  BY <1>1, Parameters, CP!GInvInit
<1> QED BY <1>2, EmptyIsList DEF Init, Empty

LEMMA IInvNext == IInv /\ [Next]_vars => IInv'
<1> SUFFICES ASSUME IInv, [Next]_vars PROVE IInv'
  OBVIOUS
<1>1. ASSUME NEW m \in Messages, Call(m) PROVE IInv'
  BY <1>1, CallKeeps
<1>2. CASE Drop
  BY <1>2, DropKeeps
<1>3. CASE Skip
  BY <1>3, SkipKeeps
<1>4. CASE Refuse
  BY <1>4, RefuseKeeps
<1>5. CASE Add
  BY <1>5, AddKeeps
<1>6. CASE First
  BY <1>6, FirstInserts, InsertKeeps
<1>7. CASE Walk
  BY <1>7, WalkKeeps
<1>8. CASE Link
  BY <1>8, LinkInserts, InsertKeeps
<1>9. CASE Tick
  BY <1>9, TickKeeps
<1>10. CASE Restart
  BY <1>10, RestartKeeps
<1>11. CASE UNCHANGED vars
  BY <1>11, StutterKeeps
<1> QED
  BY <1>1, <1>2, <1>3, <1>4, <1>5, <1>6, <1>7, <1>8, <1>9, <1>10, <1>11 DEF Next

(* No pointer of the list, or of a call in progress, leads to a struct that*)
(* was freed, none of the list is linked twice, and while commands were    *)
(* accepted in order nothing is lost: whatever the walks of checkNonce and *)
(* addNonceSorted meet, and wherever a restart comes.                      *)
THEOREM ListIsSound == Spec => []HeapIsList
<1>1. ASSUME IInv PROVE HeapIsList
  <2>1. Linked /\ (ordered => DOMAIN heap = Places(chain))
    BY <1>1 DEF IInv, InOrderInv
  <2>2. temp \in Places(chain) \cup {Null}
    BY <1>1 DEF IInv, MemoryOK, Idle, InCall
  <2> QED BY <2>1, <2>2 DEF HeapIsList
<1> QED BY <1>1, IInvInit, IInvNext, PTL DEF Spec
-----------------------------------------------------------------------------
(* One step of the list is one step of NonceCache, or none.                *)
LEMMA StepRefines == IInv /\ [Next]_vars => [CP!Next]_CP!vars
<1> SUFFICES ASSUME IInv, [Next]_vars, ~ UNCHANGED CP!vars PROVE CP!Next
  OBVIOUS
<1>1. CASE Refuse
  BY <1>1, RefuseRefuses DEF CP!Next, CP!verifyTimestampsAndNonce
<1>2. ASSUME NEW p, Inserts(p) PROVE CP!Next
  BY <1>2, InsertAccepts DEF CP!Next, CP!verifyTimestampsAndNonce
<1>3. CASE First
  BY <1>2, <1>3, FirstInserts
<1>4. CASE Link
  BY <1>2, <1>4, LinkInserts
<1>5. CASE Tick
  BY <1>5 DEF Tick, CP!Next, CP!Tick
<1>6. CASE Restart
  BY <1>6 DEF Restart, CP!Next, CP!Restart
<1>7. CASE (\E m \in Messages : Call(m)) \/ Drop \/ Skip \/ Add \/ Walk
  BY <1>7 DEF Call, Drop, Skip, Add, Walk, CP!vars
<1>8. CASE UNCHANGED vars
  BY <1>8 DEF vars, CP!vars
<1> QED BY <1>1, <1>3, <1>4, <1>5, <1>6, <1>7, <1>8 DEF Next

LEMMA SameSteps == /\ CP!Init <=> Cache!Init
                   /\ [CP!Next]_CP!vars <=> [Cache!Next]_Cache!vars
<1>1. CP!Init <=> Cache!Init
  BY DEF CP!Init, Cache!Init
<1>2. \A m \in Messages :
         CP!verifyTimestampsAndNonce(m) <=> Cache!verifyTimestampsAndNonce(m)
  BY Same DEF CP!verifyTimestampsAndNonce, Cache!verifyTimestampsAndNonce,
              CP!RefuseWindow, Cache!RefuseWindow, CP!RefuseNonce, Cache!RefuseNonce,
              CP!Accept, Cache!Accept, CP!vars, Cache!vars
<1>3. (CP!Tick <=> Cache!Tick) /\ (CP!Restart <=> Cache!Restart)
  BY DEF CP!Tick, Cache!Tick, CP!Restart, Cache!Restart
<1>4. CP!vars' = CP!vars <=> Cache!vars' = Cache!vars
  BY DEF CP!vars, Cache!vars
<1> QED BY <1>1, <1>2, <1>3, <1>4 DEF CP!Next, Cache!Next

(* The list of structs, walked one at a time, does what NonceCache says a  *)
(* whole call of verifyTimestampsAndNonce does: the same decision, the     *)
(* same entries purged, the new one in the same place.                     *)
THEOREM ListImplementsCache == Spec => Implements
<1>1. Init => Cache!Init
  BY DEF Init, Cache!Init
<1>2. IInv /\ [Next]_vars => [Cache!Next]_Cache!vars
  BY StepRefines, SameSteps
<1> QED BY <1>1, <1>2, IInvInit, IInvNext, PTL DEF Spec, Implements, Cache!Spec

(* The list carries no more dead weight than NonceCache: when a command is *)
(* accepted one older entry at most is expired.                            *)
THEOREM ListHasFewDead == Spec => FewDead
<1>1. Init => CP!Init
  BY DEF Init, CP!Init
<1>2. Spec => CP!Spec
  BY <1>1, StepRefines, IInvInit, IInvNext, PTL DEF Spec, CP!Spec
<1>3. CP!Spec => CP!FewDead
  BY Parameters, CP!DeadAreFew
<1>4. \A S : CP!Cardinality(S) = Cache!Cardinality(S)
  BY DEF CP!Cardinality, Cache!Cardinality
<1>5. [\A m \in Messages : times'[m] > times[m] =>
          CP!Cardinality(CP!Dead(list', now)) <= IF CP!Expiry(m) > now THEN 1 ELSE 2]_CP!vars
      <=> [\A m \in Messages : times'[m] > times[m] =>
          Cache!Cardinality(Cache!Dead(list', now)) <= IF Cache!Expiry(m) > now THEN 1 ELSE 2]_Cache!vars
  BY <1>4, Same DEF CP!Dead, Cache!Dead, CP!vars, Cache!vars
<1> QED BY <1>2, <1>3, <1>5, PTL DEF FewDead, Cache!FewDead, CP!FewDead
(* What is proved of NonceCache holds of the structs: a command is refused *)
(* for its nonce only when one with that nonce was executed since boot.    *)
THEOREM ListRefusesRepeats == Spec => []Cache!RefusedIsRepeat
<1>1. ASSUME IInv PROVE Cache!RefusedIsRepeat
  <2>1. CP!RefusedIsRepeat
    BY <1>1 DEF IInv, CP!GInv
  <2> QED BY <2>1, Same DEF CP!RefusedIsRepeat, Cache!RefusedIsRepeat
<1> QED BY <1>1, IInvInit, IInvNext, PTL DEF Spec

(* For as long as the commands accepted since boot came in order, the list *)
(* is sorted, holds every nonce whose window is open, and no command was   *)
(* executed a third time.                                                  *)
THEOREM ListRunsAtMostTwice ==
    Spec => [](ordered => Cache!Sorted /\ Cache!RemembersOpen /\ Cache!AtMostTwice)
<1>1. ASSUME IInv, ordered PROVE Cache!Sorted /\ Cache!RemembersOpen /\ Cache!AtMostTwice
  <2>1. CP!Sorted /\ CP!RemembersOpen /\ CP!AtMostTwice
    BY <1>1 DEF IInv, InOrderInv, CP!SInv
  <2>2. Cache!Sorted /\ Cache!AtMostTwice
    BY <2>1 DEF CP!Sorted, Cache!Sorted, CP!AtMostTwice, Cache!AtMostTwice
  <2>3. Cache!RemembersOpen
    BY <2>1, Same DEF CP!RemembersOpen, Cache!RemembersOpen
  <2> QED BY <2>2, <2>3
<1>2. IInv => (ordered => Cache!Sorted /\ Cache!RemembersOpen /\ Cache!AtMostTwice)
  BY <1>1
<1> QED BY <1>2, IInvInit, IInvNext, PTL DEF Spec
=============================================================================
