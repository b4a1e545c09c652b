-------------------------- MODULE NonceCacheProofs --------------------------
(***************************************************************************)
(* Proofs about NonceCache: what the insertion and the purge do to any     *)
(* list, the invariants of Spec, and those of deliveries in order.         *)
(***************************************************************************)
EXTENDS NonceCache, SequenceTheorems, FiniteSetTheorems, WellFoundedInduction, TLAPS

(* Every nonempty set of naturals has a least element.                     *)
LEMMA LeastExists ==
    ASSUME NEW T, T \subseteq Nat, T # {}
    PROVE  \E x \in T : \A y \in T : x <= y
<1> DEFINE R == OpToRel(<, Nat)
<1>1. \E x \in T : \A y \in T : ~ (<<y, x>> \in R)
  BY NatLessThanWellFounded, WFMin, Zenon
<1>2. \A x, y \in Nat : <<y, x>> \in R <=> y < x
  BY DEF OpToRel
<1> HIDE DEF R
<1>3. PICK x \in T : \A y \in T : ~ (<<y, x>> \in R)
  BY <1>1
<1>4. ASSUME NEW y \in T PROVE x <= y
  <2>1. x \in Nat /\ y \in Nat
    OBVIOUS
  <2>2. ~ (y < x)
    BY <1>2, <1>3, <2>1
  <2> QED BY <2>1, <2>2
<1> QED BY <1>3, <1>4

(* Every nonempty set of numbers up to n has a greatest element.           *)
LEMMA GreatestExists ==
    ASSUME NEW n \in Nat, NEW T, T \subseteq 1 .. n, T # {}
    PROVE  \E x \in T : \A y \in T : y <= x
<1> DEFINE U == {u \in 0 .. n : n - u \in T}
<1>1. U \subseteq Nat /\ U # {}
  <2>1. PICK x \in T : TRUE
    OBVIOUS
  <2>2. n - x \in 0 .. n /\ n - (n - x) = x
    BY <2>1
  <2>3. n - x \in U
    BY <2>2
  <2>4. \A u \in U : u \in Nat
    OBVIOUS
  <2> HIDE DEF U
  <2> QED BY <2>3, <2>4
<1>2. PICK u \in U : \A v \in U : u <= v
  <2> HIDE DEF U
  <2> QED BY <1>1, LeastExists
<1>3. u \in 0 .. n /\ n - u \in T
  BY <1>2
<1>4. ASSUME NEW y \in T PROVE y <= n - u
  <2>1. y \in 1 .. n
    OBVIOUS
  <2>2. n - y \in 0 .. n /\ n - (n - y) = y
    BY <2>1
  <2>3. n - y \in U
    BY <2>2
  <2>4. u <= n - y
    BY <1>2, <2>3
  <2> QED BY <2>1, <2>4, <1>3
<1> QED BY <1>3, <1>4

(* The walk of addNonceSorted always stops somewhere.                      *)
LEMMA WalkStops ==
    ASSUME NEW l \in Seq(Entry), NEW e \in Int
    PROVE  \E q \in 0 .. Len(l) : StopsAt(l, e, q)
<1> DEFINE T == {i \in DOMAIN l : l[i].expires > e}
<1>0. Len(l) \in Nat /\ DOMAIN l = 1 .. Len(l) /\ \A i \in DOMAIN l : l[i] \in Entry
  BY LenProperties, ElementOfSeq
<1>1. CASE T = {}
  <2>1. \A i \in DOMAIN l : l[i].expires \in Int
    BY <1>0 DEF Entry
  <2>2. \A i \in DOMAIN l : l[i].expires <= e
    BY <2>1, <1>1
  <2>3. StopsAt(l, e, Len(l))
    BY <2>2 DEF StopsAt
  <2> QED BY <2>3, <1>0
<1>2. CASE T # {}
  <2>1. T \subseteq Nat
    BY <1>0
  <2>2. PICK p \in T : \A y \in T : p <= y
    BY <1>2, <2>1, LeastExists
  <2>3. \A i \in 1 .. p - 1 : l[i].expires <= e
    <3> TAKE i \in 1 .. p - 1
    <3>1. i \in DOMAIN l /\ ~ (p <= i)
      BY <1>0
    <3>2. ~ (l[i].expires > e)
      BY <3>1, <2>2
    <3>3. l[i].expires \in Int
      BY <3>1, <1>0 DEF Entry
    <3> QED BY <3>2, <3>3
  <2>4. p \in 0 .. Len(l) /\ p \in DOMAIN l /\ l[p].expires > e
    BY <1>0
  <2> QED BY <2>3, <2>4 DEF StopsAt
<1> QED BY <1>1, <1>2

(* It stops at one place only.                                             *)
LEMMA StopsOnce ==
    ASSUME NEW l \in Seq(Entry), NEW e \in Int,
           NEW p \in 0 .. Len(l), NEW q \in 0 .. Len(l),
           StopsAt(l, e, p), StopsAt(l, e, q)
    PROVE  p = q
<1>0. /\ Len(l) \in Nat /\ DOMAIN l = 1 .. Len(l)
      /\ \A i \in DOMAIN l : l[i].expires \in Int
  <2>1. \A i \in DOMAIN l : l[i] \in Entry
    BY LenProperties, ElementOfSeq
  <2> QED BY <2>1, LenProperties DEF Entry
<1>1. ASSUME NEW a \in 0 .. Len(l), NEW b \in 0 .. Len(l),
             StopsAt(l, e, a), StopsAt(l, e, b)
      PROVE  ~ (a < b)
  <2> SUFFICES ASSUME a < b PROVE FALSE
    OBVIOUS
  <2>1. a # Len(l)
    BY <1>0
  <2>2. a \in DOMAIN l /\ l[a].expires > e
    BY <1>1, <2>1 DEF StopsAt
  <2>3. a \in 1 .. b - 1
    BY <1>0, <2>2
  <2>4. l[a].expires <= e
    BY <1>1, <2>2, <2>3 DEF StopsAt
  <2> QED BY <2>2, <2>4, <1>0
<1>2. ~ (p < q) /\ ~ (q < p)
  BY <1>1
<1> QED BY <1>0, <1>2

(* A member put after the first p of a sequence, place by place.           *)
IsPutAfter(r, l, p, x) ==
    /\ Len(r) = Len(l) + 1
    /\ \A i \in 1 .. p : r[i] = l[i]
    /\ r[p + 1] = x
    /\ \A i \in p + 1 .. Len(l) : r[i + 1] = l[i]

LEMMA PutAfterPlaces ==
    ASSUME NEW S, NEW l \in Seq(S), NEW x \in S, NEW p \in 0 .. Len(l)
    PROVE  PutAfter(l, p, x) \in Seq(S) /\ IsPutAfter(PutAfter(l, p, x), l, p, x)
<1> DEFINE a == SubSeq(l, 1, p)
           b == <<x>>
           c == SubSeq(l, p + 1, Len(l))
           ab == a \o b
           r == ab \o c
<1>0. Len(l) \in Nat /\ DOMAIN l = 1 .. Len(l) /\ \A i \in DOMAIN l : l[i] \in S
  BY LenProperties, ElementOfSeq
<1>2. /\ a \in Seq(S)
      /\ Len(a) = p
      /\ \A i \in 1 .. p : a[i] = l[i]
  <2>1. \A i \in 1 .. p : l[i] \in S
    BY <1>0
  <2> QED BY <2>1, <1>0, SubSeqProperties
<1>3. /\ c \in Seq(S)
      /\ Len(c) = Len(l) - p
      /\ \A i \in 1 .. Len(l) - p : c[i] = l[p + i]
  <2>1. \A i \in p + 1 .. Len(l) : l[i] \in S
    BY <1>0
  <2>2. /\ c \in Seq(S)
        /\ Len(c) = IF p + 1 <= Len(l) THEN Len(l) - (p + 1) + 1 ELSE 0
        /\ \A i \in 1 .. Len(l) - (p + 1) + 1 : c[i] = l[p + 1 + i - 1]
    BY <2>1, <1>0, SubSeqProperties
  <2>3. /\ p + 1 <= Len(l) <=> p # Len(l)
        /\ Len(l) - (p + 1) + 1 = Len(l) - p
        /\ Len(l) - Len(l) = 0
    <3>1. \A k \in Nat : \A q \in 0 .. k : /\ q + 1 <= k <=> q # k
                                           /\ k - (q + 1) + 1 = k - q
                                           /\ k - k = 0
      OBVIOUS
    <3> QED BY <3>1, <1>0
  <2>4. Len(c) = Len(l) - p
    BY <2>2, <2>3
  <2>5. \A i \in 1 .. Len(l) - p : p + 1 + i - 1 = p + i
    BY <1>0
  <2> QED BY <2>2, <2>3, <2>4, <2>5
<1>4. b \in Seq(S) /\ Len(b) = 1 /\ b[1] = x
  OBVIOUS
<1> HIDE DEF a, b, c, ab, r
<1>5. /\ ab \in Seq(S)
      /\ Len(ab) = p + 1
      /\ \A i \in 1 .. p + 1 : ab[i] = IF i <= p THEN a[i] ELSE b[i - p]
  <2>1. /\ ab \in Seq(S)
        /\ Len(ab) = Len(a) + Len(b)
        /\ \A i \in 1 .. Len(a) + Len(b) :
              ab[i] = IF i <= Len(a) THEN a[i] ELSE b[i - Len(a)]
    BY <1>2, <1>4, ConcatProperties, Zenon DEF ab
  <2> QED BY <2>1, <1>2, <1>4
<1>6. /\ r \in Seq(S)
      /\ Len(r) = Len(l) + 1
      /\ \A i \in 1 .. Len(l) + 1 :
            r[i] = IF i <= p + 1 THEN ab[i] ELSE c[i - (p + 1)]
  <2>1. /\ r \in Seq(S)
        /\ Len(r) = Len(ab) + Len(c)
        /\ \A i \in 1 .. Len(ab) + Len(c) :
              r[i] = IF i <= Len(ab) THEN ab[i] ELSE c[i - Len(ab)]
    BY <1>3, <1>5, ConcatProperties, Zenon DEF r
  <2>2. Len(ab) + Len(c) = Len(l) + 1
    BY <1>0, <1>3, <1>5
  <2> QED BY <2>1, <2>2, <1>5
<1>7. \A i \in 1 .. p : r[i] = l[i]
  BY <1>0, <1>2, <1>5, <1>6
<1>8. r[p + 1] = x
  <2>1. p + 1 \in 1 .. p + 1 /\ ~ (p + 1 <= p) /\ (p + 1) - p = 1
        /\ p + 1 \in 1 .. Len(l) + 1 /\ p + 1 <= p + 1
    BY <1>0
  <2>2. r[p + 1] = ab[p + 1]
    BY <2>1, <1>6
  <2>3. ab[p + 1] = b[(p + 1) - p]
    BY <2>1, <1>5
  <2> QED BY <2>1, <2>2, <2>3, <1>4
<1>9. ASSUME NEW i \in p + 1 .. Len(l) PROVE r[i + 1] = l[i]
  <2>1. /\ i + 1 \in 1 .. Len(l) + 1 /\ ~ (i + 1 <= p + 1)
        /\ (i + 1) - (p + 1) = i - p
        /\ i - p \in 1 .. Len(l) - p /\ p + (i - p) = i
    BY <1>0
  <2>2. r[i + 1] = c[(i + 1) - (p + 1)]
    BY <2>1, <1>6
  <2>3. c[i - p] = l[p + (i - p)]
    BY <2>1, <1>3
  <2> QED BY <2>1, <2>2, <2>3
<1>10. PutAfter(l, p, x) = r
  BY DEF PutAfter, r, ab, a, b, c
<1> QED BY <1>6, <1>7, <1>8, <1>9, <1>10 DEF IsPutAfter

(* addNonceSorted puts the entry after the place where the walk stops.     *)
LEMMA InsertAt ==
    ASSUME NEW l \in Seq(Entry), NEW x \in Entry,
           NEW p \in 0 .. Len(l), StopsAt(l, x.expires, p)
    PROVE  addNonceSorted(l, x) = PutAfter(l, p, x)
<1> DEFINE q == CHOOSE q \in 0 .. Len(l) : StopsAt(l, x.expires, q)
<1>1. q \in 0 .. Len(l) /\ StopsAt(l, x.expires, q)
  BY Zenon
<1>2. x.expires \in Int
  BY DEF Entry
<1> HIDE DEF q
<1>3. q = p
  BY <1>1, <1>2, StopsOnce
<1> QED BY <1>3 DEF addNonceSorted, q

(* addNonceSorted adds one entry and keeps the others.                     *)
LEMMA InsertKeeps ==
    ASSUME NEW l \in Seq(Entry), NEW x \in Entry
    PROVE  LET r == addNonceSorted(l, x)
           IN  /\ r \in Seq(Entry)
               /\ Len(r) = Len(l) + 1
               /\ \A i \in DOMAIN r : r[i] = x \/ \E j \in DOMAIN l : r[i] = l[j]
<1> DEFINE r == addNonceSorted(l, x)
<1>0. Len(l) \in Nat /\ DOMAIN l = 1 .. Len(l)
  BY LenProperties
<1>1. PICK p \in 0 .. Len(l) : StopsAt(l, x.expires, p)
  <2>1. x.expires \in Int
    BY DEF Entry
  <2> QED BY <2>1, WalkStops
<1>2. r = PutAfter(l, p, x)
  BY <1>1, InsertAt
<1> HIDE DEF r
<1>3. r \in Seq(Entry) /\ IsPutAfter(r, l, p, x)
  BY <1>1, <1>2, PutAfterPlaces, Zenon
<1>4. DOMAIN r = 1 .. Len(l) + 1
  BY <1>3, LenProperties DEF IsPutAfter
<1>5. ASSUME NEW i \in 1 .. Len(l) + 1
      PROVE  r[i] = x \/ \E j \in DOMAIN l : r[i] = l[j]
  <2>1. CASE i <= p
    BY <2>1, <1>0, <1>3 DEF IsPutAfter
  <2>2. CASE i = p + 1
    BY <2>2, <1>3 DEF IsPutAfter
  <2>3. CASE i > p + 1
    <3>1. i - 1 \in p + 1 .. Len(l) /\ (i - 1) + 1 = i /\ i - 1 \in DOMAIN l
      BY <2>3, <1>0
    <3> QED BY <3>1, <1>3 DEF IsPutAfter
  <2>4. i <= p \/ i = p + 1 \/ i > p + 1
    BY <1>0
  <2> QED BY <2>1, <2>2, <2>3, <2>4, Zenon
<1> QED BY <1>3, <1>4, <1>5 DEF r, IsPutAfter

(* When no entry expires later than the new one it goes to the end.        *)
LEMMA InsertAtEnd ==
    ASSUME NEW l \in Seq(Entry), NEW x \in Entry,
           \A i \in DOMAIN l : l[i].expires <= x.expires
    PROVE  LET r == addNonceSorted(l, x)
           IN  /\ \A i \in DOMAIN l : r[i] = l[i]
               /\ r[Len(l) + 1] = x
<1> DEFINE r == addNonceSorted(l, x)
<1>0. Len(l) \in Nat /\ DOMAIN l = 1 .. Len(l)
  BY LenProperties
<1>1. Len(l) \in 0 .. Len(l) /\ StopsAt(l, x.expires, Len(l))
  BY <1>0 DEF StopsAt
<1>2. r = PutAfter(l, Len(l), x)
  BY <1>1, InsertAt
<1> HIDE DEF r
<1>3. IsPutAfter(r, l, Len(l), x)
  BY <1>1, <1>2, PutAfterPlaces, Zenon
<1> QED BY <1>0, <1>3 DEF r, IsPutAfter

(* checkNonce drops a prefix that ends in an expired entry, never the tail.*)
LEMMA PurgeDropsPrefix ==
    ASSUME NEW l \in Seq(Entry), NEW n \in Int, NEW t \in Int
    PROVE  LET r == Purged(l, n, t)
           IN  /\ r \in Seq(Entry)
               /\ l = <<>> => r = <<>>
               /\ \E d \in 0 .. Len(l) :
                     /\ l # <<>> => d < Len(l)
                     /\ d > 0 => l[d].expires <= t
                     /\ Len(r) = Len(l) - d
                     /\ \A i \in 1 .. Len(r) : r[i] = l[d + i]
<1> DEFINE E == Expired(l, n, t)
           f == IF E = {} THEN 1
                ELSE 1 + CHOOSE i \in E : \A j \in E : j <= i
           r == SubSeq(l, f, Len(l))
<1>0. Len(l) \in Nat /\ DOMAIN l = 1 .. Len(l) /\ \A i \in DOMAIN l : l[i] \in Entry
  BY LenProperties, ElementOfSeq
<1>1. E \subseteq 1 .. Len(l) - 1 /\ \A i \in E : l[i].expires <= t
  BY DEF Expired, Visited
<1>2. E # {} => Len(l) - 1 \in Nat
  BY <1>0, <1>1
<1>3. E # {} => \E i \in E : \A j \in E : j <= i
  <2> SUFFICES ASSUME E # {} PROVE \E i \in E : \A j \in E : j <= i
    OBVIOUS
  <2> DEFINE N == Len(l) - 1
  <2>1. N \in Nat /\ E \subseteq 1 .. N
    BY <1>1, <1>2
  <2> HIDE DEF N, E
  <2> QED BY <2>1, GreatestExists
<1>4. /\ f \in 1 .. Len(l) + 1
      /\ l # <<>> => f <= Len(l)
      /\ f > 1 => l[f - 1].expires <= t
  <2>1. CASE E = {}
    <3>1. l # <<>> => Len(l) # 0
      BY EmptySeq
    <3>2. f = 1
      BY <2>1
    <3> QED BY <3>1, <3>2, <1>0
  <2>2. CASE E # {}
    <3> DEFINE i == CHOOSE i \in E : \A j \in E : j <= i
    <3>1. i \in E
      BY <2>2, <1>3
    <3>2. f = 1 + i
      BY <2>2
    <3> HIDE DEF E, f, i
    <3>3. i \in 1 .. Len(l) - 1 /\ l[i].expires <= t
      BY <3>1, <1>1
    <3>4. f - 1 = i
      BY <3>2, <3>3
    <3> QED BY <3>2, <3>3, <3>4, <1>0
  <2> QED BY <2>1, <2>2
<1> HIDE DEF E, f
<1>5. /\ r \in Seq(Entry)
      /\ Len(r) = IF f <= Len(l) THEN Len(l) - f + 1 ELSE 0
      /\ \A i \in 1 .. Len(l) - f + 1 : r[i] = l[f + i - 1]
  <2>1. \A i \in f .. Len(l) : l[i] \in Entry
    BY <1>0, <1>4
  <2> QED BY <2>1, <1>0, <1>4, SubSeqProperties
<1>6. Purged(l, n, t) = r
  BY DEF Purged, E, f
<1>7. l = <<>> => r = <<>>
  <2>1. ASSUME l = <<>> PROVE Len(r) = 0
    BY <2>1, <1>0, <1>4, <1>5, EmptySeq
  <2> QED BY <2>1, <1>5, EmptySeq
<1>8. /\ f - 1 \in 0 .. Len(l)
      /\ l # <<>> => f - 1 < Len(l)
      /\ f - 1 > 0 => l[f - 1].expires <= t
      /\ Len(r) = Len(l) - (f - 1)
      /\ \A i \in 1 .. Len(r) : r[i] = l[(f - 1) + i]
  BY <1>0, <1>4, <1>5
<1> HIDE DEF r
<1> QED BY <1>5, <1>6, <1>7, <1>8

(* What the purge leaves, from what the walk has seen: its last expired    *)
(* entry, d, after which every visited entry is unexpired.                 *)
LEMMA PurgedIs ==
    ASSUME NEW l \in Seq(Entry), NEW n \in Int, NEW t \in Int,
           NEW d \in 0 .. Len(l),
           d > 0 => d \in Visited(l, n, t) /\ l[d].expires <= t,
           \A i \in Visited(l, n, t) : i > d => l[i].expires > t
    PROVE  Purged(l, n, t) = SubSeq(l, d + 1, Len(l))
<1> DEFINE E == Expired(l, n, t)
<1>0. /\ Len(l) \in Nat /\ DOMAIN l = 1 .. Len(l)
      /\ \A i \in DOMAIN l : l[i].expires \in Int
  <2>1. \A i \in DOMAIN l : l[i] \in Entry
    BY LenProperties, ElementOfSeq
  <2> QED BY <2>1, LenProperties DEF Entry
<1>1. \A i \in E : i \in 1 .. Len(l) - 1 /\ i <= d
  <2> SUFFICES ASSUME NEW i \in E PROVE i \in 1 .. Len(l) - 1 /\ i <= d
    OBVIOUS
  <2>1. i \in Visited(l, n, t) /\ l[i].expires <= t
    BY DEF Expired
  <2>2. i \in 1 .. Len(l) - 1
    BY <2>1 DEF Visited
  <2>3. i \in DOMAIN l
    BY <2>2, <1>0
  <2>4. ~ (l[i].expires > t)
    BY <2>1, <2>3, <1>0
  <2>5. ~ (i > d)
    BY <2>1, <2>4
  <2> QED BY <2>2, <2>5
<1>2. d > 0 => d \in E
  BY DEF Expired
<1> HIDE DEF E
<1>3. CASE d = 0
  <2>1. E = {}
    BY <1>1, <1>3
  <2> QED BY <2>1, <1>3 DEF Purged, E
<1>4. CASE d > 0
  <2> DEFINE g == CHOOSE i \in E : \A j \in E : j <= i
  <2>1. d \in E /\ \A j \in E : j <= d
    BY <1>1, <1>2, <1>4
  <2>2. g \in E /\ \A j \in E : j <= g
    BY <2>1, Zenon
  <2> HIDE DEF g
  <2>3. g = d
    BY <1>1, <2>1, <2>2
  <2>4. E # {} /\ 1 + g = d + 1
    BY <2>1, <2>3
  <2> QED BY <2>4 DEF Purged, E, g
<1> QED BY <1>3, <1>4
-----------------------------------------------------------------------------
(* Names of the parts of the inductive invariants.                         *)
FromAccepted ==
    \A i \in DOMAIN list : \E k \in Messages : times[k] > 0 /\ list[i] = EntryOf(k)

LEMMA EntryTyped ==
    \A m \in Messages : /\ EntryOf(m) \in Entry
                        /\ EntryOf(m).nonce = Nonce(m)
                        /\ Nonce(m) \in Int
                        /\ EntryOf(m).expires = Expiry(m)
                        /\ Expiry(m) \in Int
<1> TAKE m \in Messages
<1>1. m.nonce \in Nat /\ m.until \in Int /\ LongMax \in Nat /\ MaxInt \in Nat /\ Margin \in Nat
  BY MessagesAssumption, NumbersAssumption
<1>2. Nonce(m) \in Int
  BY <1>1 DEF Nonce
<1>3. Expiry(m) \in Int
  BY <1>1 DEF Expiry
<1> QED BY <1>2, <1>3 DEF EntryOf, Entry

(* Every entry of the list after an accepted command was in the list before*)
(* or is the new one; after a refusal all were there before.               *)
LEMMA PurgeKeeps ==
    ASSUME NEW l \in Seq(Entry), NEW n \in Int, NEW t \in Int
    PROVE  LET r == Purged(l, n, t)
           IN  /\ r \in Seq(Entry)
               /\ \A i \in DOMAIN r : \E j \in DOMAIN l : r[i] = l[j]
               /\ l # <<>> => r # <<>>
<1> DEFINE r == Purged(l, n, t)
<1>1. PICK d \in 0 .. Len(l) : /\ l # <<>> => d < Len(l)
                               /\ Len(r) = Len(l) - d
                               /\ \A i \in 1 .. Len(r) : r[i] = l[d + i]
  BY PurgeDropsPrefix, Zenon
<1>2. r \in Seq(Entry)
  BY PurgeDropsPrefix, Zenon
<1> HIDE DEF r
<1>3. Len(l) \in Nat /\ DOMAIN l = 1 .. Len(l)
  BY LenProperties
<1>4. Len(r) \in Nat /\ DOMAIN r = 1 .. Len(r)
  BY <1>2, LenProperties
<1>5. \A i \in DOMAIN r : r[i] = l[d + i] /\ d + i \in DOMAIN l
  BY <1>1, <1>3, <1>4
<1>6. l # <<>> => Len(r) # 0
  BY <1>1, <1>3
<1>7. r = <<>> => Len(r) = 0
  BY EmptySeq
<1> QED BY <1>2, <1>5, <1>6, <1>7 DEF r

(* The list after a call, whatever the order of deliveries.                *)
LEMMA StepList ==
    ASSUME TypeOK, NEW m \in Messages
    PROVE  LET r == Purged(list, Nonce(m), now)
               a == addNonceSorted(r, EntryOf(m))
           IN  /\ r \in Seq(Entry)
               /\ a \in Seq(Entry)
               /\ \A i \in DOMAIN r : \E j \in DOMAIN list : r[i] = list[j]
               /\ \A i \in DOMAIN a : \/ a[i] = EntryOf(m)
                                      \/ \E j \in DOMAIN list : a[i] = list[j]
               /\ list # <<>> => r # <<>>
               /\ a # <<>>
<1> DEFINE r == Purged(list, Nonce(m), now)
           a == addNonceSorted(r, EntryOf(m))
<1>1. list \in Seq(Entry) /\ now \in Int /\ Nonce(m) \in Int /\ EntryOf(m) \in Entry
  BY EntryTyped, NumbersAssumption DEF TypeOK
<1>2. /\ r \in Seq(Entry)
      /\ \A i \in DOMAIN r : \E j \in DOMAIN list : r[i] = list[j]
      /\ list # <<>> => r # <<>>
  BY <1>1, PurgeKeeps, Zenon
<1> HIDE DEF r
<1>3. /\ a \in Seq(Entry)
      /\ Len(a) = Len(r) + 1
      /\ \A i \in DOMAIN a : a[i] = EntryOf(m) \/ \E j \in DOMAIN r : a[i] = r[j]
  BY <1>1, <1>2, InsertKeeps, Zenon
<1>4. a # <<>>
  <2>1. Len(a) # 0
    BY <1>2, <1>3, LenProperties
  <2> QED BY <2>1, EmptySeq
<1> HIDE DEF a
<1>5. \A i \in DOMAIN a : \/ a[i] = EntryOf(m)
                          \/ \E j \in DOMAIN list : a[i] = list[j]
  BY <1>2, <1>3
<1> QED BY <1>2, <1>3, <1>4, <1>5 DEF r, a

(* What holds of any deliveries.                                           *)
GInv == TypeOK /\ FromAccepted /\ RefusedIsRepeat /\ NeverForgetsAll

LEMMA GInvInit == Init => GInv
<1> SUFFICES ASSUME Init PROVE GInv
  OBVIOUS
<1>1. TypeOK
  BY NumbersAssumption, EmptySeq DEF Init, TypeOK
<1>2. FromAccepted
  BY DEF Init, FromAccepted
<1> QED BY <1>1, <1>2 DEF Init, GInv, RefusedIsRepeat, NeverForgetsAll

LEMMA GInvNext == GInv /\ [Next]_vars => GInv'
<1> SUFFICES ASSUME GInv, [Next]_vars PROVE GInv'
  OBVIOUS
<1> USE DEF GInv
<1>1. ASSUME NEW m \in Messages, RefuseNonce(m) PROVE GInv'
  <2> DEFINE r == Purged(list, Nonce(m), now)
  <2>1. list' = r /\ refused' = refused \cup {m} /\ now' = now /\ times' = times
    BY <1>1 DEF RefuseNonce
  <2>2. /\ r \in Seq(Entry)
        /\ \A i \in DOMAIN r : \E j \in DOMAIN list : r[i] = list[j]
        /\ list # <<>> => r # <<>>
    BY StepList, Zenon
  <2> HIDE DEF r
  <2>3. TypeOK'
    BY <2>1, <2>2 DEF TypeOK
  <2>4. FromAccepted'
    BY <2>1, <2>2 DEF FromAccepted
  <2>5. \E k \in Messages : times[k] > 0 /\ Nonce(k) = Nonce(m)
    <3>1. PICK i \in DOMAIN list : list[i].nonce = Nonce(m)
      BY <1>1 DEF RefuseNonce, Valid, Compared
    <3>2. PICK k \in Messages : times[k] > 0 /\ list[i] = EntryOf(k)
      BY <3>1 DEF FromAccepted
    <3> QED BY <3>1, <3>2, EntryTyped
  <2>6. RefusedIsRepeat'
    BY <2>1, <2>5 DEF RefusedIsRepeat
  <2>7. NeverForgetsAll'
    BY <2>1, <2>2 DEF NeverForgetsAll
  <2> QED BY <2>3, <2>4, <2>6, <2>7
<1>2. ASSUME NEW m \in Messages, Accept(m) PROVE GInv'
  <2> DEFINE a == addNonceSorted(Purged(list, Nonce(m), now), EntryOf(m))
  <2>1. /\ list' = a
        /\ times' = [times EXCEPT ![m] = @ + 1]
        /\ now' = now /\ refused' = refused
    BY <1>2 DEF Accept
  <2>2. /\ a \in Seq(Entry)
        /\ \A i \in DOMAIN a : \/ a[i] = EntryOf(m)
                               \/ \E j \in DOMAIN list : a[i] = list[j]
        /\ a # <<>>
    BY StepList, Zenon
  <2> HIDE DEF a
  <2>3. TypeOK'
    BY <2>1, <2>2 DEF TypeOK
  <2>4. \A k \in Messages : times[k] > 0 \/ k = m => times'[k] > 0
    BY <2>1 DEF TypeOK
  <2>5. FromAccepted'
    BY <2>1, <2>2, <2>4 DEF FromAccepted
  <2>6. RefusedIsRepeat'
    BY <2>1, <2>4 DEF RefusedIsRepeat
  <2>7. NeverForgetsAll'
    BY <2>1, <2>2 DEF NeverForgetsAll
  <2> QED BY <2>3, <2>5, <2>6, <2>7
<1>3. CASE Tick
  <2>1. now' \in 0 .. MaxTime
    BY <1>3, NumbersAssumption DEF Tick, TypeOK
  <2> QED BY <1>3, <2>1 DEF Tick, TypeOK, FromAccepted, RefusedIsRepeat, NeverForgetsAll
<1>4. CASE Restart
  <2>1. TypeOK'
    BY <1>4, EmptySeq DEF Restart, TypeOK
  <2>2. FromAccepted'
    BY <1>4 DEF Restart, FromAccepted
  <2> QED BY <1>4, <2>1, <2>2 DEF Restart, RefusedIsRepeat, NeverForgetsAll
<1>5. CASE UNCHANGED vars
  BY <1>5 DEF vars, TypeOK, FromAccepted, RefusedIsRepeat, NeverForgetsAll
<1> QED
  BY <1>1, <1>2, <1>3, <1>4, <1>5 DEF Next, verifyTimestampsAndNonce, RefuseWindow

(* The state of the cache has its type after any deliveries and restarts.  *)
THEOREM TypeCorrect == Spec => []TypeOK
<1>1. GInv => TypeOK
  BY DEF GInv
<1> QED BY <1>1, GInvInit, GInvNext, PTL DEF Spec

(* A command refused for its nonce repeats one executed since boot.        *)
THEOREM RefusalIsJustified == Spec => []RefusedIsRepeat
<1>1. GInv => RefusedIsRepeat
  BY DEF GInv
<1> QED BY <1>1, GInvInit, GInvNext, PTL DEF Spec

(* After the first executed command the list is never empty until a boot.  *)
THEOREM ListStaysNonempty == Spec => []NeverForgetsAll
<1>1. GInv => NeverForgetsAll
  BY DEF GInv
<1> QED BY <1>1, GInvInit, GInvNext, PTL DEF Spec
-----------------------------------------------------------------------------
(* What an accepted command leaves expired.                                *)
LEMMA AtMostOneOrTwo ==
    ASSUME NEW S, NEW a, NEW b
    PROVE  /\ S \subseteq {a} => Cardinality(S) <= 1
           /\ S \subseteq {a, b} => Cardinality(S) <= 2
<1>1. IsFiniteSet({a}) /\ Cardinality({a}) = 1
  BY FS_Singleton
<1>2. IsFiniteSet({a} \cup {b}) /\ Cardinality({a} \cup {b}) \in {1, 2}
  BY <1>1, FS_AddElement
<1>3. {a} \cup {b} = {a, b}
  OBVIOUS
<1>4. S \subseteq {a} => Cardinality(S) <= 1
  BY <1>1, FS_Subset, Zenon
<1>5. ASSUME S \subseteq {a, b} PROVE Cardinality(S) <= 2
  <2>1. IsFiniteSet(S) /\ Cardinality(S) <= Cardinality({a, b})
    BY <1>2, <1>3, <1>5, FS_Subset
  <2>2. Cardinality(S) \in Int
    BY <2>1, FS_CardinalityType
  <2> QED BY <2>1, <2>2, <1>2, <1>3
<1> QED BY <1>4, <1>5

(* The purge of a walk that did not find the nonce has visited every entry *)
(* but the last: no other that it leaves is expired.                       *)
LEMMA PurgeOfValid ==
    ASSUME NEW l \in Seq(Entry), NEW n \in Int, NEW t \in Int, Valid(l, n)
    PROVE  \A i \in 1 .. Len(Purged(l, n, t)) - 1 : Purged(l, n, t)[i].expires > t
<1> DEFINE E == Expired(l, n, t)
           r == Purged(l, n, t)
<1>0. /\ Len(l) \in Nat /\ DOMAIN l = 1 .. Len(l)
      /\ \A i \in DOMAIN l : l[i] \in Entry /\ l[i].expires \in Int
  <2>1. \A i \in DOMAIN l : l[i] \in Entry
    BY LenProperties, ElementOfSeq
  <2> QED BY <2>1, LenProperties DEF Entry
<1>1. Visited(l, n, t) = 1 .. Len(l) - 1
  <2>1. \A k \in 1 .. Len(l) - 1 : l[k].nonce # n
    BY <1>0 DEF Valid, Compared
  <2> QED BY <2>1, <1>0 DEF Visited
<1>2. E \subseteq 1 .. Len(l) /\ E \subseteq 1 .. Len(l) - 1
  BY <1>0, <1>1 DEF Expired
<1>3. \E d \in 0 .. Len(l) : /\ d > 0 => d \in E
                             /\ \A i \in E : i <= d
  <2>1. CASE E = {}
    BY <2>1, <1>0
  <2>2. CASE E # {}
    <3>1. \E d \in E : \A i \in E : i <= d
      <4> HIDE DEF E
      <4> QED BY <2>2, <1>0, <1>2, GreatestExists
    <3> QED BY <3>1, <1>0, <1>2
  <2> QED BY <2>1, <2>2
<1>4. PICK d \in 0 .. Len(l) : /\ d > 0 => d \in E
                              /\ \A i \in E : i <= d
  BY <1>3
<1>5. ASSUME NEW i \in Visited(l, n, t), i > d PROVE l[i].expires > t
  <2>1. i \in DOMAIN l /\ i \notin E
    BY <1>0, <1>1, <1>4, <1>5
  <2>2. ~ (l[i].expires <= t)
    BY <2>1 DEF Expired
  <2> QED BY <2>1, <2>2, <1>0
<1>6. d > 0 => d \in Visited(l, n, t) /\ l[d].expires <= t
  BY <1>4 DEF Expired
<1>7. r = SubSeq(l, d + 1, Len(l))
  BY <1>5, <1>6, PurgedIs
<1> HIDE DEF r
<1>8. /\ Len(r) = IF d + 1 <= Len(l) THEN Len(l) - (d + 1) + 1 ELSE 0
      /\ \A i \in 1 .. Len(l) - (d + 1) + 1 : r[i] = l[d + 1 + i - 1]
  <2>1. \A i \in d + 1 .. Len(l) : l[i] \in Entry
    BY <1>0
  <2> QED BY <2>1, <1>0, <1>7, SubSeqProperties
<1>9. ASSUME NEW i \in 1 .. Len(r) - 1 PROVE r[i].expires > t
  <2>0. Len(r) # 0
    OBVIOUS
  <2>1. d + 1 <= Len(l)
    BY <2>0, <1>8
  <2>2. Len(r) = Len(l) - d
    BY <2>1, <1>0, <1>8
  <2>3. i \in 1 .. Len(l) - (d + 1) + 1 /\ d + 1 + i - 1 = d + i
    BY <2>2, <1>0
  <2>4. d + i \in Visited(l, n, t) /\ d + i > d
    BY <2>2, <1>0, <1>1
  <2> QED BY <2>3, <2>4, <1>5, <1>8
<1> QED BY <1>9 DEF r

LEMMA AcceptLeavesFewDead ==
    ASSUME TypeOK, NEW m \in Messages, Accept(m)
    PROVE  Cardinality(Dead(list', now)) <= IF Expiry(m) > now THEN 1 ELSE 2
<1> DEFINE r == Purged(list, Nonce(m), now)
           x == EntryOf(m)
           a == addNonceSorted(r, x)
<1>1. list \in Seq(Entry) /\ now \in Int /\ Nonce(m) \in Int /\ x \in Entry
      /\ x.expires = Expiry(m) /\ Expiry(m) \in Int /\ list' = a
  BY EntryTyped, NumbersAssumption DEF TypeOK, Accept
<1>2. r \in Seq(Entry)
  BY <1>1, PurgeKeeps, Zenon
<1>3. \A i \in 1 .. Len(r) - 1 : r[i].expires > now
  BY <1>1, PurgeOfValid DEF Accept
<1> HIDE DEF r, x
<1>0. Len(r) \in Nat /\ \A i \in 1 .. Len(r) : r[i].expires \in Int
  <2>1. \A i \in 1 .. Len(r) : r[i] \in Entry
    BY <1>2, ElementOfSeq
  <2> QED BY <2>1, <1>2, LenProperties DEF Entry
<1>4. PICK p \in 0 .. Len(r) : StopsAt(r, x.expires, p)
  BY <1>1, <1>2, WalkStops
<1>5. a \in Seq(Entry) /\ IsPutAfter(a, r, p, x)
  BY <1>1, <1>2, <1>4, InsertAt, PutAfterPlaces
<1> HIDE DEF a
<1> DEFINE q == IF p = Len(r) THEN Len(r) ELSE Len(r) + 1
           D == Dead(a, now)
<1>6. DOMAIN a = 1 .. Len(r) + 1
  BY <1>5, LenProperties DEF IsPutAfter
<1>7. ASSUME NEW i \in D PROVE i = q \/ (i = p + 1 /\ ~ (Expiry(m) > now))
  <2>1. i \in 1 .. Len(r) + 1 /\ a[i].expires <= now
    BY <1>6 DEF Dead
  <2>2. CASE i <= p
    <3>1. a[i] = r[i] /\ i \in 1 .. Len(r)
      BY <2>1, <2>2, <1>5, <1>0 DEF IsPutAfter
    <3>2. ~ (r[i].expires > now)
      BY <3>1, <2>1, <1>0, <1>1
    <3>3. ~ (i \in 1 .. Len(r) - 1)
      BY <3>2, <1>3
    <3> QED BY <3>1, <3>3, <2>2, <1>0
  <2>3. CASE i = p + 1
    <3>1. a[i] = x
      BY <2>3, <1>5 DEF IsPutAfter
    <3> QED BY <3>1, <2>1, <2>3, <1>1
  <2>4. CASE i > p + 1
    <3>1. i - 1 \in p + 1 .. Len(r) /\ (i - 1) + 1 = i /\ i - 1 \in 1 .. Len(r)
      BY <2>1, <2>4, <1>0
    <3>2. a[i] = r[i - 1]
      BY <3>1, <1>5 DEF IsPutAfter
    <3>3. ~ (r[i - 1].expires > now)
      BY <3>1, <3>2, <2>1, <1>0, <1>1
    <3>4. ~ (i - 1 \in 1 .. Len(r) - 1)
      BY <3>3, <1>3
    <3> QED BY <3>1, <3>4, <2>4, <1>0
  <2>5. i <= p \/ i = p + 1 \/ i > p + 1
    BY <2>1, <1>0
  <2> QED BY <2>2, <2>3, <2>4, <2>5
<1> HIDE DEF q, D
<1>8. CASE Expiry(m) > now
  <2>1. D \subseteq {q}
    BY <1>7, <1>8
  <2> QED BY <2>1, <1>1, <1>8, AtMostOneOrTwo DEF D
<1>9. CASE ~ (Expiry(m) > now)
  <2>1. D \subseteq {q, p + 1}
    BY <1>7
  <2> QED BY <2>1, <1>1, <1>9, AtMostOneOrTwo DEF D
<1> QED BY <1>8, <1>9

(* An accepted command leaves at most one older entry expired, whatever    *)
(* was delivered: checkNonce purges all the others on its way.             *)
THEOREM DeadAreFew == Spec => FewDead
<1>1. GInv => TypeOK
  BY DEF GInv
<1>2. ASSUME TypeOK, [Next]_vars
      PROVE  [\A m \in Messages : times'[m] > times[m] =>
                 Cardinality(Dead(list', now)) <= IF Expiry(m) > now THEN 1 ELSE 2]_vars
  <2> SUFFICES ASSUME Next, NEW m \in Messages, times'[m] > times[m]
               PROVE  Cardinality(Dead(list', now)) <= IF Expiry(m) > now THEN 1 ELSE 2
    BY <1>2
  <2>1. \A k \in Messages : times[k] \in Nat
    BY <1>2 DEF TypeOK
  <2>2. ASSUME NEW k \in Messages, verifyTimestampsAndNonce(k) PROVE k = m /\ Accept(m)
    <3>1. times' # times
      BY <2>1
    <3>2. Accept(k)
      BY <2>2, <3>1 DEF verifyTimestampsAndNonce, RefuseWindow, RefuseNonce, vars
    <3>3. k = m
      BY <3>2, <2>1, <1>2 DEF Accept, TypeOK
    <3> QED BY <3>2, <3>3
  <2>3. ~ Tick /\ ~ Restart
    BY <2>1 DEF Tick, Restart
  <2> QED BY <1>2, <2>2, <2>3, AcceptLeavesFewDead DEF Next
<1> QED BY <1>1, <1>2, GInvInit, GInvNext, PTL DEF Spec, FewDead
-----------------------------------------------------------------------------
(* Deliveries in order.  No expiry wraps: no window ends within Margin of  *)
(* the largest int.                                                        *)
NoWrap == \A m \in Messages : m.until + Margin <= MaxInt

(* While its window is open, a message accepted twice is where the loop of *)
(* checkNonce compares.                                                    *)
CopyCompared ==
    \A m \in Messages : (times[m] = 2 /\ m.until >= now) =>
        \E i \in Compared(list) : list[i] = EntryOf(m)

(* The expiry of a message is what the source means it to be.              *)
Unwrapped(m) == Expiry(m) = m.until + Margin

(* It is so for every message accepted since boot.                         *)
AcceptedUnwrapped == \A m \in Messages : times[m] > 0 => Unwrapped(m)

SInv ==
    /\ GInv
    /\ AcceptedUnwrapped
    /\ Sorted
    /\ RemembersOpen
    /\ AtMostTwice
    /\ CopyCompared

Ordered(l) == \A i, j \in DOMAIN l : i < j => l[i].expires <= l[j].expires

LEMMA ExpiryExact ==
    ASSUME NEW m \in Messages, Unwrapped(m)
    PROVE  /\ m.until \in Int
           /\ Margin \in Nat \ {0}
           /\ EntryOf(m).expires = m.until + Margin
BY MessagesAssumption, NumbersAssumption DEF EntryOf, Unwrapped

(* No message wraps when none comes within Margin of the largest int.      *)
LEMMA NoneWraps == ASSUME NoWrap PROVE \A m \in Messages : Unwrapped(m)
<1> TAKE m \in Messages
<1>1. m.until \in Int /\ MaxInt \in Nat /\ Margin \in Nat /\ m.until + Margin <= MaxInt
  BY MessagesAssumption, NumbersAssumption DEF NoWrap
<1> QED BY <1>1 DEF Unwrapped, Expiry

(* The purge of an ordered list drops only expired entries, and leaves what*)
(* was compared where it is compared.                                      *)
LEMMA PurgeOrdered ==
    ASSUME NEW l \in Seq(Entry), NEW n \in Int, NEW t \in Int, Ordered(l)
    PROVE  LET r == Purged(l, n, t)
           IN  /\ r \in Seq(Entry)
               /\ Ordered(r)
               /\ \A i \in DOMAIN l : l[i].expires > t =>
                     \E j \in DOMAIN r : /\ r[j] = l[i]
                                         /\ i \in Compared(l) => j \in Compared(r)
               /\ l # <<>> => Len(r) > 0 /\ r[Len(r)] = l[Len(l)]
<1> DEFINE r == Purged(l, n, t)
<1>1. PICK d \in 0 .. Len(l) : /\ l # <<>> => d < Len(l)
                               /\ d > 0 => l[d].expires <= t
                               /\ Len(r) = Len(l) - d
                               /\ \A i \in 1 .. Len(r) : r[i] = l[d + i]
  BY PurgeDropsPrefix, Zenon
<1>2. r \in Seq(Entry)
  BY PurgeDropsPrefix, Zenon
<1> HIDE DEF r
<1>10. /\ l # <<>> => d < Len(l)
       /\ Len(r) = Len(l) - d
       /\ \A i \in 1 .. Len(r) : r[i] = l[d + i]
  BY <1>1
<1>11. d > 0 => l[d].expires <= t
  BY <1>1
<1>3. Len(l) \in Nat /\ DOMAIN l = 1 .. Len(l) /\ d \in Int
  BY LenProperties
<1>9. \A i \in DOMAIN l : l[i].expires \in Int
  <2>1. \A i \in DOMAIN l : l[i] \in Entry
    BY LenProperties, ElementOfSeq
  <2> QED BY <2>1 DEF Entry
<1>4. Len(r) \in Nat /\ DOMAIN r = 1 .. Len(r)
  BY <1>2, LenProperties
<1>5. \A i \in DOMAIN r : r[i] = l[d + i] /\ d + i \in DOMAIN l
  BY <1>10, <1>3, <1>4
<1>6. Ordered(r)
  <2> SUFFICES ASSUME NEW i \in DOMAIN r, NEW j \in DOMAIN r, i < j
               PROVE  r[i].expires <= r[j].expires
    BY DEF Ordered
  <2>1. d + i < d + j
    BY <1>10, <1>4
  <2> QED BY <2>1, <1>5 DEF Ordered
<1>7. ASSUME NEW i \in DOMAIN l, l[i].expires > t
      PROVE  \E j \in DOMAIN r : r[j] = l[i] /\ (i \in Compared(l) => j \in Compared(r))
  <2>1. i > d
    <3> SUFFICES ASSUME i <= d PROVE FALSE
      BY <1>10, <1>3
    <3>1. d \in DOMAIN l /\ d > 0
      BY <1>10, <1>3
    <3>2. l[i].expires <= l[d].expires
      <4>1. i = d \/ i < d
        BY <1>3
      <4> QED BY <4>1, <3>1, <1>9 DEF Ordered
    <3>3. l[d].expires <= t /\ l[i].expires \in Int /\ l[d].expires \in Int
      BY <3>1, <1>11, <1>9
    <3> QED BY <3>2, <3>3, <1>7
  <2>2. i - d \in DOMAIN r /\ d + (i - d) = i
    BY <2>1, <1>10, <1>3, <1>4
  <2>3. r[i - d] = l[i]
    BY <2>2, <1>5
  <2>4. i \in Compared(l) => i - d \in Compared(r)
    <3> SUFFICES ASSUME i \in Compared(l) PROVE i - d = 1 \/ i - d < Len(r)
      BY <2>2 DEF Compared
    <3>1. i = 1 \/ i < Len(l)
      BY DEF Compared
    <3> QED BY <3>1, <2>1, <1>10, <1>3
  <2> QED BY <2>2, <2>3, <2>4
<1>8. l # <<>> => Len(r) > 0 /\ r[Len(r)] = l[Len(l)]
  <2> SUFFICES ASSUME l # <<>> PROVE Len(r) > 0 /\ r[Len(r)] = l[Len(l)]
    OBVIOUS
  <2>1. Len(r) > 0 /\ d + Len(r) = Len(l)
    BY <1>10, <1>3
  <2> QED BY <2>1, <1>4, <1>5
<1> QED BY <1>2, <1>6, <1>7, <1>8 DEF r

(* Appending at the end of an ordered list.                                *)
LEMMA AppendOrdered ==
    ASSUME NEW l \in Seq(Entry), NEW x \in Entry, Ordered(l),
           \A i \in DOMAIN l : l[i].expires <= x.expires
    PROVE  LET a == addNonceSorted(l, x)
           IN  /\ Ordered(a)
               /\ \A i \in DOMAIN l : i \in Compared(a) /\ a[i] = l[i]
               /\ Len(l) + 1 \in DOMAIN a /\ a[Len(l) + 1] = x
<1> DEFINE a == addNonceSorted(l, x)
<1>1. a \in Seq(Entry) /\ Len(a) = Len(l) + 1
  BY InsertKeeps, Zenon
<1>2. (\A i \in DOMAIN l : a[i] = l[i]) /\ a[Len(l) + 1] = x
  BY InsertAtEnd, Zenon
<1> HIDE DEF a
<1>3. Len(l) \in Nat /\ DOMAIN l = 1 .. Len(l)
  BY LenProperties
<1>4. DOMAIN a = 1 .. Len(l) + 1
  BY <1>1, LenProperties
<1>5. \A i \in DOMAIN l : i \in Compared(a)
  BY <1>1, <1>3, <1>4 DEF Compared
<1>6. Ordered(a)
  <2> SUFFICES ASSUME NEW i \in DOMAIN a, NEW j \in DOMAIN a, i < j
               PROVE  a[i].expires <= a[j].expires
    BY DEF Ordered
  <2>1. i \in DOMAIN l
    BY <1>3, <1>4
  <2>2. j \in DOMAIN l \/ j = Len(l) + 1
    BY <1>3, <1>4
  <2> QED BY <2>1, <2>2, <1>2 DEF Ordered
<1> QED BY <1>2, <1>3, <1>4, <1>5, <1>6 DEF a
(* What a window that is open means for the entry of its message.          *)
LEMMA OpenIsUnexpired ==
    ASSUME NEW m \in Messages, Unwrapped(m), NEW t \in Int, m.until >= t
    PROVE  EntryOf(m).expires > t
<1>1. m.until \in Int /\ Margin \in Nat \ {0} /\ EntryOf(m).expires = m.until + Margin
  BY ExpiryExact
<1> QED BY <1>1

(* A message that may be accepted expires no earlier than every entry.     *)
LEMMA AcceptedIsLatest ==
    ASSUME SInv, NEW m \in Messages, Unwrapped(m), InOrder(m), Accept(m)
    PROVE  /\ \A i \in DOMAIN list : list[i].expires <= EntryOf(m).expires
           /\ times[m] > 0 => list # <<>> /\ list[Len(list)] = EntryOf(m)
           /\ times[m] \in {0, 1}
<1>1. list \in Seq(Entry) /\ now \in Int /\ m.until >= now /\ times[m] \in Nat
  BY NumbersAssumption DEF SInv, GInv, TypeOK, Accept, InWindow
<1>2. Len(list) \in Nat /\ DOMAIN list = 1 .. Len(list)
  BY <1>1, LenProperties
<1>3. \A i \in Compared(list) : list[i] # EntryOf(m)
  BY EntryTyped DEF Accept, Valid
<1>4. times[m] # 2
  BY <1>1, <1>3 DEF SInv, CopyCompared
<1>5. times[m] \in {0, 1}
  BY <1>1, <1>4 DEF SInv, AtMostTwice
<1>6. CASE times[m] > 0
  <2>1. PICK i \in DOMAIN list : list[i] = EntryOf(m)
    BY <1>1, <1>6 DEF SInv, RemembersOpen
  <2>2. i \notin Compared(list)
    BY <1>3, <2>1
  <2>3. i = Len(list)
    BY <1>2, <2>2 DEF Compared
  <2>4. \A j \in DOMAIN list : list[j].expires \in Int
    <3>1. \A j \in DOMAIN list : list[j] \in Entry
      BY <1>1, <1>2, ElementOfSeq
    <3> QED BY <3>1 DEF Entry
  <2>5. ASSUME NEW j \in DOMAIN list PROVE list[j].expires <= EntryOf(m).expires
    <3>1. j = i \/ j < i
      BY <1>2, <2>3
    <3>2. j < i => list[j].expires <= list[i].expires
      BY DEF SInv, Sorted
    <3>3. j = i => list[j].expires <= list[i].expires
      BY <2>4
    <3> QED BY <2>1, <3>1, <3>2, <3>3
  <2>6. list # <<>>
    BY <2>1, <1>2, EmptySeq
  <2> QED BY <1>5, <2>1, <2>3, <2>5, <2>6
<1>7. CASE ~ (times[m] > 0)
  <2>1. ASSUME NEW i \in DOMAIN list PROVE list[i].expires <= EntryOf(m).expires
    <3>1. PICK k \in Messages : times[k] > 0 /\ list[i] = EntryOf(k)
      BY DEF SInv, GInv, FromAccepted
    <3>2. k.until <= m.until /\ Unwrapped(k)
      BY <1>7, <3>1 DEF InOrder, SInv, AcceptedUnwrapped
    <3>3. /\ k.until \in Int /\ m.until \in Int /\ Margin \in Int
          /\ EntryOf(k).expires = k.until + Margin
          /\ EntryOf(m).expires = m.until + Margin
      BY <3>2, ExpiryExact
    <3>4. k.until + Margin <= m.until + Margin
      BY <3>2, <3>3
    <3> QED BY <3>1, <3>3, <3>4
  <2> QED BY <2>1, <1>5, <1>7
<1> QED BY <1>6, <1>7

LEMMA SInvInit == Init => SInv
<1> SUFFICES ASSUME Init PROVE SInv
  OBVIOUS
<1>1. GInv
  BY GInvInit
<1> QED
  BY <1>1, EmptySeq
    DEF Init, SInv, AcceptedUnwrapped, Sorted, RemembersOpen, AtMostTwice, CopyCompared

LEMMA SInvRefuse ==
    ASSUME SInv, GInv', NEW m \in Messages, RefuseNonce(m)
    PROVE  SInv'
<1> DEFINE r == Purged(list, Nonce(m), now)
<1>1. list' = r /\ now' = now /\ times' = times
  BY DEF RefuseNonce
<1>2. list \in Seq(Entry) /\ now \in Int /\ Nonce(m) \in Int /\ Ordered(list)
  BY NumbersAssumption, EntryTyped DEF SInv, GInv, TypeOK, Sorted, Ordered
<1>3. /\ Ordered(r)
      /\ \A i \in DOMAIN list : list[i].expires > now =>
            \E j \in DOMAIN r : /\ r[j] = list[i]
                                /\ i \in Compared(list) => j \in Compared(r)
  BY <1>2, PurgeOrdered, Zenon
<1> HIDE DEF r
<1>4. Sorted'
  BY <1>1, <1>3 DEF Sorted, Ordered
<1>5. RemembersOpen'
  <2> SUFFICES ASSUME NEW k \in Messages, times[k] > 0, k.until >= now
               PROVE  \E j \in DOMAIN r : r[j] = EntryOf(k)
    BY <1>1 DEF RemembersOpen, EntryOf, Nonce, Expiry
  <2>1. PICK i \in DOMAIN list : list[i] = EntryOf(k)
    BY DEF SInv, RemembersOpen
  <2>2. list[i].expires > now
    BY <1>2, <2>1, OpenIsUnexpired DEF SInv, AcceptedUnwrapped
  <2> QED BY <1>3, <2>1, <2>2
<1>6. CopyCompared'
  <2> SUFFICES ASSUME NEW k \in Messages, times[k] = 2, k.until >= now
               PROVE  \E j \in Compared(r) : r[j] = EntryOf(k)
    BY <1>1 DEF CopyCompared, EntryOf, Nonce, Expiry, Compared
  <2>1. PICK i \in Compared(list) : list[i] = EntryOf(k)
    BY DEF SInv, CopyCompared
  <2>2. i \in DOMAIN list
    BY <2>1 DEF Compared
  <2>4. Unwrapped(k)
    BY DEF SInv, AcceptedUnwrapped
  <2>5. list[i].expires > now
    BY <1>2, <2>1, <2>4, OpenIsUnexpired
  <2> QED BY <1>3, <2>1, <2>2, <2>5
<1>7. AtMostTwice'
  BY <1>1 DEF SInv, AtMostTwice
<1>8. AcceptedUnwrapped'
  BY <1>1 DEF SInv, AcceptedUnwrapped, Unwrapped, Expiry
<1> QED BY <1>4, <1>5, <1>6, <1>7, <1>8 DEF SInv

LEMMA SInvAccept ==
    ASSUME SInv, GInv', NEW m \in Messages, Unwrapped(m), InOrder(m), Accept(m)
    PROVE  SInv'
<1> DEFINE r == Purged(list, Nonce(m), now)
           a == addNonceSorted(r, EntryOf(m))
<1>1. list' = a /\ now' = now /\ times' = [times EXCEPT ![m] = @ + 1]
  BY DEF Accept
<1>2. /\ list \in Seq(Entry) /\ now \in Int /\ Nonce(m) \in Int /\ Ordered(list)
      /\ EntryOf(m) \in Entry /\ times \in [Messages -> Nat]
  BY NumbersAssumption, EntryTyped DEF SInv, GInv, TypeOK, Sorted, Ordered
<1>3. /\ r \in Seq(Entry)
      /\ Ordered(r)
      /\ \A i \in DOMAIN list : list[i].expires > now =>
            \E j \in DOMAIN r : /\ r[j] = list[i]
                                /\ i \in Compared(list) => j \in Compared(r)
      /\ list # <<>> => Len(r) > 0 /\ r[Len(r)] = list[Len(list)]
  BY <1>2, PurgeOrdered, Zenon
<1>4. \A i \in DOMAIN r : \E j \in DOMAIN list : r[i] = list[j]
  BY <1>2, PurgeKeeps, Zenon
<1> HIDE DEF r
<1>5. \A i \in DOMAIN r : r[i].expires <= EntryOf(m).expires
  BY <1>4, AcceptedIsLatest
<1>6. /\ Ordered(a)
      /\ \A i \in DOMAIN r : i \in Compared(a) /\ a[i] = r[i]
      /\ Len(r) + 1 \in DOMAIN a /\ a[Len(r) + 1] = EntryOf(m)
  BY <1>2, <1>3, <1>5, AppendOrdered, Zenon
<1> HIDE DEF a
<1>7. Sorted'
  BY <1>1, <1>6 DEF Sorted, Ordered
<1>8. \A k \in Messages : k # m => times'[k] = times[k]
  BY <1>1, <1>2
<1>9. times'[m] = times[m] + 1
  BY <1>1, <1>2
<1>14. \A k \in Messages : times'[k] > 0 => Unwrapped(k)
  BY <1>8 DEF SInv, AcceptedUnwrapped
<1>10. ASSUME NEW k \in Messages, Unwrapped(k), k.until >= now,
              NEW i \in DOMAIN list, list[i] = EntryOf(k)
       PROVE  \E j \in Compared(a) : a[j] = EntryOf(k)
  <2>1. list[i].expires > now
    BY <1>2, <1>10, OpenIsUnexpired
  <2>2. PICK j \in DOMAIN r : r[j] = list[i]
    BY <1>3, <2>1
  <2> QED BY <1>6, <1>10, <2>2
<1>11. RemembersOpen'
  <2> SUFFICES ASSUME NEW k \in Messages, times'[k] > 0, k.until >= now
               PROVE  \E j \in DOMAIN a : a[j] = EntryOf(k)
    BY <1>1 DEF RemembersOpen, EntryOf, Nonce, Expiry
  <2>1. CASE k = m
    BY <2>1, <1>6
  <2>2. CASE k # m
    <3>1. PICK i \in DOMAIN list : list[i] = EntryOf(k)
      BY <1>8, <2>2 DEF SInv, RemembersOpen
    <3> QED BY <3>1, <1>10, <1>14 DEF Compared
  <2> QED BY <2>1, <2>2
<1>12. CopyCompared'
  <2> SUFFICES ASSUME NEW k \in Messages, times'[k] = 2, k.until >= now
               PROVE  \E j \in Compared(a) : a[j] = EntryOf(k)
    BY <1>1 DEF CopyCompared, EntryOf, Nonce, Expiry, Compared
  <2>1. \E i \in DOMAIN list : list[i] = EntryOf(k)
    <3>1. CASE k = m
      <4>1. times[m] = 1
        BY <3>1, <1>2, <1>9
      <4> QED BY <4>1, <3>1 DEF SInv, RemembersOpen
    <3>2. CASE k # m
      <4>1. times[k] = 2
        BY <3>2, <1>8
      <4> QED BY <4>1 DEF SInv, RemembersOpen
    <3> QED BY <3>1, <3>2
  <2>2. Unwrapped(k)
    BY <1>14
  <2> QED BY <2>1, <2>2, <1>10
<1>13. AtMostTwice'
  <2>1. times[m] \in {0, 1}
    BY AcceptedIsLatest
  <2>2. times'[m] <= 2
    BY <1>9, <2>1
  <2> QED BY <1>8, <2>2 DEF SInv, AtMostTwice
<1>15. AcceptedUnwrapped'
  BY <1>14 DEF AcceptedUnwrapped, Unwrapped, Expiry
<1> QED BY <1>7, <1>11, <1>12, <1>13, <1>15 DEF SInv

LEMMA SInvNext == ASSUME NoWrap PROVE SInv /\ [NextInOrder]_vars => SInv'
<1> SUFFICES ASSUME SInv, [NextInOrder]_vars PROVE SInv'
  OBVIOUS
<1>1. GInv'
  <2>1. [Next]_vars
    BY DEF NextInOrder, Next
  <2> QED BY <2>1, GInvNext DEF SInv
<1>2. ASSUME NEW m \in Messages, RefuseNonce(m) PROVE SInv'
  BY <1>1, <1>2, SInvRefuse
<1>3. ASSUME NEW m \in Messages, InOrder(m), Accept(m) PROVE SInv'
  BY <1>1, <1>3, NoneWraps, SInvAccept
<1>4. CASE Tick
  <2>1. list' = list /\ times' = times /\ now' = now + 1 /\ now \in Int
    BY <1>4, NumbersAssumption DEF Tick, SInv, GInv, TypeOK
  <2>2. \A m \in Messages : m.until >= now' => m.until >= now
    BY <2>1, MessagesAssumption
  <2> QED BY <1>1, <2>1, <2>2
    DEF SInv, AcceptedUnwrapped, Unwrapped, Sorted, RemembersOpen, AtMostTwice, CopyCompared,
        EntryOf, Nonce, Expiry, Compared
<1>5. CASE Restart
  BY <1>1, <1>5, EmptySeq
    DEF Restart, SInv, AcceptedUnwrapped, Unwrapped, Sorted, RemembersOpen, AtMostTwice, CopyCompared
<1>6. CASE UNCHANGED vars
  BY <1>1, <1>6
    DEF vars, SInv, AcceptedUnwrapped, Unwrapped, Sorted, RemembersOpen, AtMostTwice, CopyCompared,
        EntryOf, Nonce, Expiry, Compared
<1> QED
  BY <1>2, <1>3, <1>4, <1>5, <1>6 DEF NextInOrder, verifyTimestampsAndNonce, RefuseWindow

(* Deliveries in order keep the list sorted by expiry, as the name of      *)
(* addNonceSorted says.                                                    *)
THEOREM SortedInOrder == ASSUME NoWrap PROVE SpecInOrder => []Sorted
<1>1. SInv => Sorted
  BY DEF SInv
<1> QED BY <1>1, SInvInit, SInvNext, PTL DEF SpecInOrder

(* Deliveries in order: no purge of checkNonce drops the nonce of a command*)
(* whose window is still open.                                             *)
THEOREM OpenIsRemembered == ASSUME NoWrap PROVE SpecInOrder => []RemembersOpen
<1>1. SInv => RemembersOpen
  BY DEF SInv
<1> QED BY <1>1, SInvInit, SInvNext, PTL DEF SpecInOrder

(* Deliveries in order: between two boots verifyTimestampsAndNonce accepts *)
(* one command at most twice, however often it is delivered.               *)
THEOREM ExecutedAtMostTwice == ASSUME NoWrap PROVE SpecInOrder => []AtMostTwice
<1>1. SInv => AtMostTwice
  BY DEF SInv
<1> QED BY <1>1, SInvInit, SInvNext, PTL DEF SpecInOrder
=============================================================================
