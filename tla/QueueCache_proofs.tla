-------------------------- MODULE QueueCache_proofs --------------------------
(***************************************************************************)
(* Proofs about QueueCache for any names, requests, capacity and number of *)
(* Queue objects.  Inv adds to the checked invariants that an object is    *)
(* not both cached and evicted, that none is cached which was there when   *)
(* cleanCache began, and that nothing is closing when it is done.          *)
(*                                                                         *)
(* The refinement rests on RecentLast: the entries of the Map stand in the *)
(* order of the last uses of their names, so the first is the oldest.      *)
(***************************************************************************)
EXTENDS QueueCache, SequenceTheorems, FiniteSetTheorems, TLAPS

USE CacheAssumption

LEMMA RemoveAtFacts ==
  ASSUME NEW S, NEW s \in Seq(S), NEW i \in 1 .. Len(s)
  PROVE  /\ RemoveAt(s, i) \in Seq(S)
         /\ Len(RemoveAt(s, i)) = Len(s) - 1
         /\ \A j \in 1 .. Len(s) - 1 : RemoveAt(s, i)[j] = s[IF j < i THEN j ELSE j + 1]
<1> DEFINE a == SubSeq(s, 1, i - 1)
           b == SubSeq(s, i + 1, Len(s))
<1>0. Len(s) \in Nat /\ \A j \in 1 .. Len(s) : s[j] \in S
  BY LenProperties, ElementOfSeq
<1>1. /\ a \in Seq(S) /\ Len(a) = i - 1
      /\ \A j \in 1 .. i - 1 : a[j] = s[j]
  BY <1>0, SubSeqProperties
<1>2. /\ b \in Seq(S) /\ Len(b) = Len(s) - i
      /\ \A j \in 1 .. Len(s) - i : b[j] = s[j + i]
  BY <1>0, SubSeqProperties
<1>3. /\ a \o b \in Seq(S) /\ Len(a \o b) = Len(s) - 1
      /\ \A j \in 1 .. Len(s) - 1 : (a \o b)[j] = IF j <= i - 1 THEN a[j] ELSE b[j - (i - 1)]
  <2> HIDE DEF a, b
  <2>1. Len(a) + Len(b) = Len(s) - 1
    BY <1>0, <1>1, <1>2
  <2>2. /\ a \o b \in Seq(S) /\ Len(a \o b) = Len(a) + Len(b)
        /\ \A j \in 1 .. Len(a) + Len(b) : (a \o b)[j] = IF j <= Len(a) THEN a[j] ELSE b[j - Len(a)]
    BY <1>1, <1>2, ConcatProperties
  <2> QED BY <1>1, <2>1, <2>2
<1>4. \A j \in 1 .. Len(s) - 1 : (a \o b)[j] = s[IF j < i THEN j ELSE j + 1]
  <2> TAKE j \in 1 .. Len(s) - 1
  <2> HIDE DEF a, b
  <2>1. CASE j < i
    BY <1>0, <1>1, <1>3, <2>1
  <2>2. CASE ~(j < i)
    <3>1. j - (i - 1) \in 1 .. Len(s) - i /\ j - (i - 1) + i = j + 1
      BY <1>0, <2>2
    <3> QED BY <1>0, <1>2, <1>3, <2>2, <3>1
  <2> QED BY <2>1, <2>2
<1> QED BY <1>3, <1>4 DEF RemoveAt

-----------------------------------------------------------------------------
DistinctKeys(s) == \A i, j \in DOMAIN s : s[i].key = s[j].key => i = j

\* delete of a Map: its entry is gone and the others are left.
LEMMA WithoutFacts ==
  ASSUME NEW s \in Seq(Entry), DistinctKeys(s), NEW k \in Name
  PROVE  /\ Without(s, k) \in Seq(Entry)
         /\ DistinctKeys(Without(s, k))
         /\ \A i \in DOMAIN Without(s, k) : Without(s, k)[i].key # k
         /\ \A i \in DOMAIN Without(s, k) : \E j \in DOMAIN s : Without(s, k)[i] = s[j]
         /\ \A j \in DOMAIN s : s[j].key # k => \E i \in DOMAIN Without(s, k) : Without(s, k)[i] = s[j]
         /\ Len(Without(s, k)) <= Len(s)
         /\ (\E i \in DOMAIN s : s[i].key = k) => Len(Without(s, k)) < Len(s)
<1> DEFINE w == Without(s, k)
<1>0. Len(s) \in Nat /\ DOMAIN s = 1 .. Len(s)
  BY LenProperties
<1>1. CASE ~ \E i \in DOMAIN s : s[i].key = k
  BY <1>0, <1>1 DEF Without
<1>2. CASE \E i \in DOMAIN s : s[i].key = k
  <2> DEFINE c == CHOOSE i \in DOMAIN s : s[i].key = k
  <2>1. c \in 1 .. Len(s) /\ s[c].key = k /\ w = RemoveAt(s, c)
    BY <1>0, <1>2 DEF Without
  <2> HIDE DEF c, w
  <2>2. /\ w \in Seq(Entry) /\ Len(w) = Len(s) - 1
        /\ \A j \in 1 .. Len(s) - 1 : w[j] = s[IF j < c THEN j ELSE j + 1]
    BY <2>1, RemoveAtFacts
  <2>3. DOMAIN w = 1 .. Len(s) - 1
    BY <2>2, LenProperties
  <2>4. \A i \in DOMAIN w : \E j \in DOMAIN s : w[i] = s[j] /\ j # c
    <3> TAKE i \in DOMAIN w
    <3>1. (IF i < c THEN i ELSE i + 1) \in DOMAIN s \ {c}
      BY <1>0, <2>1, <2>3
    <3> QED BY <2>2, <2>3, <3>1
  <2>5. \A i \in DOMAIN w : w[i].key # k
    BY <1>0, <2>1, <2>4 DEF DistinctKeys
  <2>6. DistinctKeys(w)
    <3> SUFFICES ASSUME NEW i \in DOMAIN w, NEW j \in DOMAIN w, w[i].key = w[j].key PROVE i = j
      BY DEF DistinctKeys
    <3>1. /\ (IF i < c THEN i ELSE i + 1) \in DOMAIN s
          /\ (IF j < c THEN j ELSE j + 1) \in DOMAIN s
      BY <1>0, <2>1, <2>3
    <3>2. (IF i < c THEN i ELSE i + 1) = (IF j < c THEN j ELSE j + 1)
      BY <2>2, <2>3, <3>1 DEF DistinctKeys
    <3> QED BY <1>0, <2>1, <2>3, <3>2
  <2>7. \A j \in DOMAIN s : s[j].key # k => \E i \in DOMAIN w : w[i] = s[j]
    <3> SUFFICES ASSUME NEW j \in DOMAIN s, s[j].key # k PROVE \E i \in DOMAIN w : w[i] = s[j]
      OBVIOUS
    <3>1. j # c
      BY <2>1
    <3> DEFINE i == IF j < c THEN j ELSE j - 1
    <3>2. i \in DOMAIN w /\ (IF i < c THEN i ELSE i + 1) = j
      BY <1>0, <2>1, <2>3, <3>1
    <3> QED BY <2>2, <2>3, <3>2
  <2> QED BY <1>0, <2>2, <2>4, <2>5, <2>6, <2>7 DEF w
<1> QED BY <1>1, <1>2

LEMMA EvictFacts ==
  ASSUME NEW s \in Seq(Entry), DistinctKeys(s)
  PROVE  /\ Evict(s) \in Seq(Entry)
         /\ DistinctKeys(Evict(s))
         /\ \A i \in DOMAIN Evict(s) : \E j \in DOMAIN s : Evict(s)[i] = s[j]
         /\ Capacity > 0 /\ Len(s) <= Capacity => Len(Evict(s)) < Capacity
<1>0. Len(s) \in Nat /\ DOMAIN s = 1 .. Len(s)
  BY LenProperties
<1>1. CASE Len(s) = Capacity /\ s # <<>>
  <2>1. /\ Tail(s) \in Seq(Entry) /\ Len(Tail(s)) = Len(s) - 1
        /\ \A i \in 1 .. Len(Tail(s)) : Tail(s)[i] = s[i + 1]
    BY <1>1, HeadTailProperties
  <2>2. DOMAIN Tail(s) = 1 .. Len(s) - 1
    BY <2>1, LenProperties
  <2>3. \A i \in DOMAIN Tail(s) : i + 1 \in DOMAIN s /\ Tail(s)[i] = s[i + 1]
    BY <1>0, <2>1, <2>2
  <2>4. DistinctKeys(Tail(s))
    <3> SUFFICES ASSUME NEW i \in DOMAIN Tail(s), NEW j \in DOMAIN Tail(s),
                        Tail(s)[i].key = Tail(s)[j].key
                 PROVE  i = j
      BY DEF DistinctKeys
    <3>1. i + 1 = j + 1
      BY <2>3 DEF DistinctKeys
    <3> QED BY <2>2, <3>1
  <2> QED BY <1>0, <1>1, <2>1, <2>3, <2>4 DEF Evict
<1>2. CASE ~(Len(s) = Capacity /\ s # <<>>)
  <2>1. Evict(s) = s
    BY <1>2 DEF Evict
  <2>2. s = <<>> => Len(s) = 0
    OBVIOUS
  <2>3. Capacity > 0 /\ Len(s) <= Capacity => Len(s) < Capacity
    <3>1. CASE s = <<>>
      BY <2>2, <3>1
    <3>2. CASE Len(s) # Capacity
      <4>1. Len(s) \in Nat /\ Capacity \in Nat /\ Len(s) # Capacity
        BY <1>0, <3>2, CacheAssumption
      <4>2. \A a, b \in Nat : a # b /\ a <= b => a < b
        OBVIOUS
      <4> QED BY <4>1, <4>2
    <3> QED BY <1>2, <3>1, <3>2
  <2>4. \A i \in DOMAIN s : \E j \in DOMAIN s : s[i] = s[j]
    OBVIOUS
  <2> QED BY <2>1, <2>3, <2>4
<1> QED BY <1>1, <1>2

LEMMA AppendFacts ==
  ASSUME NEW s \in Seq(Entry), DistinctKeys(s), NEW e \in Entry,
         \A i \in DOMAIN s : s[i].key # e.key
  PROVE  /\ Append(s, e) \in Seq(Entry)
         /\ DistinctKeys(Append(s, e))
         /\ Len(Append(s, e)) = Len(s) + 1
         /\ Values(Append(s, e)) = Values(s) \cup {e.value}
<1>1. /\ Append(s, e) \in Seq(Entry) /\ Len(Append(s, e)) = Len(s) + 1
      /\ \A i \in 1 .. Len(s) : Append(s, e)[i] = s[i]
      /\ Append(s, e)[Len(s) + 1] = e
  BY AppendProperties
<1>2. /\ Len(s) \in Nat /\ DOMAIN s = 1 .. Len(s)
      /\ DOMAIN Append(s, e) = 1 .. Len(s) + 1
  BY <1>1, LenProperties
<1> DEFINE t == Append(s, e)
<1> HIDE DEF t
<1>3. DistinctKeys(t)
  BY <1>1, <1>2 DEF DistinctKeys, t
<1>4. \A i \in DOMAIN t : t[i] = e \/ \E j \in DOMAIN s : t[i] = s[j]
  BY <1>1, <1>2 DEF t
<1>5. /\ \A j \in DOMAIN s : \E i \in DOMAIN t : t[i] = s[j]
      /\ \E i \in DOMAIN t : t[i] = e
  BY <1>1, <1>2 DEF t
<1>6. Values(t) = Values(s) \cup {e.value}
  BY <1>4, <1>5 DEF Values
<1> QED BY <1>1, <1>3, <1>6 DEF t

\* RemoveAt keeps the order of what it leaves.
LEMMA RemoveAtOrder ==
  ASSUME NEW S, NEW s \in Seq(S), NEW c \in 1 .. Len(s)
  PROVE  /\ \A i, j \in DOMAIN RemoveAt(s, c) : i < j =>
              \E a, b \in DOMAIN s \ {c} :
                a < b /\ RemoveAt(s, c)[i] = s[a] /\ RemoveAt(s, c)[j] = s[b]
         /\ \A a, b \in DOMAIN s \ {c} : a < b =>
              \E i, j \in DOMAIN RemoveAt(s, c) :
                i < j /\ RemoveAt(s, c)[i] = s[a] /\ RemoveAt(s, c)[j] = s[b]
         /\ \A i \in DOMAIN RemoveAt(s, c) : \E a \in DOMAIN s \ {c} : RemoveAt(s, c)[i] = s[a]
         /\ \A a \in DOMAIN s \ {c} : \E i \in DOMAIN RemoveAt(s, c) : RemoveAt(s, c)[i] = s[a]
<1> DEFINE r == RemoveAt(s, c)
           old(j) == IF j < c THEN j ELSE j + 1
           new(a) == IF a < c THEN a ELSE a - 1
<1>0. Len(s) \in Nat /\ DOMAIN s = 1 .. Len(s)
  BY LenProperties
<1>1. /\ r \in Seq(S) /\ Len(r) = Len(s) - 1
      /\ \A j \in 1 .. Len(s) - 1 : r[j] = s[old(j)]
  BY RemoveAtFacts
<1>2. DOMAIN r = 1 .. Len(s) - 1
  BY <1>1, LenProperties
<1> HIDE DEF r
<1>3. \A j \in DOMAIN r : old(j) \in DOMAIN s \ {c} /\ r[j] = s[old(j)]
  BY <1>0, <1>1, <1>2
<1>4. \A i, j \in DOMAIN r : i < j => old(i) < old(j)
  BY <1>0, <1>2
<1>5. \A a \in DOMAIN s \ {c} : new(a) \in DOMAIN r /\ old(new(a)) = a
  BY <1>0, <1>2
<1>6. \A a, b \in DOMAIN s \ {c} : a < b => new(a) < new(b)
  BY <1>0
<1> HIDE DEF old, new
<1>7. \A a \in DOMAIN s \ {c} : r[new(a)] = s[a]
  BY <1>3, <1>5
<1> QED BY <1>3, <1>4, <1>5, <1>6, <1>7 DEF r

InUsed(k) == \E p \in DOMAIN used : used[p] = k
DistinctUsed == \A p, q \in DOMAIN used : used[p] = used[q] => p = q

\* getQueue makes its name the last one and keeps the order of the others.
LEMMA UsedFacts ==
  ASSUME used \in Seq(Name), DistinctUsed, NEW n \in Name, Used(n)
  PROVE  /\ DistinctUsed'
         /\ \A k : InUsed(k)' <=> InUsed(k) \/ k = n
         /\ \A j, k : Earlier(j, k)' <=> \/ j # n /\ k # n /\ Earlier(j, k)
                                         \/ j # n /\ k = n /\ InUsed(j)
<1> DEFINE c == CHOOSE i \in DOMAIN used : used[i] = n
           w == IF n \in Range(used) THEN RemoveAt(used, c) ELSE used
<1>0. used' = Append(w, n)
  BY DEF Used
<1>1. /\ w \in Seq(Name)
      /\ \A i \in DOMAIN w : w[i] # n
      /\ \A i, j \in DOMAIN w : w[i] = w[j] => i = j
      /\ \A k : (\E i \in DOMAIN w : w[i] = k) <=> InUsed(k) /\ k # n
      /\ \A j, k : (\E a, b \in DOMAIN w : a < b /\ w[a] = j /\ w[b] = k)
                     <=> j # n /\ k # n /\ Earlier(j, k)
  <2>1. CASE n \notin Range(used)
    <3>1. w = used /\ \A p \in DOMAIN used : used[p] # n
      BY <2>1 DEF Range
    <3> HIDE DEF w
    <3> QED BY <3>1 DEF InUsed, Earlier, DistinctUsed
  <2>2. CASE n \in Range(used)
    <3>1. c \in DOMAIN used /\ used[c] = n /\ w = RemoveAt(used, c)
      BY <2>2 DEF Range
    <3> HIDE DEF c, w
    <3>2. c \in 1 .. Len(used)
      BY <3>1, LenProperties
    <3>3. /\ \A i, j \in DOMAIN w : i < j =>
               \E a, b \in DOMAIN used \ {c} : a < b /\ w[i] = used[a] /\ w[j] = used[b]
          /\ \A a, b \in DOMAIN used \ {c} : a < b =>
               \E i, j \in DOMAIN w : i < j /\ w[i] = used[a] /\ w[j] = used[b]
          /\ \A i \in DOMAIN w : \E a \in DOMAIN used \ {c} : w[i] = used[a]
          /\ \A a \in DOMAIN used \ {c} : \E i \in DOMAIN w : w[i] = used[a]
      BY <3>1, <3>2, RemoveAtOrder
    <3>4. w \in Seq(Name) /\ DOMAIN w \subseteq Nat
      <4>1. w \in Seq(Name)
        BY <3>1, <3>2, RemoveAtFacts
      <4> QED BY <4>1, LenProperties
    <3>5. \A a \in DOMAIN used : a = c <=> used[a] = n
      BY <3>1 DEF DistinctUsed
    <3>6. \A i, j \in DOMAIN w : w[i] = w[j] => i = j
      <4> SUFFICES ASSUME NEW i \in DOMAIN w, NEW j \in DOMAIN w, i < j, w[i] = w[j] PROVE FALSE
        BY <3>4
      <4>1. PICK a \in DOMAIN used, b \in DOMAIN used : a < b /\ w[i] = used[a] /\ w[j] = used[b]
        BY <3>3
      <4>2. a \in Nat /\ b \in Nat
        BY LenProperties
      <4>3. used[a] = used[b]
        BY <4>1
      <4>4. a = b
        BY <4>3 DEF DistinctUsed
      <4> QED BY <4>1, <4>2, <4>4
    <3>7. \A k : (\E i \in DOMAIN w : w[i] = k) <=> InUsed(k) /\ k # n
      BY <3>3, <3>5 DEF InUsed
    <3>8. \A j, k : (\E a, b \in DOMAIN w : a < b /\ w[a] = j /\ w[b] = k)
                      <=> j # n /\ k # n /\ Earlier(j, k)
      <4> TAKE j, k
      <4>1. ASSUME NEW a \in DOMAIN w, NEW b \in DOMAIN w, a < b, w[a] = j, w[b] = k
            PROVE  j # n /\ k # n /\ Earlier(j, k)
        <5>1. PICK x \in DOMAIN used \ {c}, y \in DOMAIN used \ {c} :
                x < y /\ w[a] = used[x] /\ w[b] = used[y]
          BY <3>3, <4>1
        <5> QED BY <3>5, <4>1, <5>1 DEF Earlier
      <4>2. ASSUME j # n, k # n, Earlier(j, k)
            PROVE  \E a, b \in DOMAIN w : a < b /\ w[a] = j /\ w[b] = k
        <5>1. PICK x \in DOMAIN used, y \in DOMAIN used : x < y /\ used[x] = j /\ used[y] = k
          BY <4>2 DEF Earlier
        <5>2. x # c /\ y # c
          BY <3>5, <4>2, <5>1
        <5> QED BY <3>3, <5>1, <5>2
      <4> QED BY <4>1, <4>2
    <3> QED BY <3>3, <3>4, <3>5, <3>6, <3>7, <3>8
  <2> QED BY <2>1, <2>2
<1> HIDE DEF w
<1>2. /\ Len(w) \in Nat /\ DOMAIN w = 1 .. Len(w)
      /\ DOMAIN used' = 1 .. Len(w) + 1
      /\ \A i \in 1 .. Len(w) : used'[i] = w[i]
      /\ used'[Len(w) + 1] = n
  BY <1>0, <1>1, AppendProperties, LenProperties
<1>3. DistinctUsed'
  BY <1>1, <1>2 DEF DistinctUsed
<1>4. \A k : InUsed(k)' <=> InUsed(k) \/ k = n
  <2>1. \A k : InUsed(k)' <=> (\E i \in DOMAIN w : w[i] = k) \/ k = n
    BY <1>2 DEF InUsed
  <2> QED BY <1>1, <2>1
<1>5. \A j, k : Earlier(j, k)' <=> \/ \E a, b \in DOMAIN w : a < b /\ w[a] = j /\ w[b] = k
                                   \/ k = n /\ \E a \in DOMAIN w : w[a] = j
  <2> TAKE j, k
  <2>1. ASSUME NEW a \in DOMAIN w, NEW b \in DOMAIN w, a < b, w[a] = j, w[b] = k
        PROVE  Earlier(j, k)'
    BY <1>2, <2>1 DEF Earlier
  <2>2. ASSUME NEW a \in DOMAIN w, w[a] = j, k = n PROVE Earlier(j, k)'
    <3>1. a < Len(w) + 1 /\ a \in DOMAIN used' /\ Len(w) + 1 \in DOMAIN used'
      BY <1>2
    <3> QED BY <1>2, <2>2, <3>1 DEF Earlier
  <2>3. ASSUME Earlier(j, k)'
        PROVE  \/ \E a, b \in DOMAIN w : a < b /\ w[a] = j /\ w[b] = k
               \/ k = n /\ \E a \in DOMAIN w : w[a] = j
    <3>1. PICK p \in DOMAIN used', q \in DOMAIN used' : p < q /\ used'[p] = j /\ used'[q] = k
      BY <2>3 DEF Earlier
    <3>2. p \in DOMAIN w /\ used'[p] = w[p]
      BY <1>2, <3>1
    <3>3. CASE q = Len(w) + 1
      BY <1>2, <3>1, <3>2, <3>3
    <3>4. CASE q \in DOMAIN w
      BY <1>2, <3>1, <3>2, <3>4
    <3> QED BY <1>2, <3>3, <3>4
  <2> QED BY <2>1, <2>2, <2>3
<1> QED BY <1>1, <1>3, <1>4, <1>5

LEMMA UsedInv ==
  ASSUME used \in Seq(Name), NEW n \in Name, Used(n)
  PROVE  used' \in Seq(Name)
<1>1. CASE n \in Range(used)
  <2> DEFINE c == CHOOSE i \in DOMAIN used : used[i] = n
  <2>1. c \in 1 .. Len(used)
    BY <1>1, LenProperties DEF Range
  <2> HIDE DEF c
  <2>2. RemoveAt(used, c) \in Seq(Name)
    BY <2>1, RemoveAtFacts
  <2> QED BY <1>1, <2>2, AppendProperties DEF Used, c
<1>2. CASE n \notin Range(used)
  BY <1>2, AppendProperties DEF Used
<1> QED BY <1>1, <1>2

-----------------------------------------------------------------------------
Strong ==
  /\ Values(cache) \subseteq 1 .. made
  /\ evicted \cap Values(cache) = {}
  /\ \A o \in Object : o > made => state[o] = "open"
  /\ cleaning # "no" => \A o \in Values(cache) : o > before
  /\ cleaning = "done" => \A o \in Object : state[o] # "closing"

Inv == TypeOK /\ Bounded /\ CachedQueuesAreOpen /\ QueuesAccounted /\ Strong

\* The initial state satisfies the invariant.
LEMMA InitInv == Init => Inv
<1> SUFFICES ASSUME Init PROVE Inv OBVIOUS
<1>1. cache \in Seq(Entry) /\ used \in Seq(Name) /\ Len(cache) = 0 /\ DOMAIN cache = {}
  BY EmptySeq DEF Init
<1>2. TypeOK
  BY <1>1 DEF Init, TypeOK, Object
<1>3. Values(cache) = {} /\ Entries = {}
  BY <1>1 DEF Values, Entries
<1> QED BY <1>1, <1>2, <1>3 DEF Init, Inv, Bounded, CachedQueuesAreOpen, QueuesAccounted, Strong,
        Object

\* What the cached values are, in terms of entries.
LEMMA OpenCached ==
  ASSUME cache \in Seq(Entry)
  PROVE  CachedQueuesAreOpen <=> \A o \in Values(cache) : state[o] = "open"
BY DEF CachedQueuesAreOpen, Entries, Values

LEMMA GetHitInv ==
  ASSUME Inv, NEW r \in Request, NEW e \in Entries, GetHit(r, e)
  PROVE  Inv'
<1>0. /\ cache \in Seq(Entry) /\ DistinctKeys(cache) /\ used \in Seq(Name)
      /\ Len(cache) \in Nat /\ Capacity > 0 => Len(cache) <= Capacity
  BY LenProperties DEF Inv, TypeOK, Bounded, DistinctKeys
<1>1. PICK c \in DOMAIN cache : cache[c] = e
  BY DEF Entries
<1>2. e \in Entry /\ e.key \in Name /\ e.value \in Object
  <2>1. c \in 1 .. Len(cache)
    BY <1>0, <1>1, LenProperties
  <2>2. cache[c] \in Entry
    BY <1>0, <2>1, ElementOfSeq
  <2> QED BY <1>1, <2>2 DEF Entry
<1> DEFINE w == Without(cache, e.key)
<1>3. /\ w \in Seq(Entry) /\ DistinctKeys(w)
      /\ \A i \in DOMAIN w : w[i].key # e.key
      /\ \A i \in DOMAIN w : \E j \in DOMAIN cache : w[i] = cache[j]
      /\ \A j \in DOMAIN cache : cache[j].key # e.key => \E i \in DOMAIN w : w[i] = cache[j]
      /\ Len(w) < Len(cache)
  BY <1>0, <1>1, <1>2, WithoutFacts
<1> HIDE DEF w
<1>4. Values(w) \cup {e.value} = Values(cache)
  <2>1. \A j \in DOMAIN cache : cache[j].key = e.key => cache[j] = e
    BY <1>0, <1>1 DEF DistinctKeys
  <2> QED BY <1>1, <1>3, <2>1 DEF Values
<1>5. /\ cache' \in Seq(Entry) /\ DistinctKeys(cache)' /\ Len(cache') = Len(w) + 1
      /\ Values(cache)' = Values(cache)
  BY <1>2, <1>3, <1>4, AppendFacts DEF GetHit, Get, w
<1>6. Len(w) \in Nat
  BY <1>3, LenProperties
<1>7. used' \in Seq(Name)
  BY <1>0, <1>2, UsedInv DEF GetHit
<1>8. TypeOK'
  BY <1>2, <1>5, <1>7 DEF GetHit, Inv, TypeOK
<1>9. Bounded'
  BY <1>0, <1>3, <1>5, <1>6 DEF Bounded, DistinctKeys
<1>10. CachedQueuesAreOpen'
  <2>1. \A o \in Values(cache) : state[o] = "open"
    BY <1>0, OpenCached DEF Inv
  <2>2. \A o \in Values(cache)' : state'[o] = "open"
    BY <1>5, <2>1 DEF GetHit
  <2> QED BY <2>2 DEF CachedQueuesAreOpen, Entries, Values
<1>11. QueuesAccounted' /\ Strong'
  BY <1>5 DEF GetHit, Inv, QueuesAccounted, Strong
<1> QED BY <1>8, <1>9, <1>10, <1>11 DEF Inv

LEMMA GetMissInv ==
  ASSUME Inv, NEW r \in Request, NEW n \in Name, GetMiss(r, n), cleaning # "done"
  PROVE  Inv'
<1>0. /\ cache \in Seq(Entry) /\ DistinctKeys(cache) /\ used \in Seq(Name)
      /\ Len(cache) \in Nat /\ Capacity > 0 => Len(cache) <= Capacity
      /\ made \in Nat /\ made <= MaxMade /\ before <= made /\ before \in Nat
  BY LenProperties DEF Inv, TypeOK, Bounded, DistinctKeys
<1> DEFINE e == [key |-> n, value |-> made']
           w == Without(cache, n)
<1>1. made' = made + 1 /\ made' \in Object /\ e \in Entry /\ e.key = n /\ e.value = made'
  BY <1>0 DEF GetMiss, Object, Entry
<1>2. /\ w \in Seq(Entry) /\ DistinctKeys(w)
      /\ \A i \in DOMAIN w : w[i].key # n
      /\ \A i \in DOMAIN w : \E j \in DOMAIN cache : w[i] = cache[j]
      /\ Len(w) <= Len(cache) /\ Len(w) \in Nat
  BY <1>0, WithoutFacts, LenProperties
<1> HIDE DEF w
<1> DEFINE v == Evict(w)
<1>3. /\ v \in Seq(Entry) /\ DistinctKeys(v)
      /\ \A i \in DOMAIN v : \E j \in DOMAIN w : v[i] = w[j]
      /\ Capacity > 0 /\ Len(w) <= Capacity => Len(v) < Capacity
  BY <1>2, EvictFacts
<1>4. Len(v) \in Nat /\ \A i \in DOMAIN v : v[i].key # n /\ v[i].value \in Values(cache)
  BY <1>2, <1>3, LenProperties DEF Values
<1> HIDE DEF v
<1>5. cache' = Append(v, e)
  BY DEF GetMiss, Put, v, w
<1> HIDE DEF e
<1>6. /\ cache' \in Seq(Entry) /\ DistinctKeys(cache)' /\ Len(cache') = Len(v) + 1
      /\ Values(cache)' = Values(v) \cup {made'}
  BY <1>1, <1>3, <1>4, <1>5, AppendFacts
<1>7. Values(cache)' \subseteq Values(cache) \cup {made'} /\ made' \in Values(cache)'
  BY <1>4, <1>6 DEF Values
<1>8. evicted' = evicted \cup (Values(cache) \ Values(cache)')
  BY DEF GetMiss, Values
<1>9. used' \in Seq(Name)
  BY <1>0, UsedInv DEF GetMiss
<1>10. /\ Values(cache) \subseteq 1 .. made /\ evicted \subseteq 1 .. made
       /\ evicted \cap Values(cache) = {} /\ made' \notin 1 .. made /\ 1 .. made' = (1 .. made) \cup {made'}
  BY <1>0, <1>1 DEF Inv, TypeOK, Strong
<1>11. TypeOK'
  <2>1. evicted' \subseteq 1 .. made'
    <3>1. evicted' \subseteq evicted \cup Values(cache)
      BY <1>8
    <3> QED BY <1>10, <3>1
  <2>2. made' \in 0 .. MaxMade /\ before' \in 0 .. made'
    BY <1>0, <1>1 DEF GetMiss, Object
  <2>3. using' \in [Request -> Object \cup {NoQueue}]
    BY <1>1 DEF GetMiss, Inv, TypeOK
  <2> QED BY <1>6, <1>9, <2>1, <2>2, <2>3 DEF GetMiss, Inv, TypeOK
<1>12. Bounded'
  BY <1>0, <1>2, <1>3, <1>4, <1>6 DEF Bounded, DistinctKeys
<1>13. \A o \in Values(cache) : state[o] = "open"
  BY <1>0, OpenCached DEF Inv
<1>14. state[made'] = "open" /\ state' = state
  BY <1>0, <1>1 DEF GetMiss, Inv, Strong
<1>15. CachedQueuesAreOpen'
  <2>1. \A o \in Values(cache)' : state'[o] = "open"
    BY <1>7, <1>13, <1>14
  <2> QED BY <2>1 DEF CachedQueuesAreOpen, Entries, Values
<1>16. QueuesAccounted'
  <2>1. \A o \in 1 .. made' : state'[o] = "open" <=> o \in Values(cache)' \cup evicted'
    BY <1>7, <1>8, <1>10, <1>14 DEF Inv, QueuesAccounted
  <2>2. cleaning' # "done"
    BY DEF GetMiss
  <2> QED BY <2>1, <2>2 DEF QueuesAccounted
<1>17. Strong'
  <2>1. /\ Values(cache)' \subseteq 1 .. made' /\ evicted' \cap Values(cache)' = {}
    BY <1>7, <1>8, <1>10
  <2>2. \A o \in Object : o > made' => state'[o] = "open"
    BY <1>0, <1>1, <1>14 DEF Inv, Strong, Object
  <2>3. cleaning' # "no" => \A o \in Values(cache)' : o > before'
    BY <1>0, <1>1, <1>7 DEF GetMiss, Inv, Strong
  <2> QED BY <2>1, <2>2, <2>3 DEF GetMiss, Strong
<1> QED BY <1>11, <1>12, <1>15, <1>16, <1>17 DEF Inv

LEMMA RespondInv ==
  ASSUME Inv, NEW r \in Request, Respond(r)
  PROVE  Inv'
<1>1. UNCHANGED <<cache, made, state, cleaning, before, evicted, used>>
  BY DEF Respond
<1>2. using' \in [Request -> Object \cup {NoQueue}]
  BY DEF Respond, Inv, TypeOK
<1>3. TypeOK'
  BY <1>1, <1>2 DEF Inv, TypeOK
<1>4. Values(cache)' = Values(cache) /\ Entries' = Entries
  BY <1>1 DEF Values, Entries
<1>5. Bounded' /\ CachedQueuesAreOpen'
  BY <1>1, <1>4 DEF Inv, Bounded, CachedQueuesAreOpen
<1>6. QueuesAccounted' /\ Strong'
  BY <1>1, <1>4 DEF Inv, QueuesAccounted, Strong
<1> QED BY <1>3, <1>5, <1>6 DEF Inv

LEMMA CleanInv ==
  ASSUME Inv, Clean
  PROVE  Inv'
<1>1. cache' = <<>> /\ cache' \in Seq(Entry) /\ Len(cache') = 0 /\ DOMAIN cache' = {}
  BY EmptySeq DEF Clean, RemoveAll
<1>2. Values(cache)' = {} /\ Entries' = {}
  BY <1>1 DEF Values, Entries
<1>3. TypeOK'
  BY <1>1 DEF Clean, Inv, TypeOK
<1>4. Bounded' /\ CachedQueuesAreOpen'
  BY <1>1, <1>2 DEF Bounded, CachedQueuesAreOpen
<1>5. 1 .. made \subseteq Object
  BY DEF Inv, TypeOK, Object
<1>6. QueuesAccounted'
  BY <1>2, <1>5 DEF Clean, Removed, Inv, TypeOK, QueuesAccounted, Strong
<1>7. Strong'
  <2>1. \A o \in Object : o > made => o \notin Values(cache)
    BY DEF Inv, TypeOK, Strong
  <2> QED BY <1>2, <2>1 DEF Clean, Removed, Inv, TypeOK, Strong
<1> QED BY <1>3, <1>4, <1>6, <1>7 DEF Inv

LEMMA QueueClosedInv ==
  ASSUME Inv, NEW o \in Object, QueueClosed(o), cleaning # "done"
  PROVE  Inv'
<1>1. TypeOK' /\ Bounded'
  BY DEF QueueClosed, Inv, TypeOK, Bounded
<1>2. CachedQueuesAreOpen'
  BY DEF QueueClosed, Inv, TypeOK, CachedQueuesAreOpen, Entries
<1>3. 1 .. made \subseteq Object
  BY DEF Inv, TypeOK, Object
<1>4. QueuesAccounted' /\ Strong'
  BY <1>3 DEF QueueClosed, Inv, TypeOK, QueuesAccounted, Strong, Values
<1> QED BY <1>1, <1>2, <1>4 DEF Inv

LEMMA CleanDoneInv ==
  ASSUME Inv, CleanDone
  PROVE  Inv'
<1>1. TypeOK' /\ Bounded' /\ CachedQueuesAreOpen'
  BY DEF CleanDone, Inv, TypeOK, Bounded, CachedQueuesAreOpen, Entries
<1>2. 1 .. made \subseteq Object
  BY DEF Inv, TypeOK, Object
<1>3. \A o \in 1 .. made : state[o] = "closed" \/ o \in evicted \/ o > before
  BY <1>2 DEF CleanDone, Inv, TypeOK, QueuesAccounted, Strong
<1>4. QueuesAccounted' /\ Strong'
  BY <1>3 DEF CleanDone, Inv, QueuesAccounted, Strong, Values
<1> QED BY <1>1, <1>4 DEF Inv

-----------------------------------------------------------------------------
LEMMA StutterInv == Inv /\ UNCHANGED vars => Inv'
BY DEF Inv, TypeOK, Bounded, CachedQueuesAreOpen, Entries, QueuesAccounted, Strong, Values, vars

LEMMA NextInv == Inv /\ [Next]_vars => Inv'
BY GetHitInv, GetMissInv, RespondInv, CleanInv, QueueClosedInv, CleanDoneInv, StutterInv DEF Next

\* The inductive invariant.
LEMMA Invariance == Spec => []Inv
BY InitInv, NextInv, PTL DEF Spec

(* The order of the Map.                                                    *)

\* s without its entry of k, and what Evict leaves, are subsequences.
LEMMA WithoutOrder ==
  ASSUME NEW s \in Seq(Entry), NEW k \in Name
  PROVE  \A i, j \in DOMAIN Without(s, k) : i < j =>
           \E a, b \in DOMAIN s :
             a < b /\ Without(s, k)[i] = s[a] /\ Without(s, k)[j] = s[b]
<1>1. CASE ~ \E i \in DOMAIN s : s[i].key = k
  BY <1>1 DEF Without
<1>2. CASE \E i \in DOMAIN s : s[i].key = k
  <2> DEFINE c == CHOOSE i \in DOMAIN s : s[i].key = k
  <2>1. c \in 1 .. Len(s) /\ Without(s, k) = RemoveAt(s, c)
    BY <1>2, LenProperties DEF Without
  <2> HIDE DEF c
  <2> QED BY <2>1, RemoveAtOrder
<1> QED BY <1>1, <1>2

LEMMA EvictOrder ==
  ASSUME NEW s \in Seq(Entry)
  PROVE  \A i, j \in DOMAIN Evict(s) : i < j =>
           \E a, b \in DOMAIN s : a < b /\ Evict(s)[i] = s[a] /\ Evict(s)[j] = s[b]
<1>1. CASE Len(s) = Capacity /\ s # <<>>
  <2>1. /\ Tail(s) \in Seq(Entry) /\ Len(Tail(s)) = Len(s) - 1
        /\ \A i \in 1 .. Len(Tail(s)) : Tail(s)[i] = s[i + 1]
    BY <1>1, HeadTailProperties
  <2>2. /\ DOMAIN Tail(s) = 1 .. Len(s) - 1 /\ DOMAIN s = 1 .. Len(s) /\ Len(s) \in Nat
    BY <2>1, LenProperties
  <2>3. \A i, j \in DOMAIN Tail(s) : i < j =>
          /\ i + 1 \in DOMAIN s /\ j + 1 \in DOMAIN s /\ i + 1 < j + 1
          /\ Tail(s)[i] = s[i + 1] /\ Tail(s)[j] = s[j + 1]
    BY <2>1, <2>2
  <2> QED BY <1>1, <2>3 DEF Evict
<1>2. CASE ~(Len(s) = Capacity /\ s # <<>>)
  BY <1>2 DEF Evict
<1> QED BY <1>1, <1>2

\* An entry that is put at the end after getQueue was called with its name.
LEMMA PutLast ==
  ASSUME used \in Seq(Name), RecentLast, NEW n \in Name, Used(n),
         NEW v \in Seq(Entry), NEW e \in Entry, e.key = n, cache' = Append(v, e),
         \A i \in DOMAIN v : v[i].key # n /\ \E a \in DOMAIN cache : v[i] = cache[a],
         \A i, j \in DOMAIN v : i < j =>
           \E a, b \in DOMAIN cache : a < b /\ v[i] = cache[a] /\ v[j] = cache[b]
  PROVE  RecentLast'
<1>1. DistinctUsed /\ \A i \in DOMAIN cache : InUsed(cache[i].key)
  BY DEF RecentLast, DistinctUsed, InUsed
<1>2. /\ DistinctUsed'
      /\ \A k : InUsed(k)' <=> InUsed(k) \/ k = n
      /\ \A j, k : Earlier(j, k)' <=> \/ j # n /\ k # n /\ Earlier(j, k)
                                      \/ j # n /\ k = n /\ InUsed(j)
  BY <1>1, UsedFacts
<1>3. /\ Len(v) \in Nat /\ DOMAIN v = 1 .. Len(v) /\ DOMAIN cache' = 1 .. Len(v) + 1
      /\ \A i \in DOMAIN v : cache'[i] = v[i]
      /\ cache'[Len(v) + 1] = e
  BY AppendProperties, LenProperties
<1>4. ASSUME NEW i \in DOMAIN cache' PROVE InUsed(cache[i].key)'
  <2>1. CASE i = Len(v) + 1
    <3>1. cache'[i].key = n
      BY <1>3, <2>1
    <3>2. \A k : k = n => InUsed(k)'
      BY <1>2
    <3> QED BY <3>1, <3>2
  <2>2. CASE i \in DOMAIN v
    <3>1. InUsed(cache'[i].key)
      BY <1>1, <1>3, <2>2
    <3>2. \A k : InUsed(k) => InUsed(k)'
      BY <1>2
    <3> QED BY <3>1, <3>2
  <2> QED BY <1>3, <2>1, <2>2
<1>5. ASSUME NEW i \in DOMAIN cache', NEW j \in DOMAIN cache', i < j
      PROVE  Earlier(cache[i].key, cache[j].key)'
  <2>1. i \in DOMAIN v /\ cache'[i] = v[i]
    BY <1>3, <1>5
  <2>2. CASE j = Len(v) + 1
    BY <1>1, <1>2, <1>3, <2>1, <2>2
  <2>3. CASE j \in DOMAIN v
    <3>1. PICK a \in DOMAIN cache, b \in DOMAIN cache :
            a < b /\ v[i] = cache[a] /\ v[j] = cache[b]
      BY <1>5, <2>1, <2>3
    <3>2. Earlier(v[i].key, v[j].key)
      BY <3>1 DEF RecentLast
    <3> QED BY <1>2, <1>3, <2>1, <2>3, <3>2
  <2> QED BY <1>3, <2>2, <2>3
<1> QED BY <1>2, <1>4, <1>5 DEF RecentLast, DistinctUsed, InUsed

LEMMA OrderInit == Init => RecentLast
<1> SUFFICES ASSUME Init PROVE RecentLast OBVIOUS
<1>1. DOMAIN cache = {} /\ DOMAIN used = {}
  BY EmptySeq DEF Init
<1> QED BY <1>1 DEF RecentLast

\* What GetHit and GetMiss put before their entry is a part of the Map, in its order.
LEMMA HitKeeps ==
  ASSUME Inv, NEW e \in Entries
  PROVE  /\ e \in Entry /\ e.key \in Name
         /\ Without(cache, e.key) \in Seq(Entry)
         /\ \A i \in DOMAIN Without(cache, e.key) :
              /\ Without(cache, e.key)[i].key # e.key
              /\ \E a \in DOMAIN cache : Without(cache, e.key)[i] = cache[a]
         /\ \A i, j \in DOMAIN Without(cache, e.key) : i < j =>
              \E a, b \in DOMAIN cache : a < b /\ Without(cache, e.key)[i] = cache[a]
                                               /\ Without(cache, e.key)[j] = cache[b]
<1>1. cache \in Seq(Entry) /\ DistinctKeys(cache)
  BY DEF Inv, TypeOK, Bounded, DistinctKeys
<1>2. e \in Entry /\ e.key \in Name
  <2>1. PICK c \in DOMAIN cache : cache[c] = e
    BY DEF Entries
  <2>2. c \in 1 .. Len(cache)
    BY <1>1, <2>1, LenProperties
  <2>3. cache[c] \in Entry
    BY <1>1, <2>2, ElementOfSeq
  <2> QED BY <2>1, <2>3 DEF Entry
<1>3. /\ Without(cache, e.key) \in Seq(Entry)
      /\ \A i \in DOMAIN Without(cache, e.key) : Without(cache, e.key)[i].key # e.key
      /\ \A i \in DOMAIN Without(cache, e.key) :
           \E a \in DOMAIN cache : Without(cache, e.key)[i] = cache[a]
  BY <1>1, <1>2, WithoutFacts
<1> QED BY <1>1, <1>2, <1>3, WithoutOrder

LEMMA MissKeeps ==
  ASSUME Inv, NEW n \in Name, Cached(n) = {}
  PROVE  /\ Without(cache, n) = cache
         /\ Evict(cache) \in Seq(Entry)
         /\ \A i \in DOMAIN Evict(cache) :
              /\ Evict(cache)[i].key # n
              /\ \E a \in DOMAIN cache : Evict(cache)[i] = cache[a]
         /\ \A i, j \in DOMAIN Evict(cache) : i < j =>
              \E a, b \in DOMAIN cache : a < b /\ Evict(cache)[i] = cache[a]
                                               /\ Evict(cache)[j] = cache[b]
<1>1. cache \in Seq(Entry) /\ DistinctKeys(cache)
  BY DEF Inv, TypeOK, Bounded, DistinctKeys
<1>2. \A i \in DOMAIN cache : cache[i].key # n
  BY DEF Cached, Entries
<1>3. Without(cache, n) = cache
  BY <1>2 DEF Without
<1>4. /\ Evict(cache) \in Seq(Entry)
      /\ \A i \in DOMAIN Evict(cache) : \E a \in DOMAIN cache : Evict(cache)[i] = cache[a]
  BY <1>1, EvictFacts
<1> QED BY <1>1, <1>2, <1>3, <1>4, EvictOrder

LEMMA OrderStep == Inv /\ RecentLast /\ [Next]_vars => RecentLast'
<1> SUFFICES ASSUME Inv, RecentLast, [Next]_vars PROVE RecentLast'
  OBVIOUS
<1>0. used \in Seq(Name)
  BY DEF Inv, TypeOK
<1>1. ASSUME NEW r \in Request, NEW e \in Entries, GetHit(r, e) PROVE RecentLast'
  <2>1. Used(e.key) /\ cache' = Append(Without(cache, e.key), e)
    BY <1>1 DEF GetHit, Get
  <2> DEFINE w == Without(cache, e.key)
  <2>2. /\ e \in Entry /\ e.key \in Name /\ w \in Seq(Entry)
        /\ \A i \in DOMAIN w : w[i].key # e.key /\ \E a \in DOMAIN cache : w[i] = cache[a]
        /\ \A i, j \in DOMAIN w : i < j =>
             \E a, b \in DOMAIN cache : a < b /\ w[i] = cache[a] /\ w[j] = cache[b]
    BY HitKeeps
  <2> HIDE DEF w
  <2> QED BY <1>0, <2>1, <2>2, PutLast DEF w
<1>2. ASSUME NEW r \in Request, NEW n \in Name, GetMiss(r, n) PROVE RecentLast'
  <2> DEFINE e == [key |-> n, value |-> made']
  <2>1. Used(n) /\ Cached(n) = {} /\ cache' = Append(Evict(Without(cache, n)), e)
    BY <1>2 DEF GetMiss, Put
  <2>2. made' \in Object
    BY <1>2 DEF GetMiss, Inv, TypeOK, Object
  <2>3. e \in Entry /\ e.key = n
    BY <2>2 DEF Entry
  <2> HIDE DEF e
  <2> QED BY <1>0, <2>1, <2>3, MissKeeps, PutLast
<1>3. CASE Clean
  <2>1. DOMAIN cache' = {} /\ used' = used
    BY <1>3, EmptySeq DEF Clean, RemoveAll
  <2> QED BY <2>1 DEF RecentLast
<1>4. ASSUME UNCHANGED <<cache, used>> PROVE RecentLast'
  BY <1>4 DEF RecentLast, Earlier
<1>5. ASSUME NEW r \in Request, Respond(r) PROVE RecentLast'
  BY <1>4, <1>5 DEF Respond
<1>6. CASE CleanDone \/ \E o \in Object : QueueClosed(o)
  BY <1>4, <1>6 DEF CleanDone, QueueClosed
<1>7. CASE UNCHANGED vars
  BY <1>4, <1>7 DEF vars
<1> QED BY <1>1, <1>2, <1>3, <1>5, <1>6, <1>7 DEF Next

-----------------------------------------------------------------------------
(* The refinement of RecencyCache.                                         *)

After == {p \in Held \X Held : Earlier(p[1], p[2])}

LEMMA HeldIs == /\ Held = {cache[i].key : i \in DOMAIN cache}
                /\ Held' = {cache'[i].key : i \in DOMAIN cache'}
BY DEF Held, Entries

LEMMA SameCardinality == \A S : Recency!Cardinality(S) = Cardinality(S)
BY DEF Recency!Cardinality, Cardinality

LEMMA RecencyUse ==
  ASSUME NEW k \in Held, Held' = Held,
         After' = {p \in After : {p[1], p[2]} \subseteq Held \ {k}}
                    \cup {<<l, k>> : l \in Held \ {k}}
  PROVE  Recency!Use(k)
BY DEF Recency!Use, Recency!Latest, After

LEMMA RecencyEnter ==
  ASSUME NEW k, k \notin Held,
         NEW out, out = IF Cardinality(Held) < Capacity THEN {}
                        ELSE {j \in Held : \A l \in Held \ {j} : <<j, l>> \in After},
         Held' = (Held \ out) \cup {k},
         After' = {p \in After : {p[1], p[2]} \subseteq Held' \ {k}}
                    \cup {<<l, k>> : l \in Held' \ {k}},
         Cardinality(Held') <= Capacity
  PROVE  Recency!Enter(k)
<1>1. Recency!Oldest(Held) = {j \in Held : \A l \in Held \ {j} : <<j, l>> \in After}
  BY DEF Recency!Oldest, After
<1>2. Recency!Latest(Held', k) = {p \in After : {p[1], p[2]} \subseteq Held' \ {k}}
                                   \cup {<<l, k>> : l \in Held' \ {k}}
  BY DEF Recency!Latest, After
<1>3. out = IF Cardinality(Held) < Capacity THEN {} ELSE Recency!Oldest(Held)
  BY <1>1
<1>4. After' = Recency!Latest(Held', k)
  BY <1>2
<1> QED BY <1>3, <1>4, SameCardinality DEF Recency!Enter, After

\* The order of the names in the cache after a getQueue, of one that is in it.
LEMMA AfterUsed ==
  ASSUME used \in Seq(Name), RecentLast, NEW n \in Name, Used(n),
         n \in Held', Held' \ {n} \subseteq Held
  PROVE  After' = {p \in After : {p[1], p[2]} \subseteq Held' \ {n}}
                    \cup {<<l, n>> : l \in Held' \ {n}}
<1>1. DistinctUsed /\ \A k \in Held : InUsed(k)
  BY HeldIs DEF RecentLast, DistinctUsed, InUsed
<1>2. \A j, k : Earlier(j, k)' <=> \/ j # n /\ k # n /\ Earlier(j, k)
                                   \/ j # n /\ k = n /\ InUsed(j)
  BY <1>1, UsedFacts
<1>3. After' = {p \in Held' \X Held' : \/ p[1] # n /\ p[2] # n /\ Earlier(p[1], p[2])
                                       \/ p[1] # n /\ p[2] = n /\ InUsed(p[1])}
  <2>1. After' = {p \in Held' \X Held' : Earlier(p[1], p[2])'}
    BY DEF After
  <2> QED BY <1>2, <2>1
<1> DEFINE R == {p \in After : {p[1], p[2]} \subseteq Held' \ {n}}
                  \cup {<<l, n>> : l \in Held' \ {n}}
<1>4. ASSUME NEW p \in After' PROVE p \in R
  <2>1. p \in Held' \X Held' /\ p = <<p[1], p[2]>>
    BY <1>3
  <2>2. CASE p[2] = n
    BY <1>3, <2>1, <2>2
  <2>3. CASE p[2] # n
    BY <1>3, <2>1, <2>3 DEF After
  <2> QED BY <2>2, <2>3
<1>5. ASSUME NEW p \in R PROVE p \in After'
  <2>1. CASE p \in After /\ {p[1], p[2]} \subseteq Held' \ {n}
    BY <1>3, <2>1 DEF After
  <2>2. ASSUME NEW l \in Held' \ {n}, p = <<l, n>> PROVE p \in After'
    BY <1>1, <1>3, <2>2
  <2> QED BY <1>5, <2>1, <2>2
<1> HIDE DEF R
<1>6. After' = R
  BY <1>4, <1>5
<1> QED BY <1>6 DEF R

LEMMA KeysCounted ==
  ASSUME NEW s \in Seq(Entry), DistinctKeys(s)
  PROVE  Cardinality({s[i].key : i \in DOMAIN s}) = Len(s)
<1> DEFINE K == {s[i].key : i \in DOMAIN s}
           f == [i \in 1 .. Len(s) |-> s[i].key]
<1>1. Len(s) \in Nat /\ DOMAIN s = 1 .. Len(s)
  BY LenProperties
<1>2. f \in Bijection(1 .. Len(s), K)
  BY <1>1 DEF Bijection, Injection, Surjection, IsInjective, DistinctKeys
<1>3. ExistsBijection(1 .. Len(s), K)
  BY <1>2 DEF ExistsBijection
<1> QED BY <1>1, <1>3, FS_CountingElements

\* A hit is a use; a miss enters and puts out the oldest name when the Map is
\* full; cleanCache lets every name leave; everything else leaves the Map alone.
LEMMA HitIsUse ==
  ASSUME Inv, RecentLast, NEW r \in Request, NEW e \in Entries, GetHit(r, e)
  PROVE  Recency!Use(e.key)
<1>1. cache \in Seq(Entry) /\ DistinctKeys(cache) /\ used \in Seq(Name) /\ e.key \in Name
  BY HitKeeps DEF Inv, TypeOK, Bounded, DistinctKeys
<1> DEFINE w == Without(cache, e.key)
<1>2. cache' = Append(w, e) /\ Used(e.key)
  BY DEF GetHit, Get
<1>3. /\ w \in Seq(Entry)
      /\ \A i \in DOMAIN w : \E a \in DOMAIN cache : w[i] = cache[a]
      /\ \A a \in DOMAIN cache : cache[a].key # e.key => \E i \in DOMAIN w : w[i] = cache[a]
  BY <1>1, WithoutFacts
<1> HIDE DEF w
<1>4. /\ Len(w) \in Nat /\ DOMAIN w = 1 .. Len(w) /\ DOMAIN cache' = 1 .. Len(w) + 1
      /\ \A i \in DOMAIN w : cache'[i] = w[i]
      /\ cache'[Len(w) + 1] = e
  BY <1>2, <1>3, HitKeeps, AppendProperties, LenProperties
<1>5. Held' = {w[i].key : i \in DOMAIN w} \cup {e.key}
  <2>1. Held' = {cache'[i].key : i \in DOMAIN cache'}
    BY HeldIs
  <2>2. DOMAIN cache' = DOMAIN w \cup {Len(w) + 1}
    BY <1>4
  <2> QED BY <1>4, <2>1, <2>2
<1>6. e.key \in Held
  BY DEF Held
<1>7. Held' = Held
  BY <1>3, <1>5, <1>6, HeldIs
<1>8. After' = {p \in After : {p[1], p[2]} \subseteq Held' \ {e.key}}
                 \cup {<<l, e.key>> : l \in Held' \ {e.key}}
  BY <1>1, <1>2, <1>6, <1>7, AfterUsed
<1> QED BY <1>6, <1>7, <1>8, RecencyUse

LEMMA MissIsEnter ==
  ASSUME Capacity > 0, Inv, Inv', RecentLast, NEW r \in Request, NEW n \in Name, GetMiss(r, n)
  PROVE  Recency!Enter(n)
<1>0. /\ cache \in Seq(Entry) /\ DistinctKeys(cache) /\ used \in Seq(Name)
      /\ Len(cache) \in Nat /\ Len(cache) <= Capacity /\ DOMAIN cache = 1 .. Len(cache)
  BY LenProperties DEF Inv, TypeOK, Bounded, DistinctKeys
<1> DEFINE v == Evict(cache)
           e == [key |-> n, value |-> made']
           out == IF Cardinality(Held) < Capacity THEN {}
                  ELSE {j \in Held : \A l \in Held \ {j} : <<j, l>> \in After}
<1>1. Cached(n) = {} /\ Used(n) /\ cache' = Append(v, e)
  BY MissKeeps DEF GetMiss, Put
<1>2. n \notin Held
  BY <1>1 DEF Held, Cached
<1>3. Cardinality(Held) = Len(cache)
  BY <1>0, KeysCounted, HeldIs
<1>4. out = IF Len(cache) = Capacity THEN {cache[1].key} ELSE {}
  <2>1. CASE Len(cache) # Capacity
    <3>1. Len(cache) < Capacity
      <4>1. \A a, b \in Nat : a # b /\ a <= b => a < b
        OBVIOUS
      <4> QED BY <1>0, <2>1, <4>1
    <3> QED BY <1>3, <2>1, <3>1
  <2>2. CASE Len(cache) = Capacity
    <3> DEFINE h == cache[1].key
    <3>1. 1 \in DOMAIN cache /\ h \in Held
      BY <1>0, <2>2, HeldIs
    <3>2. \A l \in Held \ {h} : Earlier(h, l)
      <4> TAKE l \in Held \ {h}
      <4>1. PICK i \in DOMAIN cache : l = cache[i].key
        BY HeldIs
      <4>2. 1 < i
        BY <1>0, <4>1
      <4> QED BY <3>1, <4>1, <4>2 DEF RecentLast
    <3>3. \A l \in Held : ~Earlier(l, h) \/ ~Earlier(h, l)
      <4>1. \A p, q \in DOMAIN used : p < q => ~(q < p)
        BY <1>0, LenProperties
      <4> QED BY <4>1 DEF RecentLast, Earlier
    <3> HIDE DEF h
    <3>4. {j \in Held : \A l \in Held \ {j} : <<j, l>> \in After} = {h}
      <4>1. ASSUME NEW j \in Held, j # h PROVE <<j, h>> \notin After
        BY <3>2, <3>3, <4>1 DEF After
      <4>2. \A l \in Held \ {h} : <<h, l>> \in After
        BY <3>1, <3>2 DEF After
      <4> QED BY <3>1, <4>1, <4>2
    <3> QED BY <1>0, <1>3, <2>2, <3>4 DEF h
  <2> QED BY <2>1, <2>2
<1> HIDE DEF out
<1>5. Held' = {v[i].key : i \in DOMAIN v} \cup {n}
  <2>1. /\ v \in Seq(Entry) /\ e \in Entry
    <3>1. made' \in Object
      BY DEF GetMiss, Inv, TypeOK, Object
    <3> QED BY <1>1, <3>1, MissKeeps DEF Entry
  <2> HIDE DEF v
  <2>2. /\ Len(v) \in Nat /\ DOMAIN v = 1 .. Len(v) /\ DOMAIN cache' = 1 .. Len(v) + 1
        /\ \A i \in DOMAIN v : cache'[i] = v[i]
        /\ cache'[Len(v) + 1] = e
    BY <1>1, <2>1, AppendProperties, LenProperties
  <2>3. Held' = {cache'[i].key : i \in DOMAIN cache'}
    BY HeldIs
  <2>4. DOMAIN cache' = DOMAIN v \cup {Len(v) + 1} /\ e.key = n
    BY <2>2
  <2> HIDE DEF e
  <2> QED BY <2>2, <2>3, <2>4
<1>6. {v[i].key : i \in DOMAIN v} = Held \ out
  <2>1. CASE Len(cache) # Capacity
    BY <1>4, <2>1, HeldIs DEF Evict
  <2>2. CASE Len(cache) = Capacity
    <3>1. /\ v \in Seq(Entry) /\ Len(v) = Len(cache) - 1 /\ cache # <<>>
          /\ \A i \in 1 .. Len(cache) - 1 : v[i] = cache[i + 1]
      <4>1. cache # <<>> /\ v = Tail(cache)
        BY <1>0, <2>2 DEF Evict
      <4> QED BY <1>0, <4>1, HeadTailProperties
    <3> HIDE DEF v
    <3>2. DOMAIN v = 1 .. Len(cache) - 1
      BY <3>1, LenProperties
    <3>3. ASSUME NEW i \in DOMAIN v PROVE v[i].key \in Held \ {cache[1].key}
      <4>1. i + 1 \in DOMAIN cache /\ 1 \in DOMAIN cache /\ i + 1 # 1 /\ v[i] = cache[i + 1]
        BY <1>0, <3>1, <3>2
      <4>2. cache[i + 1].key # cache[1].key
        BY <1>0, <4>1 DEF DistinctKeys
      <4> QED BY <4>1, <4>2, HeldIs
    <3>4. ASSUME NEW k \in Held \ {cache[1].key} PROVE \E i \in DOMAIN v : v[i].key = k
      <4>1. PICK a \in DOMAIN cache : cache[a].key = k
        BY HeldIs
      <4>2. a - 1 \in DOMAIN v /\ a - 1 + 1 = a
        BY <1>0, <3>2, <4>1
      <4> QED BY <3>1, <3>2, <4>1, <4>2
    <3> QED BY <1>4, <2>2, <3>3, <3>4
  <2> QED BY <2>1, <2>2
<1>7. Held' = (Held \ out) \cup {n}
  BY <1>5, <1>6
<1>8. After' = {p \in After : {p[1], p[2]} \subseteq Held' \ {n}}
                 \cup {<<l, n>> : l \in Held' \ {n}}
  <2>1. n \in Held' /\ Held' \ {n} \subseteq Held
    BY <1>7
  <2> QED BY <1>0, <1>1, <2>1, AfterUsed
<1>9. Cardinality(Held') <= Capacity
  <2>1. cache' \in Seq(Entry) /\ DistinctKeys(cache') /\ Len(cache') <= Capacity
    BY DEF Inv, TypeOK, Bounded, DistinctKeys
  <2>2. Held' = {cache'[i].key : i \in DOMAIN cache'}
    BY HeldIs
  <2> QED BY <2>1, <2>2, KeysCounted
<1> QED BY <1>2, <1>7, <1>8, <1>9, RecencyEnter DEF out

LEMMA RecencyStep ==
  ASSUME Capacity > 0, Inv, Inv', RecentLast, [Next]_vars
  PROVE  [Recency!Next]_(Recency!vars)
<1>1. ASSUME NEW r \in Request, NEW e \in Entries, GetHit(r, e) PROVE Recency!Next
  BY <1>1, HitIsUse, HitKeeps DEF Recency!Next
<1>2. ASSUME NEW r \in Request, NEW n \in Name, GetMiss(r, n) PROVE Recency!Next
  BY <1>2, MissIsEnter DEF Recency!Next
<1>3. CASE Clean
  <2>1. cache' = <<>> /\ DOMAIN cache' = {}
    BY <1>3, EmptySeq DEF Clean, RemoveAll
  <2>2. Held' = {} /\ After' = {}
    BY <2>1 DEF Held, Entries, After
  <2>3. Held \in SUBSET Name
    <3>1. cache \in Seq(Entry)
      BY DEF Inv, TypeOK
    <3>2. \A i \in DOMAIN cache : cache[i].key \in Name
      <4> TAKE i \in DOMAIN cache
      <4>1. i \in 1 .. Len(cache)
        BY <3>1, LenProperties
      <4>2. cache[i] \in Entry
        BY <3>1, <4>1, ElementOfSeq
      <4> QED BY <4>2 DEF Entry
    <3> QED BY <3>2, HeldIs
  <2>4. Recency!Leave(Held)
    BY <2>2 DEF Recency!Leave, After
  <2> QED BY <2>3, <2>4 DEF Recency!Next
<1>4. ASSUME UNCHANGED <<cache, used>> PROVE UNCHANGED Recency!vars
  BY <1>4 DEF Recency!vars, Held, Entries, Earlier
<1>5. CASE \/ UNCHANGED vars \/ CleanDone
           \/ \E o \in Object : QueueClosed(o)
           \/ \E r \in Request : Respond(r)
  BY <1>4, <1>5 DEF vars, CleanDone, QueueClosed, Respond
<1> QED BY <1>1, <1>2, <1>3, <1>5 DEF Next

\* The Map is in the order of use.
LEMMA Ordered == Spec => []RecentLast
BY OrderInit, OrderStep, Invariance, PTL DEF Spec

\* Types; a positive capacity bounds the cache and no name is in it twice; and
\* getQueue never hands out a Queue that is being closed (LRUCache).
THEOREM CacheInvariant == Spec => []CacheInv
<1>1. Inv /\ RecentLast => CacheInv BY DEF Inv, CacheInv
<1> QED BY <1>1, Invariance, Ordered, PTL

\* An open Queue is cached or was evicted; cleanCache closes all others it had.
THEOREM NoQueueLost == Spec => []QueuesAccounted
<1>1. Inv => QueuesAccounted BY DEF Inv
<1> QED BY <1>1, Invariance, PTL

(***************************************************************************)
(* A cache of positive size is a least recently used cache: every step of  *)
(* LRUCache and getQueue is one of RecencyCache, or changes neither what   *)
(* is held nor the order of use (cache.ts:20-57, queue-factory.ts:11-25).  *)
(***************************************************************************)
THEOREM Refinement ==
  ASSUME Capacity > 0
  PROVE  Spec => ImplementsRecencyCache
<1>1. Init => Recency!Init
  <2> SUFFICES ASSUME Init PROVE Recency!Init OBVIOUS
  <2>1. Held = {}
    BY EmptySeq DEF Init, Held, Entries
  <2> QED BY <2>1 DEF Recency!Init
<1>2. Inv /\ Inv' /\ RecentLast /\ [Next]_vars => [Recency!Next]_(Recency!vars)
  BY RecencyStep
<1> QED BY <1>1, <1>2, Invariance, Ordered, PTL DEF Spec, ImplementsRecencyCache, Recency!Spec
=============================================================================
