--------------------------- MODULE FlatLRU_proofs ---------------------------
(***************************************************************************)
(* Proofs about flat_lru, for any keys, data and length: the vector stays  *)
(* sorted, within its length and its live ages apart, so that it is a      *)
(* cache that may forget but never shows what is stale.                    *)
(***************************************************************************)
EXTENDS MCFlatLRU, DataLemmas, FunctionTheorems

(* What SafeCache of FlatLRU says of a vector of slots.                    *)
Fits(s) == s \in Seq(Slot) /\ Len(s) <= LenMax

InKeyOrder(s) == \A i, j \in DOMAIN s : i < j => s[i].key < s[j].key

LiveApart(s) ==
    \A i \in DOMAIN s : s[i].refs # LenMax =>
        s[i].data # NoData /\ \A j \in DOMAIN s : j # i => s[i].refs # s[j].refs

SlotsSound(s) == Fits(s) /\ InKeyOrder(s) /\ LiveApart(s)

AnswerOK ==
    reply \in [op : {"create", "find", "find_mutable", "exists", "update",
                          "invalidate", "invalidate_range"},
                    got : Data \cup {NoData} \cup BOOLEAN,
                    evicted : SUBSET (Keys \X Data)]

IInv == SlotsSound(cache) /\ AnswerOK

LEMMA IInvIsEnough == IInv => SafeCache
<1> SUFFICES ASSUME IInv PROVE SafeCache
  OBVIOUS
<1>1. TypeOK
  BY DEF IInv, SlotsSound, Fits, AnswerOK, TypeOK
<1>2. WithinLenMax /\ SortedByKey
  BY DEF IInv, SlotsSound, Fits, InKeyOrder, WithinLenMax, SortedByKey
<1>3. LiveSlotsSound
  BY DEF IInv, SlotsSound, LiveApart, LiveSlotsSound, IsValid
<1> QED BY <1>1, <1>2, <1>3 DEF SafeCache

LEMMA RowIs ==
  ASSUME NEW s, Fits(s), NEW i \in DOMAIN s
  PROVE  /\ s[i] \in Slot /\ s[i].key \in Keys /\ s[i].key \in Nat /\ s[i].data \in Data \cup {NoData}
         /\ s[i].refs \in 0 .. LenMax /\ LenMax \in Nat /\ DOMAIN s = 1 .. Len(s) /\ Len(s) \in Nat
<1>1. s \in Seq(Slot)
  BY DEF Fits
<1>2. s[i] \in Slot /\ DOMAIN s = 1 .. Len(s) /\ Len(s) \in Nat
  BY <1>1
<1> QED BY <1>2, KeysAssumption, LenMaxAssumption DEF Slot

(* The slots before the one that the search finds are below the key, those *)
(* from it on are not.                                                     *)
LEMMA BoundIs ==
  ASSUME NEW k \in Keys, Fits(cache), InKeyOrder(cache)
  PROVE  LET i == LowerBound(k)
         IN  /\ i \in 1 .. Len(cache) + 1
             /\ \A j \in DOMAIN cache : j < i => cache[j].key < k
             /\ \A j \in DOMAIN cache : j >= i => cache[j].key >= k
<1> DEFINE s == cache
           above == {i \in 1 .. Len(s) + 1 : i <= Len(s) => s[i].key >= k}
           P(i) == /\ \A j \in 1 .. i - 1 : s[j].key < k
                   /\ i <= Len(s) => s[i].key >= k
<1>1. DOMAIN s = 1 .. Len(s) /\ Len(s) \in Nat
  BY DEF Fits
<1>2. \A j \in DOMAIN s : s[j].key \in Nat
  BY RowIs
<1>3. PICK n \in above : \A m \in above : n <= m
  <2>1. Len(s) + 1 \in above /\ above \subseteq Nat
    BY <1>1
  <2> HIDE DEF above
  <2> QED BY <2>1, SmallestNat
<1>4. n \in 1 .. Len(s) + 1 /\ P(n)
  <2>1. ASSUME NEW j \in 1 .. n - 1 PROVE s[j].key < k
    <3>1. j \in 1 .. Len(s) + 1 /\ j \in DOMAIN s /\ j < n
      BY <1>1
    <3>2. j \notin above
      BY <1>3, <3>1
    <3> QED BY <1>2, <3>1, <3>2, KeysAssumption
  <2> QED BY <2>1
<1>5. LowerBound(k) \in 1 .. Len(s) + 1 /\ P(LowerBound(k))
  <2>1. LowerBound(k) = CHOOSE i \in 1 .. Len(s) + 1 : P(i)
    BY DEF LowerBound
  <2> HIDE DEF P
  <2> QED BY <1>4, <2>1
<1> DEFINE i == LowerBound(k)
<1> HIDE DEF i
<1>6. ASSUME NEW j \in DOMAIN s, j >= i PROVE s[j].key >= k
  <2>1. i \in DOMAIN s /\ s[i].key >= k
    BY <1>1, <1>5, <1>6 DEF i
  <2>2. CASE j = i
    BY <2>1, <2>2
  <2>3. CASE j # i
    <3>1. i < j
      BY <1>1, <1>5, <1>6, <2>3 DEF i
    <3>2. s[i].key < s[j].key
      BY <2>1, <3>1 DEF InKeyOrder
    <3> QED BY <1>2, <2>1, <3>2, KeysAssumption
  <2> QED BY <2>2, <2>3
<1>7. \A j \in DOMAIN s : j < i => s[j].key < k
  BY <1>1, <1>5 DEF i
<1> QED BY <1>5, <1>6, <1>7 DEF i

(* The search finds a key that is there.                                   *)
LEMMA HitIs ==
  ASSUME NEW k \in Keys, Fits(cache), InKeyOrder(cache)
  PROVE  LET i == LowerBound(k)
         IN  /\ Hit(k) => /\ i \in DOMAIN cache /\ cache[i].key = k
                          /\ cache[i].refs # LenMax
             /\ \A j \in DOMAIN cache : cache[j].key = k => j = i
             /\ ~Hit(k) => \A j \in DOMAIN cache :
                                   cache[j].key = k => cache[j].refs = LenMax
<1> DEFINE i == LowerBound(k)
<1>1. /\ i \in 1 .. Len(cache) + 1
      /\ \A j \in DOMAIN cache : j < i => cache[j].key < k
      /\ \A j \in DOMAIN cache : j >= i => cache[j].key >= k
  BY BoundIs
<1>2. /\ DOMAIN cache = 1 .. Len(cache) /\ Len(cache) \in Nat
      /\ \A j \in DOMAIN cache : cache[j].key \in Nat
  BY RowIs DEF Fits
<1>3. Hit(k) <=> i <= Len(cache) /\ cache[i].key = k /\ cache[i].refs # LenMax
  BY DEF Hit, IsValid
<1> HIDE DEF i
<1>4. ASSUME NEW j \in DOMAIN cache, cache[j].key = k PROVE j = i
  <2>1. ~(j < i)
    BY <1>1, <1>2, <1>4
  <2>2. j >= i /\ i \in DOMAIN cache
    BY <1>1, <1>2, <2>1
  <2>3. cache[i].key >= k
    BY <1>1, <1>2, <2>2
  <2>4. ~(i < j)
    <3> SUFFICES ASSUME i < j PROVE FALSE
      OBVIOUS
    <3>1. cache[i].key < cache[j].key
      BY <2>2 DEF InKeyOrder
    <3> QED BY <1>2, <1>4, <2>2, <2>3, <3>1
  <2> QED BY <1>1, <1>2, <2>2, <2>4
<1> QED BY <1>1, <1>2, <1>3, <1>4 DEF i

(* A slot becomes the youngest and the younger ones age.                   *)
LEMMA TouchIs ==
  ASSUME NEW s, Fits(s), InKeyOrder(s), LiveApart(s), NEW i \in DOMAIN s, s[i].data # NoData,
         NEW t, t = Touch(s, i)
  PROVE  /\ SlotsSound(t) /\ DOMAIN t = DOMAIN s /\ Len(t) = Len(s)
         /\ \A j \in DOMAIN s :
               /\ t[j].key = s[j].key /\ t[j].data = s[j].data
               /\ t[j].refs = IF j = i THEN 0
                              ELSE IF s[j].refs < s[i].refs THEN s[j].refs + 1 ELSE s[j].refs
<1>1. s \in Seq(Slot) /\ DOMAIN s = 1 .. Len(s) /\ Len(s) \in Nat /\ LenMax \in Nat
  BY LenMaxAssumption DEF Fits
<1>2. \A j \in DOMAIN s : s[j] \in Slot /\ s[j].refs \in 0 .. LenMax
  BY RowIs
<1> DEFINE E(j) == IF j = i THEN [s[j] EXCEPT !.refs = 0]
                   ELSE IF s[j].refs < s[i].refs THEN [s[j] EXCEPT !.refs = @ + 1]
                   ELSE s[j]
<1>3. ASSUME NEW j \in DOMAIN s
      PROVE  /\ E(j) \in Slot /\ E(j).key = s[j].key /\ E(j).data = s[j].data
             /\ E(j).refs = IF j = i THEN 0
                            ELSE IF s[j].refs < s[i].refs THEN s[j].refs + 1 ELSE s[j].refs
  <2>1. CASE j = i
    BY <1>1, <1>2, <2>1 DEF Slot
  <2>2. CASE j # i /\ s[j].refs < s[i].refs
    <3>1. s[j].refs + 1 \in 0 .. LenMax
      BY <1>1, <1>2, <2>2
    <3> QED BY <1>2, <2>2, <3>1 DEF Slot
  <2>3. CASE j # i /\ ~(s[j].refs < s[i].refs)
    BY <1>2, <2>3
  <2> QED BY <2>1, <2>2, <2>3
<1>4. t = [j \in DOMAIN s |-> E(j)]
  BY DEF Touch
<1> HIDE DEF E
<1>5. t \in Seq(Slot) /\ DOMAIN t = DOMAIN s /\ Len(t) = Len(s) /\ \A j \in DOMAIN s : t[j] = E(j)
  BY <1>1, <1>3, <1>4
<1>6. \A j \in DOMAIN s :
         /\ t[j].key = s[j].key /\ t[j].data = s[j].data
         /\ t[j].refs = IF j = i THEN 0
                        ELSE IF s[j].refs < s[i].refs THEN s[j].refs + 1 ELSE s[j].refs
  BY <1>3, <1>5
<1>7. Fits(t) /\ InKeyOrder(t)
  BY <1>1, <1>5, <1>6 DEF Fits, InKeyOrder
<1>8. LiveApart(t)
  <2> SUFFICES ASSUME NEW a \in DOMAIN s, t[a].refs # LenMax
               PROVE  t[a].data # NoData /\ \A b \in DOMAIN s : b # a => t[a].refs # t[b].refs
    BY <1>5 DEF LiveApart
  <2>1. a = i \/ s[a].refs # LenMax
    BY <1>1, <1>2, <1>6
  <2>2. t[a].data # NoData
    BY <1>6, <2>1 DEF LiveApart
  <2>3. ASSUME NEW b \in DOMAIN s, b # a PROVE t[a].refs # t[b].refs
    <3>1. s[a].refs # LenMax => s[a].refs # s[b].refs
      BY <2>3 DEF LiveApart
    <3>2. s[i].refs # LenMax => (a # i => s[i].refs # s[a].refs) /\ (b # i => s[i].refs # s[b].refs)
      BY DEF LiveApart
    <3>3. /\ s[a].refs \in 0 .. LenMax /\ s[b].refs \in 0 .. LenMax /\ s[i].refs \in 0 .. LenMax
          /\ t[a].refs = IF a = i THEN 0
                         ELSE IF s[a].refs < s[i].refs THEN s[a].refs + 1 ELSE s[a].refs
          /\ t[b].refs = IF b = i THEN 0
                         ELSE IF s[b].refs < s[i].refs THEN s[b].refs + 1 ELSE s[b].refs
      BY <1>2, <1>6
    <3>4. CASE a = i
      BY <1>1, <2>3, <3>2, <3>3, <3>4
    <3>5. CASE b = i
      BY <1>1, <2>3, <3>2, <3>3, <3>5, <2>1
    <3>6. CASE a # i /\ b # i
      BY <1>1, <2>1, <3>1, <3>2, <3>3, <3>6
    <3> QED BY <3>4, <3>5, <3>6
  <2> QED BY <2>2, <2>3
<1> QED BY <1>5, <1>6, <1>7, <1>8 DEF SlotsSound

(* A slot gets a key and a datum.                                          *)
Refill(s, i, k, d) == [s EXCEPT ![i] = [@ EXCEPT !.key = k, !.data = d]]

LEMMA RefillIs ==
  ASSUME NEW s, Fits(s), LiveApart(s), NEW i \in DOMAIN s, NEW k \in Keys, NEW d \in Data,
         \A j \in DOMAIN s : (j < i => s[j].key < k) /\ (j > i => k < s[j].key),
         \A j, l \in DOMAIN s : j < l /\ j # i /\ l # i => s[j].key < s[l].key,
         NEW t, t = Refill(s, i, k, d)
  PROVE  /\ SlotsSound(t) /\ DOMAIN t = DOMAIN s /\ Len(t) = Len(s)
         /\ t[i].key = k /\ t[i].data = d /\ t[i].refs = s[i].refs
         /\ \A j \in DOMAIN s : j # i => t[j] = s[j]
<1> DEFINE b == [s[i] EXCEPT !.key = k, !.data = d]
<1>1. s \in Seq(Slot) /\ s[i] \in Slot /\ DOMAIN s = 1 .. Len(s)
  BY RowIs DEF Fits
<1>2. b \in Slot /\ b.key = k /\ b.data = d /\ b.refs = s[i].refs
  BY <1>1 DEF Slot
<1>3. t = [s EXCEPT ![i] = b]
  BY DEF Refill
<1> HIDE DEF b
<1>4. /\ t \in Seq(Slot) /\ DOMAIN t = DOMAIN s /\ Len(t) = Len(s) /\ t[i] = b
      /\ \A j \in DOMAIN s : j # i => t[j] = s[j]
  BY <1>1, <1>2, <1>3
<1>5. InKeyOrder(t)
  <2> SUFFICES ASSUME NEW j \in DOMAIN s, NEW l \in DOMAIN s, j < l PROVE t[j].key < t[l].key
    BY <1>4 DEF InKeyOrder
  <2>1. CASE j = i
    BY <1>1, <1>2, <1>4, <2>1
  <2>2. CASE l = i
    BY <1>1, <1>2, <1>4, <2>2
  <2>3. CASE j # i /\ l # i
    BY <1>4, <2>3
  <2> QED BY <2>1, <2>2, <2>3
<1>6. LiveApart(t)
  <2>1. \A j \in DOMAIN s : t[j].refs = s[j].refs /\ (j # i => t[j].data = s[j].data)
    BY <1>2, <1>4
  <2>2. t[i].data # NoData
    BY <1>2, <1>4, DataAssumption
  <2> SUFFICES ASSUME NEW a \in DOMAIN s, t[a].refs # LenMax
               PROVE  t[a].data # NoData /\ \A c \in DOMAIN s : c # a => t[a].refs # t[c].refs
    BY <1>4 DEF LiveApart
  <2>3. s[a].data # NoData /\ \A c \in DOMAIN s : c # a => s[a].refs # s[c].refs
    BY <2>1 DEF LiveApart
  <2> QED BY <2>1, <2>2, <2>3
<1> QED BY <1>2, <1>4, <1>5, <1>6 DEF SlotsSound, Fits

(* The place from which a rotation takes the slot that it puts at j.       *)
From(e, p, j) == LET r == IF j < p THEN j ELSE j - 1
                 IN  IF r < e THEN r ELSE r + 1

LEMMA FromIs ==
  ASSUME NEW n \in Nat, NEW e \in 1 .. n, NEW p \in 1 .. n
  PROVE  /\ \A j \in 1 .. n : j # p => From(e, p, j) \in 1 .. n /\ From(e, p, j) # e
         /\ \A j, l \in 1 .. n : j < l /\ j # p /\ l # p => From(e, p, j) < From(e, p, l)
BY DEF From

(* The place to which it moves the slot at m.                              *)
To(e, p, m) == LET r == IF m < e THEN m ELSE m - 1
               IN  IF r < p THEN r ELSE r + 1

LEMMA ToIs ==
  ASSUME NEW n \in Nat, NEW e \in 1 .. n, NEW p \in 1 .. n, NEW m \in 1 .. n, m # e
  PROVE  To(e, p, m) \in 1 .. n /\ To(e, p, m) # p /\ From(e, p, To(e, p, m)) = m
BY DEF From, To

LEMMA RotateIs ==
  ASSUME NEW s, Fits(s), LiveApart(s), NEW e \in DOMAIN s, NEW p \in DOMAIN s,
         NEW t, t = Rotate(s, e, p)
  PROVE  /\ Fits(t) /\ LiveApart(t) /\ DOMAIN t = DOMAIN s /\ Len(t) = Len(s) /\ t[p] = s[e]
         /\ \A j \in DOMAIN s : j # p => t[j] = s[From(e, p, j)] /\ From(e, p, j) \in DOMAIN s
<1>1. s \in Seq(Slot) /\ s[e] \in Slot /\ DOMAIN s = 1 .. Len(s) /\ Len(s) \in Nat
  BY RowIs DEF Fits
<1> DEFINE w == CutAt(s, e)
<1>2. HasRemoved(Slot, s, e, w)
  BY <1>1, CutOut
<1>3. t = InsertedAt(w, p, s[e])
  BY Zenon DEF Rotate, InsertAt, RemoveAt, CutAt, InsertedAt
<1> HIDE DEF w
<1>4. w \in Seq(Slot) /\ Len(w) = Len(s) - 1
  BY <1>2 DEF HasRemoved
<1>5. HasInserted(Slot, w, p, s[e], t)
  <2>1. p \in 1 .. Len(w) + 1
    BY <1>1, <1>4
  <2> QED BY <1>1, <1>3, <1>4, <2>1, Inserted
<1>6. t \in Seq(Slot) /\ Len(t) = Len(s) /\ t[p] = s[e] /\ DOMAIN t = DOMAIN s
  BY <1>1, <1>4, <1>5 DEF HasInserted
<1>7. ASSUME NEW j \in DOMAIN s, j # p
      PROVE  t[j] = s[From(e, p, j)] /\ From(e, p, j) \in DOMAIN s
  <2> DEFINE r == IF j < p THEN j ELSE j - 1
  <2>1. t[j] = w[r] /\ r \in 1 .. Len(s) - 1
    <3>1. CASE j < p
      BY <1>1, <1>4, <1>5, <3>1 DEF HasInserted
    <3>2. CASE j > p
      <4>1. j - 1 \in p .. Len(w) /\ (j - 1) + 1 = j
        BY <1>1, <1>4, <3>2
      <4>2. t[(j - 1) + 1] = w[j - 1]
        BY <1>5, <4>1 DEF HasInserted
      <4> QED BY <1>1, <1>4, <3>2, <4>1, <4>2
    <3> QED BY <1>1, <1>7, <3>1, <3>2
  <2>2. From(e, p, j) = IF r < e THEN r ELSE r + 1
    BY DEF From
  <2> HIDE DEF r
  <2>3. w[r] = s[From(e, p, j)]
    <3>1. CASE r < e
      <4>1. r \in 1 .. e - 1
        BY <1>1, <2>1, <3>1
      <4> QED BY <1>2, <2>2, <3>1, <4>1 DEF HasRemoved
    <3>2. CASE ~(r < e)
      <4>1. r \in e .. Len(s) - 1
        BY <1>1, <2>1, <3>2
      <4> QED BY <1>2, <2>2, <3>2, <4>1 DEF HasRemoved
    <3> QED BY <3>1, <3>2
  <2> QED BY <1>1, <1>7, <2>1, <2>3, FromIs
<1>8. LiveApart(t)
  <2> DEFINE G(j) == IF j = p THEN e ELSE From(e, p, j)
  <2>1. \A j \in DOMAIN s : G(j) \in DOMAIN s /\ t[j] = s[G(j)]
    BY <1>6, <1>7
  <2>2. ASSUME NEW j \in DOMAIN s, NEW l \in DOMAIN s, j # l PROVE G(j) # G(l)
    <3>1. /\ \A x \in DOMAIN s : x # p => From(e, p, x) \in DOMAIN s /\ From(e, p, x) # e
          /\ \A x, y \in DOMAIN s : x < y /\ x # p /\ y # p => From(e, p, x) < From(e, p, y)
      BY <1>1, FromIs, Zenon
    <3>2. CASE j = p \/ l = p
      BY <2>2, <3>1, <3>2
    <3>3. CASE j # p /\ l # p
      <4>1. From(e, p, j) < From(e, p, l) \/ From(e, p, l) < From(e, p, j)
        BY <1>1, <2>2, <3>1, <3>3
      <4>2. From(e, p, j) \in Nat /\ From(e, p, l) \in Nat
        BY <1>1, <3>1, <3>3
      <4> QED BY <3>3, <4>1, <4>2
    <3> QED BY <3>2, <3>3
  <2> HIDE DEF G
  <2> SUFFICES ASSUME NEW a \in DOMAIN s, t[a].refs # LenMax
               PROVE  t[a].data # NoData /\ \A c \in DOMAIN s : c # a => t[a].refs # t[c].refs
    BY <1>6 DEF LiveApart
  <2>3. s[G(a)].data # NoData /\ \A c \in DOMAIN s : c # G(a) => s[G(a)].refs # s[c].refs
    BY <2>1 DEF LiveApart
  <2> QED BY <2>1, <2>2, <2>3
<1> QED BY <1>6, <1>7, <1>8 DEF Fits

(* The slot that is recycled when the vector is full.                      *)
LEMMA EvictIs ==
  ASSUME Fits(cache), Len(cache) >= LenMax
  PROVE  /\ EvictIndex \in DOMAIN cache
         /\ \A j \in DOMAIN cache : cache[j].refs <= cache[EvictIndex].refs
<1> DEFINE s == cache
           P(i) == \A j \in DOMAIN s : s[j].refs <= s[i].refs /\ (j < i => s[j].refs < s[i].refs)
<1>1. DOMAIN s = 1 .. Len(s) /\ Len(s) \in Nat /\ 1 \in DOMAIN s
  BY LenMaxAssumption DEF Fits
<1>2. \A j \in DOMAIN s : s[j].refs \in 0 .. LenMax
  BY RowIs
<1>3. PICK a \in DOMAIN s : \A j \in DOMAIN s : s[j].refs <= s[a].refs
  <2> DEFINE T == {LenMax - s[j].refs : j \in DOMAIN s}
  <2>1. T \subseteq Nat /\ T # {}
    BY <1>1, <1>2, LenMaxAssumption
  <2>2. PICK x \in T : \A y \in T : x <= y
    BY <2>1, SmallestNat
  <2>3. PICK a \in DOMAIN s : x = LenMax - s[a].refs
    BY <2>2
  <2>4. \A j \in DOMAIN s : LenMax - s[a].refs <= LenMax - s[j].refs
    BY <2>2, <2>3
  <2>5. ASSUME NEW j \in DOMAIN s PROVE s[j].refs <= s[a].refs
    <3>1. LenMax - s[a].refs <= LenMax - s[j].refs
      BY <2>4
    <3> QED BY <1>2, <3>1, LenMaxAssumption
  <2> QED BY <2>5
<1>4. PICK i \in DOMAIN s : /\ s[i].refs = s[a].refs
                            /\ \A j \in DOMAIN s : s[j].refs = s[a].refs => i <= j
  <2> DEFINE U == {j \in DOMAIN s : s[j].refs = s[a].refs}
  <2>1. U \subseteq Nat /\ U # {}
    BY <1>1, <1>3
  <2>2. PICK i \in U : \A j \in U : i <= j
    BY <2>1, SmallestNat
  <2> QED BY <2>2
<1>5. P(i)
  BY <1>1, <1>2, <1>3, <1>4
<1>6. EvictIndex = CHOOSE x \in DOMAIN s : P(x)
  BY DEF EvictIndex
<1> HIDE DEF P
<1>7. EvictIndex \in DOMAIN s /\ P(EvictIndex)
  BY <1>5, <1>6
<1> QED BY <1>7 DEF P

(* Invalidated slots keep their place in the order.                        *)
LEMMA InvalidatedIs ==
  ASSUME NEW s, SlotsSound(s), NEW gone,
         NEW t, t = [i \in DOMAIN s |-> IF i \in gone THEN Invalidated(s[i]) ELSE s[i]]
  PROVE  /\ SlotsSound(t) /\ DOMAIN t = DOMAIN s
         /\ \A i \in DOMAIN s :
               /\ t[i].key = s[i].key
               /\ i \in gone => t[i].data = NoData /\ t[i].refs = LenMax
               /\ i \notin gone => t[i] = s[i]
<1>1. s \in Seq(Slot) /\ DOMAIN s = 1 .. Len(s) /\ Len(s) \in Nat /\ \A i \in DOMAIN s : s[i] \in Slot
  BY RowIs DEF SlotsSound, Fits
<1>2. ASSUME NEW i \in DOMAIN s
      PROVE  /\ t[i] \in Slot /\ t[i].key = s[i].key
             /\ i \in gone => t[i].data = NoData /\ t[i].refs = LenMax
             /\ i \notin gone => t[i] = s[i]
  <2> DEFINE b == [s[i] EXCEPT !.refs = LenMax, !.data = NoData]
  <2>1. s[i] \in Slot
    BY <1>1
  <2>2. b \in Slot /\ b.key = s[i].key /\ b.data = NoData /\ b.refs = LenMax
    <3>1. LenMax \in 0 .. LenMax
      BY LenMaxAssumption
    <3>2. b \in Slot
      BY <2>1, <3>1 DEF Slot
    <3>3. b.key = s[i].key /\ b.data = NoData /\ b.refs = LenMax
      BY <2>1 DEF Slot
    <3> QED BY <3>2, <3>3
  <2>3. t[i] = IF i \in gone THEN b ELSE s[i]
    BY DEF Invalidated
  <2> HIDE DEF b
  <2> QED BY <2>1, <2>2, <2>3
<1>3. t \in Seq(Slot) /\ DOMAIN t = DOMAIN s /\ Len(t) = Len(s)
  BY <1>1, <1>2
<1>4. Fits(t) /\ InKeyOrder(t)
  BY <1>2, <1>3 DEF SlotsSound, Fits, InKeyOrder
<1>5. LiveApart(t)
  <2> SUFFICES ASSUME NEW a \in DOMAIN s, t[a].refs # LenMax
               PROVE  t[a].data # NoData /\ \A b \in DOMAIN s : b # a => t[a].refs # t[b].refs
    BY <1>3 DEF LiveApart
  <2>1. t[a] = s[a] /\ s[a].refs # LenMax
    BY <1>2
  <2>2. \A b \in DOMAIN s : t[b].refs = s[b].refs \/ t[b].refs = LenMax
    BY <1>2
  <2> QED BY <2>1, <2>2 DEF SlotsSound, LiveApart
<1> QED BY <1>2, <1>3, <1>4, <1>5 DEF SlotsSound

(* What an update comes to: slot e, or a new one if e is 0, gets the key   *)
(* and the datum and is touched; the others only change their places.      *)
Replaced(s, u, i, e) ==
    /\ i \in DOMAIN u /\ e \in DOMAIN s \cup {0}
    /\ u[i].refs = IF e = 0 THEN LenMax ELSE s[e].refs
    /\ \A j \in DOMAIN u : j # i => \E l \in DOMAIN s : l # e /\ u[j] = s[l]
    /\ \A l \in DOMAIN s : l # e => \E j \in DOMAIN u : j # i /\ u[j] = s[l]

Updated(s, u, i, e, k, d) ==
    /\ SlotsSound(u) /\ Replaced(s, u, i, e)
    /\ u[i].key = k /\ u[i].data = d
    /\ cache' = Touch(u, i)
    /\ reply' = Reply("update", NoData,
                                IF e = 0 THEN {}
                                ELSE IF s[e].data = NoData THEN {} ELSE {<<s[e].key, s[e].data>>})
    /\ \/ e \in DOMAIN s /\ s[e].key = k /\ s[e].refs # LenMax
       \/ /\ \A j \in DOMAIN s : s[j].key = k => s[j].refs = LenMax
          /\ \/ e = 0 /\ Len(s) < LenMax
             \/ e \in DOMAIN s /\ s[e].refs = LenMax
             \/ e \in DOMAIN s /\ Len(s) = LenMax /\ \A j \in DOMAIN s : s[j].refs <= s[e].refs

LEMMA InPlaceUpdated ==
  ASSUME SlotsSound(cache), NEW k \in Keys, NEW d \in Data, UpdateInPlace(k, d)
  PROVE  \E u, i, e : Updated(cache, u, i, e, k, d)
<1> DEFINE s == cache
           i == LowerBound(k)
           u == [s EXCEPT ![i] = [@ EXCEPT !.key = k, !.data = d]]
<1>1. /\ Fits(s) /\ InKeyOrder(s) /\ LiveApart(s)
      /\ DOMAIN s = 1 .. Len(s) /\ Len(s) \in Nat
      /\ \A j \in DOMAIN s : s[j].key \in Nat
  BY RowIs DEF SlotsSound, Fits
<1>2. /\ i \in 1 .. Len(s) + 1
      /\ \A j \in DOMAIN s : j < i => s[j].key < k
      /\ \A j \in DOMAIN s : j >= i => s[j].key >= k
  BY <1>1, BoundIs
<1>3. /\ Hit(k) => s[i].key = k /\ s[i].refs # LenMax
      /\ \A j \in DOMAIN s : s[j].key = k => j = i
      /\ ~Hit(k) => \A j \in DOMAIN s : s[j].key = k => s[j].refs = LenMax
  BY <1>1, HitIs
<1>4. /\ i <= Len(s) /\ (Hit(k) \/ s[i].refs = LenMax)
      /\ cache' = Touch(u, i)
      /\ reply' = Reply("update", NoData,
                                  IF s[i].data = NoData THEN {} ELSE {<<s[i].key, s[i].data>>})
  BY Zenon DEF UpdateInPlace, Recycle, IsValid
<1> HIDE DEF i
<1>5. i \in DOMAIN s /\ i # 0
  BY <1>1, <1>2, <1>4
<1>6. \A j \in DOMAIN s : (j < i => s[j].key < k) /\ (j > i => k < s[j].key)
  <2> SUFFICES ASSUME NEW j \in DOMAIN s, j > i PROVE k < s[j].key
    BY <1>2
  <2>1. s[i].key < s[j].key /\ s[i].key >= k
    BY <1>1, <1>2, <1>5 DEF InKeyOrder
  <2> QED BY <1>1, <1>5, <2>1, KeysAssumption
<1>7. /\ SlotsSound(u) /\ DOMAIN u = DOMAIN s /\ u[i].key = k /\ u[i].data = d /\ u[i].refs = s[i].refs
      /\ \A j \in DOMAIN s : j # i => u[j] = s[j]
  <2>1. \A j, l \in DOMAIN s : j < l /\ j # i /\ l # i => s[j].key < s[l].key
    BY <1>1 DEF InKeyOrder
  <2>2. u = Refill(s, i, k, d)
    BY DEF Refill
  <2>3. Fits(s) /\ LiveApart(s) /\ i \in DOMAIN s
    BY <1>1, <1>5
  <2> HIDE DEF u
  <2> QED BY <1>6, <2>1, <2>2, <2>3, RefillIs
<1> HIDE DEF u
<1>8. Replaced(s, u, i, i)
  BY <1>5, <1>7 DEF Replaced
<1>9. \/ s[i].key = k /\ s[i].refs # LenMax
      \/ s[i].refs = LenMax /\ \A j \in DOMAIN s : s[j].key = k => s[j].refs = LenMax
  BY <1>3, <1>4
<1>10. Updated(s, u, i, i, k, d)
  BY <1>4, <1>5, <1>7, <1>8, <1>9 DEF Updated
<1> QED BY <1>10

LEMMA RotateUpdated ==
  ASSUME SlotsSound(cache), NEW k \in Keys, NEW d \in Data, UpdateRotate(k, d)
  PROVE  \E u, i, e : Updated(cache, u, i, e, k, d)
<1> DEFINE s == cache
           e == EvictIndex
           i == LowerBound(k)
           p == IF e < i THEN i - 1 ELSE i
           t == Rotate(s, e, p)
           u == [t EXCEPT ![p] = [@ EXCEPT !.key = k, !.data = d]]
<1>1. /\ Fits(s) /\ InKeyOrder(s) /\ LiveApart(s)
      /\ DOMAIN s = 1 .. Len(s) /\ Len(s) \in Nat
      /\ \A j \in DOMAIN s : s[j].key \in Nat
  BY RowIs DEF SlotsSound, Fits
<1>2. /\ i \in 1 .. Len(s) + 1
      /\ \A j \in DOMAIN s : j < i => s[j].key < k
      /\ \A j \in DOMAIN s : j >= i => s[j].key >= k
  BY <1>1, BoundIs
<1>3. /\ \A j \in DOMAIN s : s[j].key = k => j = i
      /\ ~Hit(k) => \A j \in DOMAIN s : s[j].key = k => s[j].refs = LenMax
  BY <1>1, HitIs
<1>4. /\ ~Hit(k) /\ (i <= Len(s) => s[i].refs # LenMax) /\ Len(s) >= LenMax
      /\ cache' = Touch(u, p)
      /\ reply' = Reply("update", NoData,
                                  IF t[p].data = NoData THEN {} ELSE {<<t[p].key, t[p].data>>})
  BY Zenon DEF UpdateRotate, Recycle, IsValid, NeedsSlot
<1>5. /\ Len(s) = LenMax /\ e \in DOMAIN s /\ \A j \in DOMAIN s : s[j].refs <= s[e].refs
  BY <1>1, <1>4, EvictIs, LenMaxAssumption DEF Fits
<1> HIDE DEF i, e
<1>6. p \in DOMAIN s /\ e # 0
  BY <1>1, <1>2, <1>5
<1>7. /\ Fits(t) /\ LiveApart(t) /\ DOMAIN t = DOMAIN s /\ t[p] = s[e]
      /\ \A j \in DOMAIN s : j # p => t[j] = s[From(e, p, j)] /\ From(e, p, j) \in DOMAIN s
  <2>1. t = Rotate(s, e, p)
    OBVIOUS
  <2>2. Fits(s) /\ LiveApart(s) /\ e \in DOMAIN s /\ p \in DOMAIN s
    BY <1>1, <1>5, <1>6
  <2> HIDE DEF t, p
  <2> QED BY <2>1, <2>2, RotateIs
<1> HIDE DEF t
<1>8. \A j \in DOMAIN s : s[j].key # k
  BY <1>3, <1>4, <1>1
<1>9. ASSUME NEW j \in DOMAIN s
      PROVE  (j < p => t[j].key < k) /\ (j > p => k < t[j].key)
  <2>1. /\ j < p => From(e, p, j) < i
        /\ j > p => From(e, p, j) >= i
    BY <1>1, <1>2, <1>5 DEF From
  <2>2. j # p => t[j] = s[From(e, p, j)] /\ From(e, p, j) \in DOMAIN s
    BY <1>7
  <2>3. CASE j < p
    BY <1>1, <1>2, <1>6, <2>1, <2>2, <2>3
  <2>4. CASE j > p
    <3>1. s[From(e, p, j)].key >= k /\ s[From(e, p, j)].key # k /\ s[From(e, p, j)].key \in Nat
      BY <1>1, <1>2, <1>6, <1>8, <2>1, <2>2, <2>4
    <3>2. k < s[From(e, p, j)].key
      BY <3>1, KeysAssumption
    <3> QED BY <1>1, <1>6, <2>2, <2>4, <3>2
  <2> QED BY <1>1, <1>6, <2>3, <2>4
<1>10. ASSUME NEW j \in DOMAIN s, NEW l \in DOMAIN s, j < l, j # p, l # p PROVE t[j].key < t[l].key
  <2>1. From(e, p, j) < From(e, p, l)
    BY <1>1, <1>5, <1>6, <1>10, FromIs
  <2> QED BY <1>1, <1>7, <1>10, <2>1 DEF InKeyOrder
<1>11. /\ SlotsSound(u) /\ DOMAIN u = DOMAIN s /\ u[p].key = k /\ u[p].data = d /\ u[p].refs = s[e].refs
       /\ \A j \in DOMAIN s : j # p => u[j] = t[j]
  <2>1. u = Refill(t, p, k, d)
    BY DEF Refill
  <2>2. Fits(t) /\ LiveApart(t) /\ p \in DOMAIN t
    BY <1>6, <1>7
  <2>3. /\ \A j \in DOMAIN t : (j < p => t[j].key < k) /\ (j > p => k < t[j].key)
        /\ \A j, l \in DOMAIN t : j < l /\ j # p /\ l # p => t[j].key < t[l].key
    BY <1>7, <1>9, <1>10
  <2> HIDE DEF u, p
  <2>4. /\ SlotsSound(u) /\ DOMAIN u = DOMAIN t /\ u[p].key = k /\ u[p].data = d /\ u[p].refs = t[p].refs
        /\ \A j \in DOMAIN t : j # p => u[j] = t[j]
    BY <2>1, <2>2, <2>3, RefillIs
  <2> QED BY <1>7, <2>4
<1> HIDE DEF u, p
<1>12. Replaced(s, u, p, e)
  <2>1. ASSUME NEW j \in DOMAIN s, j # p PROVE \E l \in DOMAIN s : l # e /\ u[j] = s[l]
    BY <1>1, <1>5, <1>6, <1>7, <1>11, <2>1, FromIs
  <2>2. ASSUME NEW l \in DOMAIN s, l # e PROVE \E j \in DOMAIN s : j # p /\ u[j] = s[l]
    <3>1. Len(s) \in Nat /\ e \in 1 .. Len(s) /\ p \in 1 .. Len(s) /\ l \in 1 .. Len(s)
      BY <1>1, <1>5, <1>6
    <3>2. To(e, p, l) \in 1 .. Len(s) /\ To(e, p, l) # p /\ From(e, p, To(e, p, l)) = l
      BY <2>2, <3>1, ToIs
    <3>3. To(e, p, l) \in DOMAIN u /\ u[To(e, p, l)] = s[l]
      BY <1>1, <1>7, <1>11, <3>2
    <3> QED BY <3>2, <3>3
  <2> QED BY <1>5, <1>6, <1>11, <2>1, <2>2 DEF Replaced
<1>13. Updated(s, u, p, e, k, d)
  BY <1>3, <1>4, <1>5, <1>6, <1>7, <1>11, <1>12 DEF Updated
<1> QED BY <1>13

LEMMA EmplaceUpdated ==
  ASSUME SlotsSound(cache), NEW k \in Keys, NEW d \in Data, UpdateEmplace(k, d)
  PROVE  \E u, i, e : Updated(cache, u, i, e, k, d)
<1> DEFINE s == cache
           i == LowerBound(k)
           b == [key |-> k, data |-> d, refs |-> LenMax]
           u == InsertedAt(s, i, b)
           n == Len(s)
<1>1. /\ Fits(s) /\ InKeyOrder(s) /\ LiveApart(s) /\ s \in Seq(Slot)
      /\ DOMAIN s = 1 .. n /\ n \in Nat
      /\ \A j \in DOMAIN s : s[j].key \in Nat
  BY RowIs DEF SlotsSound, Fits
<1>2. /\ i \in 1 .. n + 1
      /\ \A j \in DOMAIN s : j < i => s[j].key < k
      /\ \A j \in DOMAIN s : j >= i => s[j].key >= k
  BY <1>1, BoundIs
<1>3. /\ \A j \in DOMAIN s : s[j].key = k => j = i
      /\ ~Hit(k) => \A j \in DOMAIN s : s[j].key = k => s[j].refs = LenMax
  BY <1>1, HitIs
<1>4. /\ ~Hit(k) /\ (i <= n => s[i].refs # LenMax) /\ n < LenMax
      /\ cache' = Touch(u, i)
      /\ reply' = Reply("update", NoData, {})
  BY Zenon DEF UpdateEmplace, IsValid, NeedsSlot, InsertAt, InsertedAt
<1> HIDE DEF i
<1>5. b \in Slot
  BY LenMaxAssumption DEF Slot
<1>6. HasInserted(Slot, s, i, b, u)
  BY <1>1, <1>2, <1>5, Inserted
<1> HIDE DEF u
<1>7. /\ u \in Seq(Slot) /\ Len(u) = n + 1 /\ DOMAIN u = 1 .. n + 1 /\ u[i] = b
      /\ \A j \in 1 .. i - 1 : u[j] = s[j]
      /\ \A j \in i .. n : u[j + 1] = s[j]
  BY <1>1, <1>6 DEF HasInserted
<1>8. u[i].key = k /\ u[i].data = d /\ u[i].refs = LenMax
  BY <1>7
<1> HIDE DEF b, n
<1>9. \A j \in DOMAIN s : s[j].key # k
  BY <1>1, <1>3, <1>4
<1> DEFINE G(j) == IF j < i THEN j ELSE j - 1
<1>10. /\ \A j \in DOMAIN u : j # i => G(j) \in DOMAIN s /\ u[j] = s[G(j)]
       /\ \A j, l \in DOMAIN u : j < l /\ j # i /\ l # i => G(j) < G(l)
       /\ \A j \in DOMAIN u : (j < i => G(j) < i) /\ (j > i => G(j) >= i)
       /\ \A l \in DOMAIN s : \E j \in DOMAIN u : j # i /\ G(j) = l
  <2>1. ASSUME NEW j \in DOMAIN u, j # i PROVE G(j) \in DOMAIN s /\ u[j] = s[G(j)]
    <3>1. CASE j < i
      BY <1>1, <1>2, <1>7, <3>1
    <3>2. CASE j > i
      <4>1. j - 1 \in i .. n /\ (j - 1) + 1 = j
        BY <1>1, <1>2, <1>7, <3>2
      <4>2. u[(j - 1) + 1] = s[j - 1]
        BY <1>7, <4>1
      <4> QED BY <1>1, <1>2, <1>7, <3>2, <4>1, <4>2
    <3> QED BY <1>2, <1>7, <2>1, <3>1, <3>2
  <2>2. \A j, l \in DOMAIN u : j < l /\ j # i /\ l # i => G(j) < G(l)
    BY <1>1, <1>2, <1>7
  <2>3. \A j \in DOMAIN u : (j < i => G(j) < i) /\ (j > i => G(j) >= i)
    BY <1>1, <1>2, <1>7
  <2>4. ASSUME NEW l \in DOMAIN s PROVE \E j \in DOMAIN u : j # i /\ G(j) = l
    <3> DEFINE j == IF l < i THEN l ELSE l + 1
    <3>1. j \in DOMAIN u /\ j # i /\ G(j) = l
      BY <1>1, <1>2, <1>7
    <3> QED BY <3>1
  <2> QED BY <2>1, <2>2, <2>3, <2>4
<1> HIDE DEF G
<1>11. DOMAIN u \subseteq Nat /\ i \in DOMAIN u /\ i \in Nat
  BY <1>1, <1>2, <1>7
<1>12. ASSUME NEW j \in DOMAIN u
       PROVE  (j < i => u[j].key < k) /\ (j > i => k < u[j].key)
  <2>1. CASE j < i
    BY <1>2, <1>10, <1>11, <2>1
  <2>2. CASE j > i
    <3>1. u[j] = s[G(j)] /\ G(j) \in DOMAIN s /\ G(j) >= i
      BY <1>10, <1>11, <2>2
    <3>2. s[G(j)].key >= k /\ s[G(j)].key # k /\ s[G(j)].key \in Nat
      BY <1>1, <1>2, <1>9, <3>1
    <3> QED BY <1>11, <2>2, <3>1, <3>2, KeysAssumption
  <2> QED BY <1>11, <2>1, <2>2
<1>13. InKeyOrder(u)
  <2> SUFFICES ASSUME NEW j \in DOMAIN u, NEW l \in DOMAIN u, j < l PROVE u[j].key < u[l].key
    BY DEF InKeyOrder
  <2>1. CASE j = i
    BY <1>8, <1>12, <1>11, <2>1
  <2>2. CASE l = i
    BY <1>8, <1>12, <1>11, <2>2
  <2>3. CASE j # i /\ l # i
    <3>1. G(j) < G(l) /\ G(j) \in DOMAIN s /\ G(l) \in DOMAIN s
      BY <1>10, <2>3
    <3>2. s[G(j)].key < s[G(l)].key
      BY <1>1, <3>1 DEF InKeyOrder
    <3> QED BY <1>10, <2>3, <3>2
  <2> QED BY <2>1, <2>2, <2>3
<1>14. LiveApart(u)
  <2> SUFFICES ASSUME NEW a \in DOMAIN u, u[a].refs # LenMax
               PROVE  u[a].data # NoData /\ \A c \in DOMAIN u : c # a => u[a].refs # u[c].refs
    BY DEF LiveApart
  <2>1. a # i /\ G(a) \in DOMAIN s /\ u[a] = s[G(a)]
    BY <1>8, <1>10
  <2>2. s[G(a)].data # NoData /\ \A c \in DOMAIN s : c # G(a) => s[G(a)].refs # s[c].refs
    BY <1>1, <2>1 DEF LiveApart
  <2>3. ASSUME NEW c \in DOMAIN u, c # a, c # i PROVE u[a].refs # u[c].refs
    <3>1. c < a \/ a < c
      BY <1>11, <2>3
    <3>2. G(c) # G(a)
      <4>1. G(c) < G(a) \/ G(a) < G(c)
        BY <1>10, <2>1, <2>3, <3>1
      <4>2. G(a) \in Nat /\ G(c) \in Nat
        BY <1>1, <1>10, <2>1, <2>3
      <4> QED BY <4>1, <4>2
    <3>3. G(c) \in DOMAIN s /\ u[c] = s[G(c)]
      BY <1>10, <2>3
    <3> QED BY <2>1, <2>2, <3>2, <3>3
  <2> QED BY <1>8, <2>1, <2>2, <2>3
<1>15. SlotsSound(u)
  <2>1. Len(u) <= LenMax
    BY <1>1, <1>4, <1>7, LenMaxAssumption
  <2> QED BY <1>7, <1>13, <1>14, <2>1 DEF SlotsSound, Fits
<1>16. Replaced(s, u, i, 0)
  <2>1. 0 \notin DOMAIN s
    BY <1>1
  <2> QED BY <1>8, <1>10, <1>11, <2>1 DEF Replaced
<1>17. \A j \in DOMAIN s : s[j].key = k => s[j].refs = LenMax
  BY <1>3, <1>4
<1>18. Updated(s, u, i, 0, k, d)
  BY <1>4, <1>8, <1>15, <1>16, <1>17 DEF Updated, n
<1> QED BY <1>18

LEMMA UpdateIsUpdated ==
  ASSUME SlotsSound(cache), NEW k \in Keys, NEW d \in Data, Update(k, d)
  PROVE  \E u, i, e : Updated(cache, u, i, e, k, d)
BY InPlaceUpdated, RotateUpdated, EmplaceUpdated, Zenon DEF Update

LEMMA UpdatedIsSafe ==
  ASSUME IInv, NEW k \in Keys, NEW d \in Data,
         NEW u, NEW i, NEW e, Updated(cache, u, i, e, k, d)
  PROVE  IInv'
<1> DEFINE s == cache
           out == IF e = 0 THEN {}
                  ELSE IF s[e].data = NoData THEN {} ELSE {<<s[e].key, s[e].data>>}
<1>1. /\ Fits(u) /\ InKeyOrder(u) /\ LiveApart(u) /\ i \in DOMAIN u /\ u[i].data # NoData
      /\ cache' = Touch(u, i)
  BY DataAssumption DEF Updated, Replaced, SlotsSound
<1>2. SlotsSound(cache')
  BY <1>1, TouchIs
<1>3. reply' = Reply("update", NoData, out) /\ e \in DOMAIN s \cup {0}
  BY Zenon DEF Updated, Replaced
<1>4. out \in SUBSET (Keys \X Data)
  <2>1. CASE e # 0 /\ s[e].data # NoData
    <3>1. s[e].key \in Keys /\ s[e].data \in Data
      BY <1>3, <2>1, RowIs DEF IInv, SlotsSound
    <3> QED BY <2>1, <3>1
  <2>2. CASE e = 0 \/ s[e].data = NoData
    BY <2>2
  <2> QED BY <2>1, <2>2
<1> HIDE DEF out
<1>5. AnswerOK'
  BY <1>3, <1>4 DEF AnswerOK, Reply
<1> QED BY <1>2, <1>5 DEF IInv

LEMMA FindIsSafe ==
  ASSUME IInv, NEW k \in Keys, Find(k)
  PROVE  IInv'
<1> DEFINE s == cache
           i == LowerBound(k)
<1>1. Fits(s) /\ InKeyOrder(s) /\ LiveApart(s)
  BY DEF IInv, SlotsSound
<1>2. Hit(k) => i \in DOMAIN s /\ s[i].refs # LenMax
  BY <1>1, HitIs
<1>3. CASE Hit(k) /\ cache' = Touch(s, i) /\ reply' = Reply("find", s[i].data, {})
  <2> HIDE DEF i
  <2>1. i \in DOMAIN s /\ s[i].data # NoData /\ s[i].data \in Data \cup {NoData}
    BY <1>1, <1>2, <1>3, RowIs DEF LiveApart
  <2>2. SlotsSound(cache')
    BY <1>1, <1>3, <2>1, TouchIs
  <2>3. AnswerOK'
    BY <1>3, <2>1 DEF AnswerOK, Reply
  <2> QED BY <2>2, <2>3 DEF IInv
<1>4. CASE reply' = Reply("find", NoData, {}) /\ UNCHANGED cache
  BY <1>4 DEF IInv, AnswerOK, Reply, SlotsSound, Fits, InKeyOrder, LiveApart
<1> QED BY <1>3, <1>4, Zenon DEF Find

(* find_mutable, and the caller's write.                                   *)
Written(s, i, d) == [s EXCEPT ![i].data = d]

LEMMA WrittenIs ==
  ASSUME NEW s, SlotsSound(s), NEW i \in DOMAIN s, NEW d \in Data,
         NEW t, t = Written(s, i, d)
  PROVE  /\ SlotsSound(t) /\ DOMAIN t = DOMAIN s /\ t[i].data = d
         /\ \A j \in DOMAIN s : /\ t[j].key = s[j].key /\ t[j].refs = s[j].refs
                                /\ j # i => t[j].data = s[j].data
<1> DEFINE b == [s[i] EXCEPT !.data = d]
<1>1. /\ s \in Seq(Slot) /\ s[i] \in Slot /\ Len(s) <= LenMax /\ DOMAIN s = 1 .. Len(s)
      /\ InKeyOrder(s) /\ LiveApart(s)
  BY RowIs DEF SlotsSound, Fits
<1>2. b \in Slot /\ b.key = s[i].key /\ b.data = d /\ b.refs = s[i].refs
  BY <1>1 DEF Slot
<1>3. t = [s EXCEPT ![i] = b]
  BY DEF Written
<1> HIDE DEF b
<1>4. /\ t \in Seq(Slot) /\ DOMAIN t = DOMAIN s /\ Len(t) = Len(s) /\ t[i] = b
      /\ \A j \in DOMAIN s : j # i => t[j] = s[j]
  BY <1>1, <1>2, <1>3
<1>5. \A j \in DOMAIN s : /\ t[j].key = s[j].key /\ t[j].refs = s[j].refs
                          /\ j # i => t[j].data = s[j].data
  BY <1>2, <1>4
<1>6. InKeyOrder(t)
  BY <1>1, <1>4, <1>5 DEF InKeyOrder
<1>7. LiveApart(t)
  <2> SUFFICES ASSUME NEW a \in DOMAIN s, t[a].refs # LenMax
               PROVE  t[a].data # NoData /\ \A c \in DOMAIN s : c # a => t[a].refs # t[c].refs
    BY <1>4 DEF LiveApart
  <2>1. s[a].data # NoData /\ \A c \in DOMAIN s : c # a => s[a].refs # s[c].refs
    BY <1>1, <1>5 DEF LiveApart
  <2>2. t[i].data # NoData
    BY <1>2, <1>4, DataAssumption
  <2> QED BY <1>5, <2>1, <2>2
<1> QED BY <1>1, <1>2, <1>4, <1>5, <1>6, <1>7 DEF SlotsSound, Fits

LEMMA FindMutableIsSafe ==
  ASSUME IInv, NEW k \in Keys, NEW d \in Data, FindMutable(k, d)
  PROVE  IInv'
<1> DEFINE s == cache
           i == LowerBound(k)
           t == [s EXCEPT ![i].data = d]
<1>1. SlotsSound(s) /\ Fits(s) /\ InKeyOrder(s) /\ LiveApart(s)
  BY DEF IInv, SlotsSound
<1>2. Hit(k) => i \in DOMAIN s /\ s[i].refs # LenMax
  BY <1>1, HitIs
<1>3. CASE Hit(k) /\ cache' = Touch(t, i) /\ reply' = Reply("find_mutable", s[i].data, {})
  <2> HIDE DEF i
  <2>1. i \in DOMAIN s /\ s[i].data \in Data \cup {NoData}
    BY <1>1, <1>2, <1>3, RowIs
  <2>2. SlotsSound(t) /\ i \in DOMAIN t /\ t[i].data = d
    <3>1. t = Written(s, i, d)
      BY DEF Written
    <3> HIDE DEF t
    <3> QED BY <1>1, <2>1, <3>1, WrittenIs
  <2> HIDE DEF t
  <2>3. Fits(t) /\ InKeyOrder(t) /\ LiveApart(t) /\ t[i].data # NoData
    BY <2>2, DataAssumption DEF SlotsSound
  <2>4. SlotsSound(cache')
    BY <1>3, <2>2, <2>3, TouchIs
  <2>5. AnswerOK'
    BY <1>3, <2>1 DEF AnswerOK, Reply
  <2> QED BY <2>4, <2>5 DEF IInv
<1>4. CASE reply' = Reply("find_mutable", NoData, {}) /\ UNCHANGED cache
  BY <1>4 DEF IInv, AnswerOK, Reply, SlotsSound, Fits, InKeyOrder, LiveApart
<1> QED BY <1>3, <1>4, Zenon DEF FindMutable

LEMMA ExistsIsSafe ==
  ASSUME IInv, NEW k \in Keys, Exists(k)
  PROVE  IInv'
<1>1. reply' = Reply("exists", Hit(k), {}) /\ UNCHANGED cache
  BY Zenon DEF Exists
<1>2. Hit(k) \in BOOLEAN
  BY DEF Hit
<1>3. AnswerOK'
  BY <1>1, <1>2 DEF AnswerOK, Reply
<1> QED BY <1>1, <1>3 DEF IInv

(* An invalidation marks the slots from one place to another.              *)
Cleared(gone) ==
    [j \in DOMAIN cache |->
        IF j \in gone THEN Invalidated(cache[j]) ELSE cache[j]]

LEMMA InvalidateClears ==
  ASSUME SlotsSound(cache), NEW k \in Keys, Invalidate(k)
  PROVE  cache' = Cleared(IF Hit(k) THEN {LowerBound(k)} ELSE {})
<1> DEFINE s == cache
           i == LowerBound(k)
<1>1. s = [j \in DOMAIN s |-> s[j]]
  BY DEF SlotsSound, Fits
<1>2. cache' = IF Hit(k) THEN [s EXCEPT ![i] = Invalidated(@)] ELSE s
  BY Zenon DEF Invalidate
<1>3. Cleared({}) = [j \in DOMAIN s |-> s[j]]
  BY DEF Cleared
<1> HIDE DEF i
<1>4. [s EXCEPT ![i] = Invalidated(@)] = Cleared({i})
  BY DEF Cleared
<1> QED BY <1>1, <1>2, <1>3, <1>4, Zenon DEF i

LEMMA InvalidateIsSafe ==
  ASSUME IInv, NEW gone, cache' = Cleared(gone),
         NEW op \in {"invalidate", "invalidate_range"}, reply' = Reply(op, NoData, {})
  PROVE  IInv'
<1>1. SlotsSound(cache')
  BY InvalidatedIs, Zenon DEF IInv, Cleared
<1>2. AnswerOK'
  BY DEF AnswerOK, Reply
<1> QED BY <1>1, <1>2 DEF IInv

LEMMA StepIsSafe == IInv /\ [MCNext]_<<vars, tainted>> => IInv'
<1> SUFFICES ASSUME IInv, [MCNext]_<<vars, tainted>> PROVE IInv'
  OBVIOUS
<1>1. CASE UNCHANGED <<cache, reply>>
  BY <1>1 DEF IInv, AnswerOK
<1>2. CASE Next
  <2>1. ASSUME NEW k \in Keys, Find(k) \/ Exists(k) PROVE IInv'
    BY <2>1, FindIsSafe, ExistsIsSafe
  <2>2. ASSUME NEW k \in Keys, Invalidate(k) PROVE IInv'
    <3>1. cache' = Cleared(IF Hit(k) THEN {LowerBound(k)} ELSE {})
      BY <2>2, InvalidateClears, Zenon DEF IInv
    <3>2. reply' = Reply("invalidate", NoData, {})
      BY <2>2, Zenon DEF Invalidate
    <3> QED BY <3>1, <3>2, InvalidateIsSafe
  <2>3. ASSUME NEW k \in Keys, NEW d \in Data, FindMutable(k, d) PROVE IInv'
    BY <2>3, FindMutableIsSafe
  <2>4. ASSUME NEW k \in Keys, NEW d \in Data, Update(k, d) PROVE IInv'
    <3>1. PICK u, i, e : Updated(cache, u, i, e, k, d)
      BY <2>4, UpdateIsUpdated, Zenon DEF IInv
    <3> QED BY <3>1, UpdatedIsSafe
  <2>5. ASSUME NEW lo \in Keys, NEW hi \in Keys, InvalidateRange(lo, hi) PROVE IInv'
    <3>1. /\ cache' = Cleared(LowerBound(lo) .. (LowerBound(hi) - 1))
          /\ reply' = Reply("invalidate_range", NoData, {})
      BY <2>5, Zenon DEF InvalidateRange, Cleared
    <3> QED BY <3>1, InvalidateIsSafe
  <2> QED BY <1>2, <2>1, <2>2, <2>3, <2>4, <2>5, Zenon DEF Next
<1> QED BY <1>1, <1>2 DEF MCNext, vars

LEMMA InitIsSafe == MCInit => IInv
<1> SUFFICES ASSUME MCInit PROVE IInv
  OBVIOUS
<1>1. cache = <<>> /\ reply = Reply("create", NoData, {})
  BY DEF MCInit, Init, Created
<1>2. AnswerOK
  BY <1>1 DEF AnswerOK, Reply
<1>3. SlotsSound(cache)
  BY <1>1, LenMaxAssumption DEF SlotsSound, Fits, InKeyOrder, LiveApart
<1> QED BY <1>2, <1>3 DEF IInv

(* The vector of flat_lru stays sorted by key across overwrites, rotations *)
(* and insertions, within its length, and no two live entries have the     *)
(* same age: the assertions at the end of update().                        *)
THEOREM SlotsStayInOrder == MCSpec => []SafeCache
<1>1. MCInit => IInv
  BY InitIsSafe
<1>2. IInv /\ [MCNext]_<<vars, tainted>> => IInv'
  BY StepIsSafe
<1>3. IInv => SafeCache
  BY IInvIsEnough
<1> QED BY <1>1, <1>2, <1>3, PTL DEF MCSpec

-----------------------------------------------------------------------------
(* What the vector shows and what it hides: the datum of a live slot, and  *)
(* that of a slot that is no longer live but still owns its buffer.        *)
Shows(s, x, v) == \E j \in DOMAIN s : s[j].key = x /\ s[j].data = v /\ s[j].refs # LenMax

Hides(s, x, v) == \E j \in DOMAIN s : s[j].key = x /\ s[j].data = v /\ s[j].refs = LenMax

LiveRows(s, k) == {x \in {x \in Range(s) : x.refs # LenMax} : x.key = k}

StoreOf(s) == [k \in Keys |-> IF LiveRows(s, k) # {} THEN (CHOOSE x \in LiveRows(s, k) : TRUE).data
                              ELSE NoData]

LostOf(s) == {<<x.key, x.data>> : x \in {x \in Range(s) : x.refs = LenMax /\ x.data # NoData}}

OneSlotEach(s) == \A i, j \in DOMAIN s : s[i].key = s[j].key => i = j

LEMMA KeysApart ==
  ASSUME NEW s, SlotsSound(s)
  PROVE  OneSlotEach(s)
<1> SUFFICES ASSUME NEW i \in DOMAIN s, NEW j \in DOMAIN s, s[i].key = s[j].key PROVE i = j
  BY DEF OneSlotEach
<1>1. DOMAIN s \subseteq Nat /\ s[i].key \in Nat /\ s[j].key \in Nat
  BY RowIs DEF SlotsSound
<1>2. ~(i < j) /\ ~(j < i)
  BY <1>1 DEF SlotsSound, InKeyOrder
<1> QED BY <1>1, <1>2

LEMMA StoreIs ==
  ASSUME NEW s, SlotsSound(s)
  PROVE  /\ StoreOf(s) \in [Keys -> Data \cup {NoData}]
         /\ \A x \in Keys, v \in Data : StoreOf(s)[x] = v <=> Shows(s, x, v)
<1>1. \A j \in DOMAIN s : s[j].data \in Data \cup {NoData} /\ s[j].key \in Keys
                          /\ (s[j].refs # LenMax => s[j].data \in Data)
  BY RowIs DEF SlotsSound, LiveApart
<1>2. ASSUME NEW x \in Keys
      PROVE  /\ StoreOf(s)[x] \in Data \cup {NoData}
             /\ \A v \in Data : StoreOf(s)[x] = v <=> Shows(s, x, v)
  <2>1. StoreOf(s)[x] = IF LiveRows(s, x) # {} THEN (CHOOSE r \in LiveRows(s, x) : TRUE).data ELSE NoData
    BY DEF StoreOf
  <2>2. LiveRows(s, x) = {s[j] : j \in {j \in DOMAIN s : s[j].refs # LenMax /\ s[j].key = x}}
    BY DEF LiveRows, Range
  <2>3. CASE LiveRows(s, x) # {}
    <3> DEFINE r == CHOOSE r \in LiveRows(s, x) : TRUE
    <3>1. r \in LiveRows(s, x)
      BY <2>3
    <3>2. PICK j \in DOMAIN s : s[j].refs # LenMax /\ s[j].key = x /\ r = s[j]
      BY <2>2, <3>1
    <3>3. \A l \in DOMAIN s : s[l].key = x => l = j
      BY <3>2, KeysApart, Zenon DEF OneSlotEach
    <3>4. StoreOf(s)[x] = s[j].data
      BY <2>1, <2>3, <3>2
    <3> HIDE DEF r
    <3> QED BY <1>1, <3>2, <3>3, <3>4 DEF Shows
  <2>4. CASE LiveRows(s, x) = {}
    <3>1. \A j \in DOMAIN s : s[j].key = x => s[j].refs = LenMax
      BY <2>2, <2>4
    <3> QED BY <2>1, <2>4, <3>1, DataAssumption DEF Shows
  <2> QED BY <2>3, <2>4
<1>3. StoreOf(s) \in [Keys -> Data \cup {NoData}]
  <2>1. DOMAIN StoreOf(s) = Keys /\ StoreOf(s) = [x \in Keys |-> StoreOf(s)[x]]
    BY DEF StoreOf
  <2> QED BY <1>2, <2>1
<1> QED BY <1>2, <1>3

(* So the store is known by what is shown.                                 *)
LEMMA StoreFrom ==
  ASSUME NEW s, SlotsSound(s), NEW f \in [Keys -> Data \cup {NoData}],
         \A x \in Keys, v \in Data : f[x] = v <=> Shows(s, x, v)
  PROVE  StoreOf(s) = f
<1>1. /\ StoreOf(s) \in [Keys -> Data \cup {NoData}]
      /\ \A x \in Keys, v \in Data : StoreOf(s)[x] = v <=> Shows(s, x, v)
  BY StoreIs
<1>2. ASSUME NEW x \in Keys PROVE StoreOf(s)[x] = f[x]
  <2>1. f[x] \in Data \cup {NoData} /\ StoreOf(s)[x] \in Data \cup {NoData}
    BY <1>1
  <2>2. \A v \in Data : f[x] = v <=> StoreOf(s)[x] = v
    BY <1>1
  <2> QED BY <2>1, <2>2
<1> QED BY <1>1, <1>2

LEMMA LostIs ==
  ASSUME NEW s, SlotsSound(s)
  PROVE  /\ LostOf(s) \subseteq Keys \X Data
         /\ \A x \in Keys, v \in Data : <<x, v>> \in LostOf(s) <=> Hides(s, x, v)
<1>1. LostOf(s) = {<<s[j].key, s[j].data>> : j \in {j \in DOMAIN s : s[j].refs = LenMax /\ s[j].data # NoData}}
  BY DEF LostOf, Range
<1>2. \A j \in DOMAIN s : s[j].data \in Data \cup {NoData} /\ s[j].key \in Keys
  BY RowIs DEF SlotsSound
<1>3. ASSUME NEW x \in Keys, NEW v \in Data PROVE <<x, v>> \in LostOf(s) <=> Hides(s, x, v)
  BY <1>1, DataAssumption DEF Hides
<1> QED BY <1>1, <1>2, <1>3

LEMMA LostFrom ==
  ASSUME NEW s, SlotsSound(s), NEW L \in SUBSET (Keys \X Data),
         \A x \in Keys, v \in Data : <<x, v>> \in L <=> Hides(s, x, v)
  PROVE  LostOf(s) = L
<1>1. /\ LostOf(s) \subseteq Keys \X Data
      /\ \A x \in Keys, v \in Data : <<x, v>> \in LostOf(s) <=> Hides(s, x, v)
  BY LostIs
<1> QED BY <1>1

CachedIn(s) == {x \in Keys : StoreOf(s)[x] # NoData}

(* The cache is full of live entries only if every slot is in use.         *)
LEMMA FullIs ==
  ASSUME NEW s, SlotsSound(s)
  PROVE  Cardinality(CachedIn(s)) = LenMax
            <=> Len(s) = LenMax /\ \A j \in DOMAIN s : s[j].refs # LenMax
<1> DEFINE live == {j \in DOMAIN s : s[j].refs # LenMax}
           f == [j \in live |-> s[j].key]
<1>1. DOMAIN s = 1 .. Len(s) /\ Len(s) \in Nat /\ Len(s) <= LenMax /\ LenMax \in Nat
  BY LenMaxAssumption DEF SlotsSound, Fits
<1>2. /\ \A x \in Keys : StoreOf(s)[x] \in Data \cup {NoData}
      /\ \A x \in Keys, v \in Data : StoreOf(s)[x] = v <=> Shows(s, x, v)
  BY StoreIs
<1>3. \A j \in live : s[j].key \in Keys /\ s[j].data \in Data
  BY RowIs DEF SlotsSound, LiveApart
<1>4. f \in Bijection(live, CachedIn(s))
  <2>1. \A j \in live : s[j].key \in CachedIn(s)
    <3> SUFFICES ASSUME NEW j \in live PROVE s[j].key \in CachedIn(s)
      OBVIOUS
    <3>1. Shows(s, s[j].key, s[j].data)
      BY DEF Shows
    <3> QED BY <1>2, <1>3, <3>1, DataAssumption DEF CachedIn
  <2>2. \A i, j \in live : s[i].key = s[j].key => i = j
    BY KeysApart DEF OneSlotEach
  <2>3. ASSUME NEW x \in CachedIn(s) PROVE \E j \in live : f[j] = x
    <3>1. x \in Keys /\ StoreOf(s)[x] \in Data
      BY <1>2, <2>3 DEF CachedIn
    <3>2. Shows(s, x, StoreOf(s)[x])
      BY <1>2, <3>1
    <3>3. PICK j \in DOMAIN s : s[j].key = x /\ s[j].refs # LenMax
      BY <3>2, Zenon DEF Shows
    <3> QED BY <3>3
  <2>4. f \in [live -> CachedIn(s)]
    BY <2>1
  <2>5. \A i, j \in live : f[i] = f[j] => i = j
    BY <2>2
  <2> HIDE DEF f, live
  <2> QED BY <2>3, <2>4, <2>5, Fun_IsBij
<1>5. IsFiniteSet(1 .. Len(s)) /\ Cardinality(1 .. Len(s)) = Len(s)
  BY <1>1, IntervalSize
<1>6. /\ IsFiniteSet(live) /\ Cardinality(live) \in Nat /\ Cardinality(live) <= Len(s)
      /\ (Cardinality(live) = Len(s) => live = 1 .. Len(s))
  <2>1. live \in SUBSET (1 .. Len(s))
    BY <1>1
  <2> HIDE DEF live
  <2> QED BY <1>5, <2>1, FS_Subset, FS_CardinalityType
<1>7. Cardinality(CachedIn(s)) = Cardinality(live)
  <2>1. ExistsBijection(live, CachedIn(s))
    BY <1>4, Fun_ExistsBij DEF ExistsBijection
  <2> HIDE DEF live
  <2> QED BY <1>6, <2>1, FS_Bijection
<1>8. ASSUME Cardinality(CachedIn(s)) = LenMax
      PROVE  Len(s) = LenMax /\ \A j \in DOMAIN s : s[j].refs # LenMax
  <2> HIDE DEF live
  <2>0. /\ Cardinality(live) \in Nat /\ Cardinality(live) <= Len(s)
        /\ Len(s) \in Nat /\ Len(s) <= LenMax /\ LenMax \in Nat
        /\ Cardinality(live) = LenMax
    BY <1>1, <1>6, <1>7, <1>8, Zenon
  <2>1. Cardinality(live) = LenMax /\ Cardinality(live) = Len(s)
    BY <2>0
  <2>2. live = DOMAIN s
    BY <1>1, <1>6, <2>1
  <2> QED BY <2>1, <2>2 DEF live
<1>9. ASSUME Len(s) = LenMax, \A j \in DOMAIN s : s[j].refs # LenMax
      PROVE  Cardinality(CachedIn(s)) = LenMax
  <2>1. live = 1 .. Len(s)
    BY <1>1, <1>9
  <2> QED BY <1>5, <1>7, <1>9, <2>1
<1> QED BY <1>8, <1>9

(* The actions of ForgetfulCache, in terms of the vector.                  *)
PairsIn(s, ks) == {<<x, StoreOf(s)[x]>> : x \in ks}

SameEntries(s, t) == StoreOf(t) = StoreOf(s) /\ LostOf(t) = LostOf(s)

LEMMA ForgetfulSize == \A S : Forgetful!Cardinality(S) = Cardinality(S)
BY DEF Forgetful!Cardinality, Cardinality

LEMMA ForgetfulFind ==
  ASSUME NEW k \in Keys, SameEntries(cache, cache'),
         reply' = Reply("find", StoreOf(cache)[k], {})
  PROVE  Forgetful!Find(k)
BY Zenon DEF Forgetful!Find, SameEntries, StoreOf, LostOf, LiveRows, LiveAt, Live,
             Kept, IsValid, DataOf, Forgetful!Reply, Reply, Range, Range

LEMMA ForgetfulFindMutable ==
  ASSUME NEW k \in Keys, NEW d \in Data, LostOf(cache') = LostOf(cache),
         reply' = Reply("find_mutable", StoreOf(cache)[k], {}),
         StoreOf(cache') = IF k \in CachedIn(cache)
                                THEN [StoreOf(cache) EXCEPT ![k] = d] ELSE StoreOf(cache)
  PROVE  Forgetful!FindMutable(k, d)
BY Zenon DEF Forgetful!FindMutable, CachedIn, StoreOf, LostOf, LiveRows, LiveAt, Live,
             Kept, IsValid, DataOf, Forgetful!Reply, Reply, Range, Range,
             Forgetful!Cached

LEMMA ForgetfulExists ==
  ASSUME NEW k \in Keys, SameEntries(cache, cache'),
         reply' = Reply("exists", k \in CachedIn(cache), {})
  PROVE  Forgetful!Exists(k)
BY Zenon DEF Forgetful!Exists, SameEntries, CachedIn, StoreOf, LostOf, LiveRows, LiveAt,
             Live, Kept, IsValid, DataOf, Forgetful!Reply, Reply,
             Range, Range, Forgetful!Cached

LEMMA ForgetfulOverwrite ==
  ASSUME NEW k \in Keys, NEW d \in Data, k \in CachedIn(cache),
         reply' = Reply("update", NoData, PairsIn(cache, {k})),
         StoreOf(cache') = [StoreOf(cache) EXCEPT ![k] = d],
         LostOf(cache') = LostOf(cache)
  PROVE  Forgetful!Overwrite(k, d)
BY Zenon DEF Forgetful!Overwrite, PairsIn, CachedIn, StoreOf, LostOf, LiveRows, LiveAt,
             Live, Kept, IsValid, DataOf, Forgetful!Reply, Reply,
             Range, Range, Forgetful!Cached, Forgetful!Pairs

FullIn(s) == Cardinality(CachedIn(s)) = LenMax

AtMostOneOf(S) == {{}} \cup {{x} : x \in S}

Forgets(s, t, k, d, out, forgot) ==
    /\ FullIn(s) => out # {} /\ forgot = {}
    /\ StoreOf(t) = [x \in Keys |-> IF x = k THEN d
                                    ELSE IF x \in forgot \/ (FullIn(s) /\ <<x, StoreOf(s)[x]>> \in out)
                                         THEN NoData ELSE StoreOf(s)[x]]
    /\ LostOf(t) = (LostOf(s) \ out) \cup PairsIn(s, forgot)

LEMMA ForgetfulInsert ==
  ASSUME NEW k \in Keys, NEW d \in Data, k \notin CachedIn(cache),
         NEW out \in AtMostOneOf(IF FullIn(cache) THEN PairsIn(cache, CachedIn(cache))
                                 ELSE LostOf(cache)),
         NEW forgot \in AtMostOneOf(CachedIn(cache)),
         reply' = Reply("update", NoData, out),
         Forgets(cache, cache', k, d, out, forgot)
  PROVE  Forgetful!Insert(k, d)
<1>1. Forgetful!Cached = CachedIn(cache)
  BY Zenon DEF Forgetful!Cached, CachedIn, StoreOf, LiveRows, LiveAt, Live, IsValid,
               DataOf, Range, Range
<1>2. Forgetful!Full <=> FullIn(cache)
  BY <1>1, ForgetfulSize DEF Forgetful!Full, FullIn
<1>3. \A ks : Forgetful!Pairs(ks) = PairsIn(cache, ks)
  BY Zenon DEF Forgetful!Pairs, PairsIn, StoreOf, LiveRows, LiveAt, Live, IsValid,
               DataOf, Range, Range
<1>4. k \notin Forgetful!Cached
  BY <1>1
<1>5. /\ out \in Forgetful!AtMostOne(IF Forgetful!Full THEN Forgetful!Pairs(Forgetful!Cached)
                                         ELSE {<<s.key, s.data>> : s \in Kept})
      /\ forgot \in Forgetful!AtMostOne(Forgetful!Cached)
  <2>1. {<<s.key, s.data>> : s \in Kept} = LostOf(cache)
    BY Zenon DEF LostOf, Kept, IsValid, Range, Range
  <2>2. \A S : Forgetful!AtMostOne(S) = AtMostOneOf(S)
    BY Zenon DEF Forgetful!AtMostOne, AtMostOneOf
  <2> QED BY <1>1, <1>2, <1>3, <2>1, <2>2
<1>6. /\ reply' = Forgetful!Reply("update", NoData, out)
      /\ Forgetful!Full => out # {} /\ forgot = {}
  BY <1>2 DEF Forgets, Forgetful!Reply, Reply
<1>7. StoreOf(cache') =
         [x \in Keys |-> IF x = k THEN d
                         ELSE IF x \in forgot \/ (Forgetful!Full /\ <<x, StoreOf(cache)[x]>> \in out)
                              THEN NoData ELSE StoreOf(cache)[x]]
  BY <1>2, Zenon DEF Forgets
<1>8. LostOf(cache') = (LostOf(cache) \ out) \cup Forgetful!Pairs(forgot)
  BY <1>3, Zenon DEF Forgets
<1> QED
  BY <1>4, <1>5, <1>6, <1>7, <1>8, Zenon
     DEF Forgetful!Insert, StoreOf, LostOf, LiveRows, LiveAt, Live, Kept,
         IsValid, DataOf, Range, Range

LEMMA ForgetfulInvalidate ==
  ASSUME NEW k \in Keys, reply' = Reply("invalidate", NoData, {}),
         StoreOf(cache') = [StoreOf(cache) EXCEPT ![k] = NoData],
         LostOf(cache') = LostOf(cache)
  PROVE  Forgetful!Invalidate(k)
BY Zenon DEF Forgetful!Invalidate, StoreOf, LostOf, LiveRows, LiveAt, Live,
             Kept, IsValid, DataOf, Forgetful!Reply, Reply, Range, Range

LEMMA ForgetfulInvalidateRange ==
  ASSUME NEW lo \in Keys, NEW hi \in Keys, lo < hi,
         reply' = Reply("invalidate_range", NoData, {}),
         StoreOf(cache') = [x \in Keys |-> IF x \in lo .. (hi - 1) THEN NoData
                                                ELSE StoreOf(cache)[x]],
         LostOf(cache') = {p \in LostOf(cache) : p[1] \notin lo .. (hi - 1)}
  PROVE  Forgetful!InvalidateRange(lo, hi)
BY Zenon DEF Forgetful!InvalidateRange, StoreOf, LostOf, LiveRows, LiveAt, Live,
             Kept, IsValid, DataOf, Forgetful!Reply, Reply, Range, Range

LEMMA ForgetfulInit ==
  ASSUME reply = Created, StoreOf(cache) = [x \in Keys |-> NoData],
         LostOf(cache) = {}
  PROVE  Forgetful!Init
BY Zenon DEF Forgetful!Init, StoreOf, LostOf, LiveRows, LiveAt, Live, Kept,
             IsValid, DataOf, Forgetful!Created, Forgetful!Reply, Created,
             Reply, Range, Range

(* Slots that keep their keys, their data and whether they are live.       *)
Alike(s, t) ==
    /\ DOMAIN t = DOMAIN s
    /\ \A j \in DOMAIN s : /\ t[j].key = s[j].key /\ t[j].data = s[j].data
                           /\ t[j].refs = LenMax <=> s[j].refs = LenMax

LEMMA AlikeIs ==
  ASSUME NEW s, NEW t, SlotsSound(s), SlotsSound(t), Alike(s, t)
  PROVE  SameEntries(s, t)
<1>1. \A x \in Keys, v \in Data : (Shows(t, x, v) <=> Shows(s, x, v)) /\ (Hides(t, x, v) <=> Hides(s, x, v))
  BY DEF Shows, Hides, Alike
<1>2. StoreOf(t) = StoreOf(s)
  BY <1>1, StoreIs, StoreFrom
<1>3. LostOf(t) = LostOf(s)
  BY <1>1, LostIs, LostFrom
<1> QED BY <1>2, <1>3 DEF SameEntries

(* No entry grows too old by the use of a live one: only those younger     *)
(* than it age.                                                            *)
LEMMA TouchLive ==
  ASSUME NEW s, SlotsSound(s), NEW i \in DOMAIN s, s[i].refs # LenMax, NEW t, t = Touch(s, i)
  PROVE  SlotsSound(t) /\ Alike(s, t)
<1>1. /\ SlotsSound(t) /\ DOMAIN t = DOMAIN s
      /\ \A j \in DOMAIN s :
            /\ t[j].key = s[j].key /\ t[j].data = s[j].data
            /\ t[j].refs = IF j = i THEN 0
                           ELSE IF s[j].refs < s[i].refs THEN s[j].refs + 1 ELSE s[j].refs
  BY TouchIs DEF SlotsSound, LiveApart
<1>2. \A j \in DOMAIN s : s[j].refs \in 0 .. LenMax
  BY RowIs DEF SlotsSound
<1>3. ASSUME NEW j \in DOMAIN s PROVE t[j].refs = LenMax <=> s[j].refs = LenMax
  <2>1. /\ s[j].refs \in 0 .. LenMax /\ s[i].refs \in 0 .. LenMax /\ LenMax \in Nat /\ LenMax # 0
        /\ t[j].refs = IF j = i THEN 0
                       ELSE IF s[j].refs < s[i].refs THEN s[j].refs + 1 ELSE s[j].refs
    BY <1>1, <1>2, LenMaxAssumption
  <2> QED BY <2>1
<1> QED BY <1>1, <1>3 DEF Alike

(* A slot that is taken over ages all the others, and the one of the       *)
(* highest age is lost.                                                    *)
LEMMA TouchDead ==
  ASSUME NEW s, SlotsSound(s), NEW i \in DOMAIN s, s[i].refs = LenMax, s[i].data # NoData,
         NEW t, t = Touch(s, i)
  PROVE  /\ SlotsSound(t) /\ DOMAIN t = DOMAIN s /\ t[i].refs # LenMax
         /\ \A j \in DOMAIN s : /\ t[j].key = s[j].key /\ t[j].data = s[j].data
                                /\ j # i => (t[j].refs = LenMax <=> s[j].refs \in {LenMax - 1, LenMax})
<1>1. /\ SlotsSound(t) /\ DOMAIN t = DOMAIN s
      /\ \A j \in DOMAIN s :
            /\ t[j].key = s[j].key /\ t[j].data = s[j].data
            /\ t[j].refs = IF j = i THEN 0
                           ELSE IF s[j].refs < s[i].refs THEN s[j].refs + 1 ELSE s[j].refs
  BY TouchIs DEF SlotsSound
<1>2. \A j \in DOMAIN s : s[j].refs \in 0 .. LenMax
  BY RowIs DEF SlotsSound
<1>3. ASSUME NEW j \in DOMAIN s, j # i PROVE t[j].refs = LenMax <=> s[j].refs \in {LenMax - 1, LenMax}
  <2>1. /\ s[j].refs \in 0 .. LenMax /\ LenMax \in Nat
        /\ t[j].refs = IF s[j].refs < LenMax THEN s[j].refs + 1 ELSE s[j].refs
    BY <1>1, <1>2, <1>3, LenMaxAssumption
  <2> QED BY <2>1
<1>4. t[i].refs # LenMax
  BY <1>1, LenMaxAssumption
<1> QED BY <1>1, <1>3, <1>4

LEMMA HitShows ==
  ASSUME SlotsSound(cache), NEW k \in Keys
  PROVE  /\ Hit(k) <=> k \in CachedIn(cache)
         /\ Hit(k) => /\ StoreOf(cache)[k] = cache[LowerBound(k)].data
                      /\ LowerBound(k) \in DOMAIN cache
                      /\ cache[LowerBound(k)].refs # LenMax
                      /\ cache[LowerBound(k)].key = k
         /\ ~Hit(k) => StoreOf(cache)[k] = NoData
<1> DEFINE s == cache
           i == LowerBound(k)
<1>1. /\ Hit(k) => /\ i \in DOMAIN s /\ s[i].key = k /\ s[i].refs # LenMax
      /\ ~Hit(k) => \A j \in DOMAIN s : s[j].key = k => s[j].refs = LenMax
  BY HitIs DEF SlotsSound
<1>2. /\ StoreOf(s)[k] \in Data \cup {NoData}
      /\ \A v \in Data : StoreOf(s)[k] = v <=> Shows(s, k, v)
  BY StoreIs
<1> HIDE DEF i
<1>3. ASSUME Hit(k) PROVE StoreOf(s)[k] = s[i].data /\ s[i].data # NoData
  <2>1. s[i].data \in Data
    BY <1>1, <1>3, RowIs DEF SlotsSound, LiveApart
  <2>2. Shows(s, k, s[i].data)
    BY <1>1, <1>3 DEF Shows
  <2> QED BY <1>2, <2>1, <2>2, DataAssumption
<1>4. ASSUME ~Hit(k) PROVE StoreOf(s)[k] = NoData
  <2>1. \A v \in Data : ~Shows(s, k, v)
    BY <1>1, <1>4 DEF Shows
  <2> QED BY <1>2, <2>1
<1> QED BY <1>1, <1>3, <1>4 DEF CachedIn, i

LEMMA FindForgetful ==
  ASSUME IInv, NEW k \in Keys, Find(k)
  PROVE  Forgetful!Find(k)
<1> DEFINE s == cache
           i == LowerBound(k)
<1>1. SlotsSound(s)
  BY DEF IInv
<1>2. /\ Hit(k) => StoreOf(s)[k] = s[i].data /\ i \in DOMAIN s /\ s[i].refs # LenMax
      /\ ~Hit(k) => StoreOf(s)[k] = NoData
  BY <1>1, HitShows
<1>3. CASE Hit(k) /\ cache' = Touch(s, i) /\ reply' = Reply("find", s[i].data, {})
  <2> HIDE DEF i
  <2>1. SlotsSound(cache') /\ Alike(s, cache')
    BY <1>1, <1>2, <1>3, TouchLive
  <2>2. SameEntries(s, cache')
    BY <1>1, <2>1, AlikeIs
  <2> QED BY <1>2, <1>3, <2>2, ForgetfulFind
<1>4. CASE ~Hit(k) /\ reply' = Reply("find", NoData, {}) /\ UNCHANGED cache
  <2>1. SameEntries(s, cache')
    BY <1>4 DEF SameEntries
  <2> QED BY <1>2, <1>4, <2>1, ForgetfulFind
<1> QED BY <1>3, <1>4, Zenon DEF Find

LEMMA ExistsForgetful ==
  ASSUME IInv, NEW k \in Keys, Exists(k)
  PROVE  Forgetful!Exists(k)
<1>1. reply' = Reply("exists", Hit(k), {}) /\ UNCHANGED cache
  BY Zenon DEF Exists
<1>2. Hit(k) = (k \in CachedIn(cache))
  <2>1. Hit(k) \in BOOLEAN
    BY DEF Hit
  <2> QED BY <2>1, HitShows DEF IInv
<1>3. SameEntries(cache, cache')
  BY <1>1 DEF SameEntries
<1> QED BY <1>1, <1>2, <1>3, ForgetfulExists

LEMMA FindMutableForgetful ==
  ASSUME IInv, NEW k \in Keys, NEW d \in Data, FindMutable(k, d)
  PROVE  Forgetful!FindMutable(k, d)
<1> DEFINE s == cache
           i == LowerBound(k)
           t == Written(s, i, d)
<1>1. SlotsSound(s)
  BY DEF IInv
<1>2. /\ Hit(k) => /\ StoreOf(s)[k] = s[i].data /\ i \in DOMAIN s /\ s[i].refs # LenMax
                   /\ s[i].key = k
      /\ ~Hit(k) => StoreOf(s)[k] = NoData
      /\ Hit(k) <=> k \in CachedIn(s)
  BY <1>1, HitShows
<1>3. CASE Hit(k) /\ cache' = Touch(t, i) /\ reply' = Reply("find_mutable", s[i].data, {})
  <2> HIDE DEF i
  <2>1. /\ SlotsSound(t) /\ DOMAIN t = DOMAIN s /\ t[i].data = d
        /\ \A j \in DOMAIN s : /\ t[j].key = s[j].key /\ t[j].refs = s[j].refs
                               /\ j # i => t[j].data = s[j].data
    <3>1. i \in DOMAIN s
      BY <1>2, <1>3
    <3> HIDE DEF t
    <3> QED BY <1>1, <3>1, WrittenIs DEF t
  <2> HIDE DEF t
  <2>2. SlotsSound(cache') /\ Alike(t, cache')
    <3>1. i \in DOMAIN t /\ t[i].refs # LenMax
      BY <1>2, <1>3, <2>1
    <3> QED BY <1>3, <2>1, <3>1, TouchLive
  <2>3. SameEntries(t, cache')
    BY <2>1, <2>2, AlikeIs
  <2>4. OneSlotEach(s) /\ i \in DOMAIN s /\ s[i].key = k /\ s[i].refs # LenMax
    BY <1>1, <1>2, <1>3, KeysApart
  <2>5. StoreOf(t) = [StoreOf(s) EXCEPT ![k] = d]
    <3> DEFINE f == [StoreOf(s) EXCEPT ![k] = d]
    <3>1. /\ StoreOf(s) \in [Keys -> Data \cup {NoData}]
          /\ \A x \in Keys, v \in Data : StoreOf(s)[x] = v <=> Shows(s, x, v)
      BY <1>1, StoreIs
    <3>2. f \in [Keys -> Data \cup {NoData}] /\ f[k] = d /\ \A x \in Keys : x # k => f[x] = StoreOf(s)[x]
      BY <3>1
    <3>3. ASSUME NEW x \in Keys, NEW v \in Data PROVE f[x] = v <=> Shows(t, x, v)
      <4>1. CASE x = k
        <5>1. Shows(t, k, v) <=> v = d
          BY <2>1, <2>4 DEF Shows, OneSlotEach
        <5> QED BY <3>2, <4>1, <5>1
      <4>2. CASE x # k
        <5>1. Shows(t, x, v) <=> Shows(s, x, v)
          BY <2>1, <2>4, <4>2 DEF Shows
        <5> QED BY <3>1, <3>2, <4>2, <5>1
      <4> QED BY <4>1, <4>2
    <3> HIDE DEF f
    <3>4. StoreOf(t) = f
      BY <2>1, <3>2, <3>3, StoreFrom
    <3> QED BY <3>4 DEF f
  <2>6. LostOf(t) = LostOf(s)
    <3>1. \A x \in Keys, v \in Data : Hides(t, x, v) <=> Hides(s, x, v)
      BY <2>1, <2>4 DEF Hides
    <3> QED BY <1>1, <2>1, <3>1, LostIs, LostFrom
  <2>7. StoreOf(cache') = [StoreOf(s) EXCEPT ![k] = d] /\ LostOf(cache') = LostOf(s)
    BY <2>3, <2>5, <2>6 DEF SameEntries
  <2> QED BY <1>2, <1>3, <2>7, ForgetfulFindMutable
<1>4. CASE ~Hit(k) /\ reply' = Reply("find_mutable", NoData, {}) /\ UNCHANGED cache
  <2>1. StoreOf(cache') = StoreOf(s) /\ LostOf(cache') = LostOf(s)
    BY <1>4
  <2> QED BY <1>2, <1>4, <2>1, ForgetfulFindMutable
<1> QED BY <1>3, <1>4, Zenon DEF FindMutable, Written

(* The slots of the keys gone are cleared.                                 *)
LEMMA ClearedIs ==
  ASSUME SlotsSound(cache), NEW gone, NEW keys,
         \A j \in DOMAIN cache : j \in gone <=> cache[j].key \in keys
  PROVE  /\ StoreOf(Cleared(gone)) = [x \in Keys |-> IF x \in keys THEN NoData
                                                     ELSE StoreOf(cache)[x]]
         /\ LostOf(Cleared(gone)) = {p \in LostOf(cache) : p[1] \notin keys}
<1> DEFINE s == cache
           t == Cleared(gone)
           f == [x \in Keys |-> IF x \in keys THEN NoData ELSE StoreOf(s)[x]]
           L == {p \in LostOf(s) : p[1] \notin keys}
<1>1. /\ SlotsSound(t) /\ DOMAIN t = DOMAIN s
      /\ \A i \in DOMAIN s :
            /\ t[i].key = s[i].key
            /\ i \in gone => t[i].data = NoData /\ t[i].refs = LenMax
            /\ i \notin gone => t[i] = s[i]
  <2>1. t = [i \in DOMAIN s |-> IF i \in gone THEN Invalidated(s[i]) ELSE s[i]]
    BY DEF Cleared
  <2> HIDE DEF t
  <2> QED BY <2>1, InvalidatedIs
<1> HIDE DEF t
<1>2. /\ StoreOf(s) \in [Keys -> Data \cup {NoData}]
      /\ \A x \in Keys, v \in Data : StoreOf(s)[x] = v <=> Shows(s, x, v)
      /\ LostOf(s) \subseteq Keys \X Data
      /\ \A x \in Keys, v \in Data : <<x, v>> \in LostOf(s) <=> Hides(s, x, v)
  BY StoreIs, LostIs
<1>3. ASSUME NEW x \in Keys, NEW v \in Data
      PROVE  /\ Shows(t, x, v) <=> x \notin keys /\ Shows(s, x, v)
             /\ Hides(t, x, v) <=> x \notin keys /\ Hides(s, x, v)
  <2>1. v # NoData
    BY DataAssumption
  <2>2. CASE x \in keys
    <3>1. \A j \in DOMAIN t : t[j].key = x => t[j].data = NoData
      BY <1>1, <2>2
    <3> QED BY <2>1, <2>2, <3>1 DEF Shows, Hides
  <2>3. CASE x \notin keys
    <3>1. \A j \in DOMAIN s : s[j].key = x \/ t[j].key = x => t[j] = s[j]
      BY <1>1, <2>3
    <3> QED BY <1>1, <2>3, <3>1 DEF Shows, Hides
  <2> QED BY <2>2, <2>3
<1>4. StoreOf(t) = f
  <2>1. f \in [Keys -> Data \cup {NoData}]
    BY <1>2
  <2>2. \A x \in Keys, v \in Data : f[x] = v <=> Shows(t, x, v)
    BY <1>2, <1>3, DataAssumption
  <2> HIDE DEF f
  <2> QED BY <1>1, <2>1, <2>2, StoreFrom
<1>5. LostOf(t) = L
  <2>1. L \in SUBSET (Keys \X Data)
    BY <1>2
  <2>2. \A x \in Keys, v \in Data : <<x, v>> \in L <=> Hides(t, x, v)
    BY <1>2, <1>3
  <2> HIDE DEF L
  <2> QED BY <1>1, <2>1, <2>2, LostFrom
<1> QED BY <1>4, <1>5 DEF t

LEMMA InvalidateForgetful ==
  ASSUME IInv, NEW k \in Keys, Invalidate(k)
  PROVE  Forgetful!Invalidate(k)
<1> DEFINE s == cache
           gone == IF Hit(k) THEN {LowerBound(k)} ELSE {}
<1>1. SlotsSound(s)
  BY DEF IInv
<1>2. reply' = Reply("invalidate", NoData, {}) /\ cache' = Cleared(gone)
  BY <1>1, InvalidateClears, Zenon DEF Invalidate
<1>3. /\ StoreOf(s) \in [Keys -> Data \cup {NoData}]
      /\ LostOf(s) \subseteq Keys \X Data
      /\ \A x \in Keys, v \in Data : <<x, v>> \in LostOf(s) <=> Hides(s, x, v)
  BY <1>1, StoreIs, LostIs
<1>4. CASE Hit(k)
  <2>1. /\ LowerBound(k) \in DOMAIN s /\ s[LowerBound(k)].key = k
        /\ s[LowerBound(k)].refs # LenMax
    BY <1>1, <1>4, HitShows
  <2>2. \A j \in DOMAIN s : j \in gone <=> s[j].key \in {k}
    BY <1>1, <1>4, <2>1, KeysApart DEF OneSlotEach
  <2> HIDE DEF gone
  <2>3. /\ StoreOf(cache') = [x \in Keys |-> IF x \in {k} THEN NoData ELSE StoreOf(s)[x]]
        /\ LostOf(cache') = {p \in LostOf(s) : p[1] \notin {k}}
    BY <1>1, <1>2, <2>2, ClearedIs
  <2>4. \A v \in Data : ~Hides(s, k, v)
    BY <1>1, <2>1, KeysApart DEF OneSlotEach, Hides
  <2>5. LostOf(cache') = LostOf(s)
    BY <1>3, <2>3, <2>4
  <2>6. StoreOf(cache') = [StoreOf(s) EXCEPT ![k] = NoData]
    BY <1>3, <2>3
  <2> QED BY <1>2, <2>5, <2>6, ForgetfulInvalidate
<1>5. CASE ~Hit(k)
  <2>1. StoreOf(s)[k] = NoData
    BY <1>1, <1>5, HitShows
  <2> DEFINE none == {}
  <2>2. \A j \in DOMAIN s : j \in gone <=> s[j].key \in none
    BY <1>5
  <2> HIDE DEF gone, none
  <2>3. /\ StoreOf(cache') = [x \in Keys |-> IF x \in none THEN NoData ELSE StoreOf(s)[x]]
        /\ LostOf(cache') = {p \in LostOf(s) : p[1] \notin none}
    BY <1>1, <1>2, <2>2, ClearedIs
  <2> USE DEF none
  <2>4. LostOf(cache') = LostOf(s)
    BY <2>3
  <2>5. StoreOf(cache') = [StoreOf(s) EXCEPT ![k] = NoData]
    BY <1>3, <2>1, <2>3
  <2> QED BY <1>2, <2>4, <2>5, ForgetfulInvalidate
<1> QED BY <1>4, <1>5

LEMMA InvalidateRangeForgetful ==
  ASSUME IInv, NEW lo \in Keys, NEW hi \in Keys, InvalidateRange(lo, hi)
  PROVE  Forgetful!InvalidateRange(lo, hi)
<1> DEFINE s == cache
           a == LowerBound(lo)
           b == LowerBound(hi)
<1>1. SlotsSound(s)
  BY DEF IInv
<1>2. /\ lo < hi
      /\ cache' = Cleared(a .. (b - 1))
      /\ reply' = Reply("invalidate_range", NoData, {})
  BY Zenon DEF InvalidateRange, Cleared
<1>3. /\ a \in 1 .. Len(s) + 1 /\ b \in 1 .. Len(s) + 1
      /\ \A j \in DOMAIN s : (j < a => s[j].key < lo) /\ (j >= a => s[j].key >= lo)
      /\ \A j \in DOMAIN s : (j < b => s[j].key < hi) /\ (j >= b => s[j].key >= hi)
  BY <1>1, BoundIs DEF SlotsSound
<1>4. /\ DOMAIN s = 1 .. Len(s) /\ Len(s) \in Nat /\ lo \in Nat /\ hi \in Nat
      /\ \A j \in DOMAIN s : s[j].key \in Nat
  BY <1>1, RowIs, KeysAssumption DEF SlotsSound, Fits
<1> HIDE DEF a, b
<1> DEFINE keys == lo .. (hi - 1)
           gone == a .. (b - 1)
<1>5. \A j \in DOMAIN s : j \in gone <=> s[j].key \in keys
  BY <1>3, <1>4
<1>6. cache' = Cleared(gone)
  BY <1>2
<1> HIDE DEF keys, gone
<1>7. /\ StoreOf(cache') = [x \in Keys |-> IF x \in keys THEN NoData ELSE StoreOf(s)[x]]
      /\ LostOf(cache') = {p \in LostOf(s) : p[1] \notin keys}
  BY <1>1, <1>5, <1>6, ClearedIs
<1> QED BY <1>2, <1>7, ForgetfulInvalidateRange DEF keys

(* A live slot is replaced: nothing is lost but what it held.              *)
LEMMA LiveReplaced ==
  ASSUME NEW s, NEW u, NEW i, NEW e \in DOMAIN s, NEW k, NEW d,
         SlotsSound(s), SlotsSound(u), Replaced(s, u, i, e), u[i].key = k, u[i].data = d,
         e # 0, s[e].refs # LenMax,
         NEW t, t = Touch(u, i)
  PROVE  /\ SlotsSound(t)
         /\ \A x \in Keys, v \in Data :
               /\ Shows(t, x, v) <=> IF x = k THEN v = d ELSE x # s[e].key /\ Shows(s, x, v)
               /\ Hides(t, x, v) <=> Hides(s, x, v)
<1>1. /\ i \in DOMAIN u /\ u[i].refs # LenMax
      /\ \A j \in DOMAIN u : j # i => \E l \in DOMAIN s : l # e /\ u[j] = s[l]
      /\ \A l \in DOMAIN s : l # e => \E j \in DOMAIN u : j # i /\ u[j] = s[l]
  BY DEF Replaced
<1>2. SlotsSound(t) /\ Alike(u, t)
  BY <1>1, TouchLive
<1>3. OneSlotEach(s) /\ OneSlotEach(u)
  BY KeysApart
<1>4. ASSUME NEW x \in Keys, NEW v \in Data
      PROVE  /\ Shows(t, x, v) <=> Shows(u, x, v)
             /\ Hides(t, x, v) <=> Hides(u, x, v)
  BY <1>2 DEF Alike, Shows, Hides
<1>5. ASSUME NEW x \in Keys, NEW v \in Data
      PROVE  Shows(u, x, v) <=> IF x = k THEN v = d ELSE x # s[e].key /\ Shows(s, x, v)
  <2>1. CASE x = k
    BY <1>1, <1>3, <2>1 DEF Shows, OneSlotEach
  <2>2. ASSUME x # k, Shows(u, x, v) PROVE x # s[e].key /\ Shows(s, x, v)
    <3>1. PICK j \in DOMAIN u : u[j].key = x /\ u[j].data = v /\ u[j].refs # LenMax
      BY <2>2 DEF Shows
    <3>2. j # i
      BY <2>2, <3>1
    <3>3. PICK l \in DOMAIN s : l # e /\ u[j] = s[l]
      BY <1>1, <3>2
    <3> QED BY <1>3, <3>1, <3>3 DEF Shows, OneSlotEach
  <2>3. ASSUME x # s[e].key, Shows(s, x, v) PROVE Shows(u, x, v)
    <3>1. PICK l \in DOMAIN s : s[l].key = x /\ s[l].data = v /\ s[l].refs # LenMax
      BY <2>3 DEF Shows
    <3>2. PICK j \in DOMAIN u : j # i /\ u[j] = s[l]
      BY <1>1, <2>3, <3>1
    <3> QED BY <3>1, <3>2 DEF Shows
  <2> QED BY <2>1, <2>2, <2>3
<1>6. ASSUME NEW x \in Keys, NEW v \in Data PROVE Hides(u, x, v) <=> Hides(s, x, v)
  <2>1. ASSUME Hides(u, x, v) PROVE Hides(s, x, v)
    <3>1. PICK j \in DOMAIN u : u[j].key = x /\ u[j].data = v /\ u[j].refs = LenMax
      BY <2>1 DEF Hides
    <3>2. PICK l \in DOMAIN s : l # e /\ u[j] = s[l]
      BY <1>1, <3>1
    <3> QED BY <3>1, <3>2 DEF Hides
  <2>2. ASSUME Hides(s, x, v) PROVE Hides(u, x, v)
    <3>1. PICK l \in DOMAIN s : s[l].key = x /\ s[l].data = v /\ s[l].refs = LenMax
      BY <2>2 DEF Hides
    <3>2. PICK j \in DOMAIN u : j # i /\ u[j] = s[l]
      BY <1>1, <3>1
    <3> QED BY <3>1, <3>2 DEF Hides
  <2> QED BY <2>1, <2>2
<1> QED BY <1>2, <1>4, <1>5, <1>6

(* The entry that is as old as one can be.                                 *)
Oldest(s) == {x \in Keys : \E l \in DOMAIN s : s[l].key = x /\ s[l].refs = LenMax - 1}

(* What is handed to the caller with the slot.                             *)
Handed(s, e) == IF e = 0 THEN {} ELSE IF s[e].data = NoData THEN {} ELSE {<<s[e].key, s[e].data>>}

(* A slot that is not live, or a new one, is taken over: every live entry  *)
(* ages, and the oldest possible one is lost with its datum.               *)
LEMMA DeadReplaced ==
  ASSUME NEW s, NEW u, NEW i, NEW e, NEW k, NEW d \in Data,
         SlotsSound(s), SlotsSound(u), Replaced(s, u, i, e), u[i].key = k, u[i].data = d,
         u[i].refs = LenMax,
         NEW t, t = Touch(u, i)
  PROVE  /\ SlotsSound(t)
         /\ \A x \in Keys, v \in Data :
               /\ Shows(t, x, v) <=> IF x = k THEN v = d ELSE x \notin Oldest(s) /\ Shows(s, x, v)
               /\ Hides(t, x, v) <=> \/ x \in Oldest(s) /\ Shows(s, x, v)
                                     \/ Hides(s, x, v) /\ <<x, v>> \notin Handed(s, e)
<1>1. /\ i \in DOMAIN u /\ e \in DOMAIN s \cup {0} /\ (e # 0 => s[e].refs = LenMax)
      /\ \A j \in DOMAIN u : j # i => \E l \in DOMAIN s : l # e /\ u[j] = s[l]
      /\ \A l \in DOMAIN s : l # e => \E j \in DOMAIN u : j # i /\ u[j] = s[l]
  BY DEF Replaced
<1>2. /\ SlotsSound(t) /\ DOMAIN t = DOMAIN u /\ t[i].refs # LenMax
      /\ \A j \in DOMAIN u : /\ t[j].key = u[j].key /\ t[j].data = u[j].data
                             /\ j # i => (t[j].refs = LenMax <=> u[j].refs \in {LenMax - 1, LenMax})
  BY <1>1, TouchDead, DataAssumption
<1>3. OneSlotEach(s) /\ OneSlotEach(u)
  BY KeysApart
<1>4. 0 \notin DOMAIN s /\ LenMax - 1 # LenMax
  <2>1. DOMAIN s = 1 .. Len(s)
    BY DEF SlotsSound, Fits
  <2> QED BY <2>1, LenMaxAssumption
<1>5. ASSUME NEW x \in Keys, NEW v \in Data
      PROVE  Shows(t, x, v) <=> IF x = k THEN v = d ELSE x \notin Oldest(s) /\ Shows(s, x, v)
  <2>1. CASE x = k
    BY <1>1, <1>2, <1>3, <2>1 DEF Shows, OneSlotEach
  <2>2. ASSUME x # k, Shows(t, x, v) PROVE x \notin Oldest(s) /\ Shows(s, x, v)
    <3>1. PICK j \in DOMAIN u : t[j].key = x /\ t[j].data = v /\ t[j].refs # LenMax
      BY <1>2, <2>2 DEF Shows
    <3>2. j # i /\ u[j].key = x /\ u[j].data = v /\ u[j].refs \notin {LenMax - 1, LenMax}
      BY <1>2, <2>2, <3>1
    <3>3. PICK l \in DOMAIN s : l # e /\ u[j] = s[l]
      BY <1>1, <3>2
    <3>4. x \notin Oldest(s)
      BY <1>3, <3>2, <3>3 DEF Oldest, OneSlotEach
    <3> QED BY <3>2, <3>3, <3>4 DEF Shows
  <2>3. ASSUME x # k, x \notin Oldest(s), Shows(s, x, v) PROVE Shows(t, x, v)
    <3>1. PICK l \in DOMAIN s : s[l].key = x /\ s[l].data = v /\ s[l].refs # LenMax
      BY <2>3 DEF Shows
    <3>2. l # e /\ s[l].refs # LenMax - 1
      BY <1>1, <1>4, <2>3, <3>1 DEF Oldest
    <3>3. PICK j \in DOMAIN u : j # i /\ u[j] = s[l]
      BY <1>1, <3>2
    <3>4. t[j].key = x /\ t[j].data = v /\ t[j].refs # LenMax
      BY <1>2, <3>1, <3>2, <3>3
    <3> QED BY <1>2, <3>4 DEF Shows
  <2> QED BY <2>1, <2>2, <2>3
<1>6. ASSUME NEW x \in Keys, NEW v \in Data, Hides(t, x, v)
      PROVE  (x \in Oldest(s) /\ Shows(s, x, v)) \/ (Hides(s, x, v) /\ <<x, v>> \notin Handed(s, e))
  <2>1. PICK j \in DOMAIN u : t[j].key = x /\ t[j].data = v /\ t[j].refs = LenMax
    BY <1>2, <1>6 DEF Hides
  <2>2. j # i /\ u[j].key = x /\ u[j].data = v /\ u[j].refs \in {LenMax - 1, LenMax}
    BY <1>2, <2>1
  <2>3. PICK l \in DOMAIN s : l # e /\ u[j] = s[l]
    BY <1>1, <2>2
  <2>4. CASE u[j].refs = LenMax - 1
    BY <1>4, <2>2, <2>3, <2>4 DEF Oldest, Shows
  <2>5. CASE u[j].refs = LenMax
    <3>1. e # 0 => s[e].key # x
      BY <1>1, <1>3, <2>2, <2>3 DEF OneSlotEach
    <3> QED BY <2>2, <2>3, <2>5, <3>1 DEF Hides, Handed
  <2> QED BY <2>2, <2>4, <2>5
<1>7. ASSUME NEW x \in Keys, NEW v \in Data,
             (x \in Oldest(s) /\ Shows(s, x, v)) \/ (Hides(s, x, v) /\ <<x, v>> \notin Handed(s, e))
      PROVE  Hides(t, x, v)
  <2>1. PICK l \in DOMAIN s : l # e /\ s[l].key = x /\ s[l].data = v /\ s[l].refs \in {LenMax - 1, LenMax}
    <3>1. CASE x \in Oldest(s) /\ Shows(s, x, v)
      <4>1. PICK l \in DOMAIN s : s[l].key = x /\ s[l].refs = LenMax - 1
        BY <3>1 DEF Oldest
      <4>2. s[l].data = v
        BY <1>3, <3>1, <4>1 DEF Shows, OneSlotEach
      <4>3. l # e
        BY <1>1, <1>4, <4>1
      <4> QED BY <4>1, <4>2, <4>3
    <3>2. CASE Hides(s, x, v) /\ <<x, v>> \notin Handed(s, e)
      <4>1. PICK l \in DOMAIN s : s[l].key = x /\ s[l].data = v /\ s[l].refs = LenMax
        BY <3>2 DEF Hides
      <4>2. l # e
        BY <1>4, <3>2, <4>1, DataAssumption DEF Handed
      <4> QED BY <4>1, <4>2
    <3> QED BY <1>7, <3>1, <3>2
  <2>2. PICK j \in DOMAIN u : j # i /\ u[j] = s[l]
    BY <1>1, <2>1
  <2>3. t[j].key = x /\ t[j].data = v /\ t[j].refs = LenMax
    BY <1>2, <2>1, <2>2
  <2> QED BY <1>2, <2>3 DEF Hides
<1> QED BY <1>2, <1>5, <1>6, <1>7

(* The entry of a key is overwritten.                                      *)
LEMMA OverwriteForgetful ==
  ASSUME SlotsSound(cache), NEW k \in Keys, NEW d \in Data, NEW u, NEW i,
         NEW e \in DOMAIN cache, Updated(cache, u, i, e, k, d),
         cache[e].key = k, cache[e].refs # LenMax
  PROVE  Forgetful!Overwrite(k, d)
<1> DEFINE s == cache
           f == [StoreOf(s) EXCEPT ![k] = d]
<1>1. /\ SlotsSound(u) /\ Replaced(s, u, i, e) /\ u[i].key = k /\ u[i].data = d
      /\ cache' = Touch(u, i) /\ e # 0
  BY DEF Updated, SlotsSound, Fits
<1>2. /\ SlotsSound(cache')
      /\ \A x \in Keys, v \in Data :
            /\ Shows(cache', x, v) <=> IF x = k THEN v = d ELSE x # k /\ Shows(s, x, v)
            /\ Hides(cache', x, v) <=> Hides(s, x, v)
  BY <1>1, LiveReplaced
<1>3. /\ StoreOf(s) \in [Keys -> Data \cup {NoData}]
      /\ \A x \in Keys, v \in Data : StoreOf(s)[x] = v <=> Shows(s, x, v)
  BY StoreIs
<1>4. s[e].data \in Data /\ StoreOf(s)[k] = s[e].data
  <2>1. s[e].data \in Data
    BY RowIs DEF SlotsSound, LiveApart
  <2>2. Shows(s, k, s[e].data)
    BY DEF Shows
  <2> QED BY <1>3, <2>1, <2>2
<1>5. StoreOf(cache') = f
  <2>1. f \in [Keys -> Data \cup {NoData}]
    BY <1>3
  <2>2. \A x \in Keys, v \in Data : f[x] = v <=> Shows(cache', x, v)
    BY <1>2, <1>3
  <2> HIDE DEF f
  <2> QED BY <1>2, <2>1, <2>2, StoreFrom
<1>6. LostOf(cache') = LostOf(s)
  BY <1>2, LostIs, LostFrom
<1>7. k \in CachedIn(s)
  BY <1>4, DataAssumption DEF CachedIn
<1>8. reply' = Reply("update", NoData, PairsIn(s, {k}))
  <2>1. PairsIn(s, {k}) = {<<k, s[e].data>>}
    BY <1>4 DEF PairsIn
  <2>2. reply' = Reply("update", NoData,
                                 IF e = 0 THEN {}
                                 ELSE IF s[e].data = NoData THEN {} ELSE {<<s[e].key, s[e].data>>})
    BY Zenon DEF Updated
  <2> QED BY <1>1, <1>4, <2>1, <2>2, DataAssumption
<1> QED BY <1>5, <1>6, <1>7, <1>8, ForgetfulOverwrite

(* Every slot is live: the entry used longest ago is thrown out.           *)
LEMMA ThrownOutForgetful ==
  ASSUME SlotsSound(cache), NEW k \in Keys, NEW d \in Data, NEW u, NEW i,
         NEW e \in DOMAIN cache, Updated(cache, u, i, e, k, d),
         k \notin CachedIn(cache),
         cache[e].refs # LenMax, Len(cache) = LenMax,
         \A j \in DOMAIN cache : cache[j].refs <= cache[e].refs
  PROVE  Forgetful!Insert(k, d)
<1> DEFINE s == cache
           out == {<<s[e].key, s[e].data>>}
           forgot == {}
           f == [x \in Keys |-> IF x = k THEN d
                                ELSE IF x \in forgot \/ (FullIn(s) /\ <<x, StoreOf(s)[x]>> \in out)
                                     THEN NoData ELSE StoreOf(s)[x]]
<1>1. /\ SlotsSound(u) /\ Replaced(s, u, i, e) /\ u[i].key = k /\ u[i].data = d
      /\ cache' = Touch(u, i) /\ e # 0
  BY DEF Updated, SlotsSound, Fits
<1>2. /\ SlotsSound(cache')
      /\ \A x \in Keys, v \in Data :
            /\ Shows(cache', x, v) <=> IF x = k THEN v = d ELSE x # s[e].key /\ Shows(s, x, v)
            /\ Hides(cache', x, v) <=> Hides(s, x, v)
  BY <1>1, LiveReplaced
<1>3. /\ StoreOf(s) \in [Keys -> Data \cup {NoData}]
      /\ \A x \in Keys, v \in Data : StoreOf(s)[x] = v <=> Shows(s, x, v)
      /\ LostOf(s) \subseteq Keys \X Data
      /\ \A x \in Keys, v \in Data : <<x, v>> \in LostOf(s) <=> Hides(s, x, v)
  BY StoreIs, LostIs
<1>4. s[e].data \in Data /\ s[e].key \in Keys /\ StoreOf(s)[s[e].key] = s[e].data
  <2>1. s[e].data \in Data /\ s[e].key \in Keys
    BY RowIs DEF SlotsSound, LiveApart
  <2>2. Shows(s, s[e].key, s[e].data)
    BY DEF Shows
  <2> QED BY <1>3, <2>1, <2>2
<1>5. FullIn(s)
  <2>1. \A j \in DOMAIN s : s[j].refs # LenMax
    <3>1. \A j \in DOMAIN s : s[j].refs \in 0 .. LenMax
      BY RowIs DEF SlotsSound
    <3> QED BY <3>1, LenMaxAssumption
  <2> QED BY <2>1, FullIs DEF FullIn
<1>6. StoreOf(cache') = f
  <2>1. f \in [Keys -> Data \cup {NoData}]
    BY <1>3
  <2>2. ASSUME NEW x \in Keys, NEW v \in Data PROVE f[x] = v <=> Shows(cache', x, v)
    <3>1. <<x, StoreOf(s)[x]>> \in out <=> x = s[e].key
      BY <1>4
    <3>2. f[x] = IF x = k THEN d ELSE IF x = s[e].key THEN NoData ELSE StoreOf(s)[x]
      BY <1>5, <3>1
    <3> QED BY <1>2, <1>3, <3>2, DataAssumption
  <2> HIDE DEF f
  <2> QED BY <1>2, <2>1, <2>2, StoreFrom
<1>7. LostOf(cache') = LostOf(s)
  BY <1>2, LostIs, LostFrom
<1>8. LostOf(s) = (LostOf(s) \ out) \cup PairsIn(s, forgot)
  <2>1. ~Hides(s, s[e].key, s[e].data)
    BY KeysApart DEF Hides, OneSlotEach
  <2>2. <<s[e].key, s[e].data>> \notin LostOf(s)
    BY <1>3, <1>4, <2>1
  <2> QED BY <2>2 DEF PairsIn
<1>9. out \in AtMostOneOf(PairsIn(s, CachedIn(s)))
  BY <1>4, DataAssumption DEF AtMostOneOf, PairsIn, CachedIn
<1>10. reply' = Reply("update", NoData, out)
  <2>1. reply' = Reply("update", NoData,
                                 IF e = 0 THEN {}
                                 ELSE IF s[e].data = NoData THEN {} ELSE {<<s[e].key, s[e].data>>})
    BY Zenon DEF Updated
  <2> QED BY <1>1, <1>4, <2>1, DataAssumption
<1>11. Forgets(s, cache', k, d, out, forgot)
  <2>1. out # {} /\ forgot = {}
    OBVIOUS
  <2>2. LostOf(cache') = (LostOf(s) \ out) \cup PairsIn(s, forgot)
    BY <1>7, <1>8
  <2> HIDE DEF out, forgot
  <2> QED BY <1>6, <2>1, <2>2, Zenon DEF Forgets
<1>12. forgot \in AtMostOneOf(CachedIn(s))
  BY DEF AtMostOneOf
<1>13. out \in AtMostOneOf(IF FullIn(s) THEN PairsIn(s, CachedIn(s)) ELSE LostOf(s))
  BY <1>5, <1>9
<1> HIDE DEF out, forgot
<1> QED BY <1>10, <1>11, <1>12, <1>13, ForgetfulInsert

(* There is a slot that is not live, or room for a new one.                *)
LEMMA TakenOverForgetful ==
  ASSUME SlotsSound(cache), NEW k \in Keys, NEW d \in Data, NEW u, NEW i, NEW e,
         Updated(cache, u, i, e, k, d), k \notin CachedIn(cache),
         \/ e = 0 /\ Len(cache) < LenMax
         \/ e \in DOMAIN cache /\ cache[e].refs = LenMax
  PROVE  Forgetful!Insert(k, d)
<1> DEFINE s == cache
           out == Handed(s, e)
           forgot == Oldest(s)
           f == [x \in Keys |-> IF x = k THEN d
                                ELSE IF x \in forgot \/ (FullIn(s) /\ <<x, StoreOf(s)[x]>> \in out)
                                     THEN NoData ELSE StoreOf(s)[x]]
           L == (LostOf(s) \ out) \cup PairsIn(s, forgot)
<1>1. /\ SlotsSound(u) /\ Replaced(s, u, i, e) /\ u[i].key = k /\ u[i].data = d
      /\ cache' = Touch(u, i) /\ u[i].refs = LenMax
  BY DEF Updated, Replaced
<1>2. reply' = Reply("update", NoData, out)
  BY Zenon DEF Updated, Handed
<1>3. /\ SlotsSound(cache')
      /\ \A x \in Keys, v \in Data :
            /\ Shows(cache', x, v) <=> IF x = k THEN v = d ELSE x \notin Oldest(s) /\ Shows(s, x, v)
            /\ Hides(cache', x, v) <=> \/ x \in Oldest(s) /\ Shows(s, x, v)
                                       \/ Hides(s, x, v) /\ <<x, v>> \notin out
  BY <1>1, DeadReplaced
<1>4. /\ StoreOf(s) \in [Keys -> Data \cup {NoData}]
      /\ \A x \in Keys, v \in Data : StoreOf(s)[x] = v <=> Shows(s, x, v)
      /\ LostOf(s) \subseteq Keys \X Data
      /\ \A x \in Keys, v \in Data : <<x, v>> \in LostOf(s) <=> Hides(s, x, v)
  BY StoreIs, LostIs
<1>5. \A j \in DOMAIN s : /\ s[j].key \in Keys /\ s[j].data \in Data \cup {NoData}
                          /\ s[j].refs # LenMax => s[j].data \in Data
  BY RowIs DEF SlotsSound, LiveApart
<1>6. ~FullIn(s)
  BY FullIs, LenMaxAssumption DEF FullIn, SlotsSound, Fits
<1>7. out \in AtMostOneOf(LostOf(s))
  <2>1. CASE e # 0 /\ s[e].data # NoData
    <3>1. Hides(s, s[e].key, s[e].data) /\ s[e].key \in Keys /\ s[e].data \in Data
      BY <1>5, <2>1 DEF Hides
    <3>2. <<s[e].key, s[e].data>> \in LostOf(s)
      BY <1>4, <3>1
    <3> QED BY <2>1, <3>2 DEF AtMostOneOf, Handed
  <2>2. CASE e = 0 \/ s[e].data = NoData
    BY <2>2 DEF AtMostOneOf, Handed
  <2> QED BY <2>1, <2>2
<1>8. ASSUME NEW x \in forgot PROVE x \in Keys /\ StoreOf(s)[x] \in Data
  <2>1. PICK l \in DOMAIN s : s[l].key = x /\ s[l].refs = LenMax - 1
    BY <1>8 DEF Oldest
  <2>2. x \in Keys /\ s[l].data \in Data /\ s[l].refs # LenMax
    BY <1>5, <2>1, LenMaxAssumption
  <2>3. Shows(s, x, s[l].data)
    BY <2>1, <2>2 DEF Shows
  <2> QED BY <1>4, <2>2, <2>3
<1>9. forgot \in AtMostOneOf(CachedIn(s))
  <2>1. ASSUME NEW x \in forgot, NEW y \in forgot PROVE x = y
    <3>1. PICK a \in DOMAIN s : s[a].key = x /\ s[a].refs = LenMax - 1
      BY <2>1 DEF Oldest
    <3>2. PICK b \in DOMAIN s : s[b].key = y /\ s[b].refs = LenMax - 1
      BY <2>1 DEF Oldest
    <3>3. a = b
      BY <3>1, <3>2, LenMaxAssumption DEF SlotsSound, LiveApart
    <3> QED BY <3>1, <3>2, <3>3
  <2>2. forgot \subseteq CachedIn(s)
    BY <1>8, DataAssumption DEF CachedIn
  <2> HIDE DEF forgot
  <2>3. forgot = {} \/ \E x \in CachedIn(s) : forgot = {x}
    BY <2>1, <2>2
  <2> QED BY <2>3 DEF AtMostOneOf
<1> HIDE DEF out
<1>10. StoreOf(cache') = f
  <2>1. f \in [Keys -> Data \cup {NoData}]
    BY <1>4
  <2>2. ASSUME NEW x \in Keys, NEW v \in Data PROVE f[x] = v <=> Shows(cache', x, v)
    <3>1. f[x] = IF x = k THEN d ELSE IF x \in Oldest(s) THEN NoData ELSE StoreOf(s)[x]
      BY <1>6
    <3> HIDE DEF f
    <3>2. Shows(cache', x, v) <=> IF x = k THEN v = d ELSE x \notin Oldest(s) /\ Shows(s, x, v)
      BY <1>3
    <3>3. StoreOf(s)[x] = v <=> Shows(s, x, v)
      BY <1>4
    <3> QED BY <3>1, <3>2, <3>3, DataAssumption
  <2> HIDE DEF f
  <2> QED BY <1>3, <2>1, <2>2, StoreFrom
<1>11. LostOf(cache') = L
  <2>1. L \in SUBSET (Keys \X Data)
    BY <1>4, <1>8 DEF PairsIn
  <2>2. ASSUME NEW x \in Keys, NEW v \in Data PROVE <<x, v>> \in L <=> Hides(cache', x, v)
    <3>1. <<x, v>> \in PairsIn(s, forgot) <=> x \in Oldest(s) /\ StoreOf(s)[x] = v
      BY DEF PairsIn
    <3>2. /\ StoreOf(s)[x] = v <=> Shows(s, x, v)
          /\ <<x, v>> \in LostOf(s) <=> Hides(s, x, v)
          /\ Hides(cache', x, v) <=> \/ x \in Oldest(s) /\ Shows(s, x, v)
                                     \/ Hides(s, x, v) /\ <<x, v>> \notin out
      BY <1>3, <1>4
    <3>3. <<x, v>> \in L <=> \/ <<x, v>> \in LostOf(s) /\ <<x, v>> \notin out
                             \/ <<x, v>> \in PairsIn(s, forgot)
      OBVIOUS
    <3> HIDE DEF forgot, L
    <3> QED BY <3>1, <3>2, <3>3, Zenon
  <2> HIDE DEF L
  <2> QED BY <1>3, <2>1, <2>2, LostFrom
<1> HIDE DEF forgot
<1>12. Forgets(s, cache', k, d, out, forgot)
  BY <1>6, <1>10, <1>11, Zenon DEF Forgets
<1>13. out \in AtMostOneOf(IF FullIn(s) THEN PairsIn(s, CachedIn(s)) ELSE LostOf(s))
  BY <1>6, <1>7
<1> QED BY <1>2, <1>9, <1>12, <1>13, ForgetfulInsert

LEMMA UpdatedForgetful ==
  ASSUME IInv, NEW k \in Keys, NEW d \in Data, NEW u, NEW i, NEW e,
         Updated(cache, u, i, e, k, d)
  PROVE  Forgetful!Overwrite(k, d) \/ Forgetful!Insert(k, d)
<1> DEFINE s == cache
<1>1. SlotsSound(s)
  BY DEF IInv
<1>2. \/ e \in DOMAIN s /\ s[e].key = k /\ s[e].refs # LenMax
      \/ /\ \A j \in DOMAIN s : s[j].key = k => s[j].refs = LenMax
         /\ \/ e = 0 /\ Len(s) < LenMax
            \/ e \in DOMAIN s /\ s[e].refs = LenMax
            \/ e \in DOMAIN s /\ Len(s) = LenMax /\ \A j \in DOMAIN s : s[j].refs <= s[e].refs
  BY Zenon DEF Updated
<1>3. ASSUME \A j \in DOMAIN s : s[j].key = k => s[j].refs = LenMax PROVE k \notin CachedIn(s)
  <2>1. /\ StoreOf(s)[k] \in Data \cup {NoData}
        /\ \A v \in Data : StoreOf(s)[k] = v <=> Shows(s, k, v)
    BY <1>1, StoreIs
  <2>2. \A v \in Data : ~Shows(s, k, v)
    BY <1>3 DEF Shows
  <2> QED BY <2>1, <2>2 DEF CachedIn
<1> QED BY <1>1, <1>2, <1>3, OverwriteForgetful, ThrownOutForgetful, TakenOverForgetful

LEMMA InitForgetful == MCInit => Forgetful!Init
<1> SUFFICES ASSUME MCInit PROVE Forgetful!Init
  OBVIOUS
<1>1. cache = <<>> /\ reply = Created
  BY DEF MCInit, Init
<1>2. SlotsSound(cache)
  BY InitIsSafe DEF IInv
<1>3. \A x \in Keys, v \in Data : ~Shows(cache, x, v) /\ ~Hides(cache, x, v)
  BY <1>1 DEF Shows, Hides
<1>4. StoreOf(cache) = [x \in Keys |-> NoData]
  <2> DEFINE f == [x \in Keys |-> NoData]
  <2>1. f \in [Keys -> Data \cup {NoData}] /\ \A x \in Keys, v \in Data : f[x] # v
    BY DataAssumption
  <2> HIDE DEF f
  <2>2. StoreOf(cache) = f
    BY <1>2, <1>3, <2>1, StoreFrom
  <2> QED BY <2>2 DEF f
<1>5. LostOf(cache) = {}
  BY <1>2, <1>3, LostIs
<1> QED BY <1>1, <1>4, <1>5, ForgetfulInit

LEMMA StepForgetful ==
  ASSUME IInv, [MCNext]_<<vars, tainted>>
  PROVE  [Forgetful!Next]_(Forgetful!vars)
<1>1. CASE UNCHANGED <<cache, reply>>
  <2>1. StoreOf(cache') = StoreOf(cache) /\ LostOf(cache') = LostOf(cache)
    BY <1>1
  <2>2. reply' = reply
    BY <1>1
  <2>3. UNCHANGED Forgetful!vars
    BY <2>1, <2>2, Zenon
       DEF Forgetful!vars, StoreOf, LostOf, LiveRows, LiveAt, Live, Kept,
           IsValid, DataOf, Range, Range
  <2> QED BY <2>3
<1>2. CASE Next
  <2>1. ASSUME NEW k \in Keys, Find(k) \/ Exists(k) PROVE Forgetful!Next
    BY <2>1, FindForgetful, ExistsForgetful, Zenon DEF Forgetful!Next
  <2>2. ASSUME NEW k \in Keys, Invalidate(k) PROVE Forgetful!Next
    BY <2>2, InvalidateForgetful, Zenon DEF Forgetful!Next
  <2>3. ASSUME NEW k \in Keys, NEW d \in Data, FindMutable(k, d) PROVE Forgetful!Next
    BY <2>3, FindMutableForgetful, Zenon DEF Forgetful!Next
  <2>4. ASSUME NEW k \in Keys, NEW d \in Data, Update(k, d) PROVE Forgetful!Next
    <3>1. PICK u, i, e : Updated(cache, u, i, e, k, d)
      BY <2>4, UpdateIsUpdated, Zenon DEF IInv
    <3>2. Forgetful!Overwrite(k, d) \/ Forgetful!Insert(k, d)
      BY <3>1, UpdatedForgetful
    <3> QED BY <3>2, Zenon DEF Forgetful!Next
  <2>5. ASSUME NEW lo \in Keys, NEW hi \in Keys, InvalidateRange(lo, hi) PROVE Forgetful!Next
    BY <2>5, InvalidateRangeForgetful, Zenon DEF Forgetful!Next
  <2> QED BY <1>2, <2>1, <2>2, <2>3, <2>4, <2>5, Zenon DEF Next
<1> QED BY <1>1, <1>2 DEF MCNext, vars

(* flat_lru implements a cache that may forget: it never shows a stale or  *)
(* an invalidated datum, evicts only when every entry is live, and loses   *)
(* at most one entry, whose datum it keeps, when it takes over the slot of *)
(* another.                                                                *)
THEOREM ForgetfulLRU == MCSpec => ImplementsForgetfulCache
<1>1. MCInit => IInv
  BY InitIsSafe
<1>2. IInv /\ [MCNext]_<<vars, tainted>> => IInv'
  BY StepIsSafe
<1>3. MCInit => Forgetful!Init
  BY InitForgetful
<1>4. IInv /\ [MCNext]_<<vars, tainted>> => [Forgetful!Next]_(Forgetful!vars)
  BY StepForgetful
<1> QED BY <1>1, <1>2, <1>3, <1>4, PTL DEF MCSpec, ImplementsForgetfulCache, Forgetful!Spec
=============================================================================
